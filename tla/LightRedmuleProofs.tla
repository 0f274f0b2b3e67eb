-------------------------- MODULE LightRedmuleProofs --------------------------
(***************************************************************************)
(* Theorems about LightRedmule, for engines, matrices and operations of     *)
(* every size.                                                              *)
(***************************************************************************)
EXTENDS LightRedmuleInv, FiniteSetTheorems, SequenceTheorems, TLAPS

-----------------------------------------------------------------------------
(* Arithmetic. *)

LEMMA Divide ==
  ASSUME NEW a \in Nat, NEW b \in Nat \ {0}
  PROVE  /\ a \div b \in Nat /\ a % b \in 0 .. b - 1
         /\ a = (a \div b) * b + (a % b) /\ (a \div b) * b \in Nat
  OBVIOUS

LEMMA Multiple ==
  ASSUME NEW a \in Int, NEW c \in Int, NEW b \in Nat, a < c
  PROVE  /\ a * b + b <= c * b
         /\ a * b \in Int /\ c * b \in Int
<1>1. a + 1 <= c
  OBVIOUS
<1>2. (a + 1) * b <= c * b
  <2>1. (c - (a + 1)) * b >= 0
    BY <1>1
  <2> QED BY <2>1
<1> QED BY <1>2

LEMMA DivMod ==
  ASSUME NEW q \in Nat, NEW b \in Nat \ {0}, NEW c \in 0 .. b - 1
  PROVE  (q * b + c) \div b = q /\ (q * b + c) % b = c
  OBVIOUS

LEMMA MixedRadix ==
  ASSUME NEW b \in Nat \ {0}, NEW q \in Nat, NEW p \in Nat,
         NEW c \in 0 .. b - 1, NEW d \in 0 .. b - 1,
         q * b + c = p * b + d
  PROVE  q = p /\ c = d
  BY DivMod

LEMMA Cancel ==
  ASSUME NEW b \in Nat \ {0}, NEW p \in Int, NEW q \in Int, p * b = q * b
  PROVE  p = q
<1>1. CASE p < q
  BY <1>1, Multiple
<1>2. CASE q < p
  BY <1>2, Multiple
<1> QED BY <1>1, <1>2

-----------------------------------------------------------------------------
(* The tiles of a size. *)

LEMMA TilesFacts ==
  ASSUME NEW size \in Nat \ {0}, NEW tile \in Nat \ {0}
  PROVE  /\ Tiles(size, tile) \in Nat \ {0}
         /\ \A t \in 0 .. Tiles(size, tile) - 1 :
              /\ Cut(size, tile, t) \in 1 .. tile
              /\ t * tile + Cut(size, tile, t) <= size
              /\ t + 1 < Tiles(size, tile) => Cut(size, tile, t) = tile
              /\ t + 1 = Tiles(size, tile) => t * tile + Cut(size, tile, t) = size
<1> DEFINE q == size \div tile
           p == size % tile
           T == Tiles(size, tile)
<1>1. q \in Nat /\ p \in 0 .. tile - 1 /\ size = q * tile + p /\ q * tile \in Nat
  BY Divide
<1>2. T = q + (IF p > 0 THEN 1 ELSE 0)
  BY DEF Tiles
<1>3. q = 0 => q * tile = 0
  OBVIOUS
<1> HIDE DEF q, p, T
<1>4. T \in Nat \ {0}
  BY <1>1, <1>2, <1>3
<1>5. ASSUME NEW t \in 0 .. T - 1
      PROVE  /\ Cut(size, tile, t) \in 1 .. tile
             /\ t * tile + Cut(size, tile, t) <= size
             /\ t + 1 < T => Cut(size, tile, t) = tile
             /\ t + 1 = T => t * tile + Cut(size, tile, t) = size
  <2>1. t * tile \in Nat
    BY <1>4
  <2>2. Cut(size, tile, t) = IF size - t * tile < tile THEN size - t * tile ELSE tile
    BY DEF Cut, Least
  <2>3. CASE t < q
    <3>1. t * tile + tile <= q * tile
      BY <2>3, <1>1, <1>4, Multiple
    <3>2. Cut(size, tile, t) = tile
      BY <3>1, <2>1, <2>2, <1>1
    <3>3. t + 1 = T => t + 1 = q /\ p = 0
      BY <1>1, <1>2, <1>4, <2>3
    <3>4. t + 1 = q => q * tile = t * tile + tile
      BY <1>4
    <3> QED BY <3>1, <3>2, <3>3, <3>4, <2>1, <1>1
  <2>4. CASE t >= q
    <3>1. t = q /\ p > 0 /\ T = q + 1
      BY <2>4, <1>1, <1>2, <1>4
    <3> QED BY <3>1, <2>1, <2>2, <1>1
  <2> QED BY <2>3, <2>4, <1>1, <1>4
<1> QED BY <1>4, <1>5 DEF T

LEMMA TileOfIndex ==
  ASSUME NEW size \in Nat \ {0}, NEW tile \in Nat \ {0}, NEW a \in 0 .. size - 1
  PROVE  /\ a \div tile \in 0 .. Tiles(size, tile) - 1
         /\ a - (a \div tile) * tile \in 0 .. Cut(size, tile, a \div tile) - 1
<1> DEFINE q == a \div tile
           T == Tiles(size, tile)
<1>0. a \in Nat
  OBVIOUS
<1>1. q \in Nat /\ a % tile \in 0 .. tile - 1 /\ a = q * tile + (a % tile) /\ q * tile \in Nat
  BY <1>0, Divide
<1>2. T \in Nat \ {0}
  BY TilesFacts
<1>3. /\ (T - 1) * tile + Cut(size, tile, T - 1) = size
      /\ Cut(size, tile, T - 1) \in 1 .. tile
  <2>1. T - 1 \in 0 .. T - 1 /\ (T - 1) + 1 = T
    BY <1>2
  <2> HIDE DEF T
  <2> QED BY <2>1, TilesFacts DEF T
<1> HIDE DEF q, T
<1>4. q <= T - 1
  <2>1. ASSUME T - 1 < q PROVE FALSE
    <3>1. (T - 1) * tile + tile <= q * tile /\ (T - 1) * tile \in Int
      BY <2>1, <1>1, <1>2, Multiple
    <3>2. q * tile <= a
      BY <1>1
    <3> QED BY <3>1, <3>2, <1>1, <1>2, <1>3
  <2> QED BY <2>1, <1>1, <1>2
<1>5. /\ q + 1 < T => Cut(size, tile, q) = tile
      /\ q + 1 = T => q * tile + Cut(size, tile, q) = size
  BY <1>1, <1>2, <1>4, TilesFacts DEF T
<1>6. a - q * tile \in 0 .. Cut(size, tile, q) - 1
  <2>1. Cut(size, tile, q) \in 1 .. tile
    BY <1>1, <1>2, <1>4, TilesFacts DEF T
  <2>2. CASE q + 1 < T
    BY <2>1, <2>2, <1>1, <1>5
  <2>3. CASE q + 1 = T
    BY <2>1, <2>3, <1>1, <1>5
  <2> QED BY <2>2, <2>3, <1>1, <1>2, <1>4
<1> QED BY <1>1, <1>2, <1>4, <1>6 DEF q, T

-----------------------------------------------------------------------------
(* The sizes of the engine and of the operation. *)

LEMMA Sizes ==
  ASSUME TypeOK
  PROVE  /\ ce_height \in Nat \ {0} /\ TileWidth \in Nat \ {0}
         /\ bandwidth \in Nat \ {0} /\ TileDepth \in 1 .. bandwidth
         /\ shape.m \in Nat \ {0} /\ shape.n \in Nat \ {0} /\ shape.k \in Nat \ {0}
         /\ elem_size \in {1, 2} /\ fold_tiles_mapping \in BOOLEAN
         /\ x_row_tiles \in Nat \ {0} /\ z_row_tiles \in Nat \ {0}
         /\ z_col_tiles \in Nat \ {0}
         /\ X \in Nat /\ W \in Nat /\ Y \in Nat
<1>1. /\ ce_height \in Nat \ {0} /\ TileWidth \in Nat \ {0}
      /\ bandwidth \in Nat \ {0} /\ bandwidth % 2 = 0
      /\ X \in Nat /\ W \in Nat /\ Y \in Nat
      /\ Shapes \subseteq [m : Nat \ {0}, n : Nat \ {0}, k : Nat \ {0}]
  BY EngineAssumption
<1>2. shape \in Shapes /\ elem_size \in {1, 2} /\ fold_tiles_mapping \in BOOLEAN
  BY DEF TypeOK
<1>3. shape.m \in Nat \ {0} /\ shape.n \in Nat \ {0} /\ shape.k \in Nat \ {0}
  BY <1>1, <1>2
<1>4. TileDepth \in 1 .. bandwidth
  <2>1. CASE elem_size = 1
    BY <2>1, <1>1 DEF TileDepth
  <2>2. CASE elem_size = 2
    BY <2>2, <1>1 DEF TileDepth
  <2> QED BY <2>1, <2>2, <1>2
<1>5. TileDepth \in Nat \ {0}
  BY <1>1, <1>4
<1>6. /\ x_row_tiles \in Nat \ {0} /\ z_row_tiles \in Nat \ {0}
      /\ z_col_tiles \in Nat \ {0}
  BY <1>1, <1>3, <1>5, TilesFacts DEF x_row_tiles, z_row_tiles, z_col_tiles
<1> QED BY <1>1, <1>2, <1>3, <1>4, <1>6

\* The rows of W that an iteration needs are as many as X has columns for it.
LEMMA WRowsFacts ==
  ASSUME TypeOK, NEW k \in 0 .. x_row_tiles - 1
  PROVE  /\ WRows(k) = Cut(shape.n, TileDepth, k)
         /\ WRows(k) \in 1 .. TileDepth /\ WRows(k) \in 1 .. bandwidth
         /\ Cut(shape.n, TileDepth, k) < TileDepth /\ k = 0 => shape.n < TileDepth
<1> DEFINE n == shape.n
           D == TileDepth
           T == x_row_tiles
<1>1. n \in Nat \ {0} /\ D \in Nat \ {0} /\ D \in 1 .. bandwidth /\ bandwidth \in Nat
  BY Sizes
<1>2. T = Tiles(n, D)
  BY DEF x_row_tiles
<1>3. n \div D \in Nat /\ n % D \in 0 .. D - 1 /\ n = (n \div D) * D + (n % D)
  BY <1>1, Divide
<1>4. T = (n \div D) + (IF n % D > 0 THEN 1 ELSE 0) /\ T \in Nat \ {0}
  BY <1>1, <1>2, TilesFacts DEF Tiles
<1>5. /\ Cut(n, D, k) \in 1 .. D
      /\ k + 1 < T => Cut(n, D, k) = D
      /\ k + 1 = T => k * D + Cut(n, D, k) = n
  BY <1>1, <1>2, TilesFacts
<1>6. WRows(k) = IF k = T - 1 /\ n % D > 0 THEN n % D ELSE D
  BY DEF WRows
<1> HIDE DEF n, D, T
<1>7. k \in Nat /\ k <= T - 1
  BY <1>4 DEF T
<1>8. WRows(k) = Cut(n, D, k)
  <2>1. CASE k = T - 1 /\ n % D > 0
    <3>1. k = n \div D /\ k + 1 = T
      BY <2>1, <1>3, <1>4, <1>7
    <3>2. k * D + Cut(n, D, k) = k * D + (n % D) /\ k * D \in Nat
      BY <3>1, <1>1, <1>3, <1>5, <1>7
    <3> QED BY <3>2, <2>1, <1>3, <1>5, <1>6
  <2>2. CASE k = T - 1 /\ n % D = 0
    <3>1. k + 1 = n \div D /\ k + 1 = T
      BY <2>2, <1>3, <1>4, <1>7
    <3>2. (k + 1) * D = k * D + D /\ k * D \in Nat
      BY <1>1, <1>7
    <3>4. n = (k + 1) * D
      <4>1. (n \div D) * D = (k + 1) * D /\ n % D = 0
        BY <3>1, <2>2
      <4>2. (k + 1) * D \in Int
        BY <3>2, <1>1
      <4> QED BY <4>1, <4>2, <1>3
    <3>3. k * D + Cut(n, D, k) = k * D + D
      BY <3>1, <3>2, <3>4, <1>5
    <3> QED BY <3>2, <3>3, <2>2, <1>1, <1>3, <1>5, <1>6
  <2>3. CASE k + 1 < T
    <3>1. k # T - 1
      BY <2>3, <1>4, <1>7
    <3> QED BY <3>1, <2>3, <1>5, <1>6
  <2> QED BY <2>1, <2>2, <2>3, <1>3, <1>4, <1>7
<1>9. Cut(n, D, k) < D /\ k = 0 => n < D
  <2>1. ASSUME Cut(n, D, k) < D, k = 0 PROVE n < D
    <3>1. k + 1 = T
      BY <2>1, <1>1, <1>4, <1>5, <1>7
    <3>2. 0 * D + Cut(n, D, k) = n
      BY <3>1, <2>1, <1>5
    <3> QED BY <3>2, <2>1, <1>1, <1>5
  <2> QED BY <2>1
<1> QED BY <1>1, <1>5, <1>8, <1>9 DEF n, D

-----------------------------------------------------------------------------
(* Where the rows are. *)

\* Elements before row r of tile j, in a matrix whose rows are stride long.
Offset(stride, height, width, r, j) ==
  IF fold_tiles_mapping
  THEN ((r \div height) * Tiles(stride, width) + j) * width * height + (r % height) * width
  ELSE r * stride + j * width

LEMMA LocationIsOffset ==
  ASSUME NEW base, NEW stride, NEW height, NEW width, NEW r, NEW j
  PROVE  Location(base, stride, height, width, r, j)
           = base + elem_size * Offset(stride, height, width, r, j)
  BY DEF Location, Offset

LEMMA OffsetType ==
  ASSUME NEW stride \in Nat \ {0}, NEW height \in Nat \ {0}, NEW width \in Nat \ {0},
         NEW r \in Nat, NEW j \in Nat
  PROVE  Offset(stride, height, width, r, j) \in Nat
<1>1. Tiles(stride, width) \in Nat /\ r \div height \in Nat /\ r % height \in Nat
  <2>1. Tiles(stride, width) \in Nat
    BY TilesFacts
  <2>2. r \div height \in Nat /\ r % height \in 0 .. height - 1
    BY Divide
  <2> QED BY <2>1, <2>2
<1>2. (r \div height) * Tiles(stride, width) \in Nat
  BY <1>1
<1>3. ((r \div height) * Tiles(stride, width) + j) * width \in Nat
  BY <1>2
<1>4. ((r \div height) * Tiles(stride, width) + j) * width * height \in Nat
  BY <1>3
<1>5. (r % height) * width \in Nat
  BY <1>1
<1>6. r * stride \in Nat /\ j * width \in Nat
  OBVIOUS
<1> QED BY <1>4, <1>5, <1>6 DEF Offset

\* Different rows of different tiles have different places.
LEMMA OffsetInjective ==
  ASSUME NEW stride \in Nat \ {0}, NEW height \in Nat \ {0}, NEW width \in Nat \ {0},
         NEW r \in Nat, NEW s \in Nat,
         NEW j \in 0 .. Tiles(stride, width) - 1, NEW l \in 0 .. Tiles(stride, width) - 1,
         Offset(stride, height, width, r, j) = Offset(stride, height, width, s, l)
  PROVE  r = s /\ j = l
<1> DEFINE T == Tiles(stride, width)
<1>0. T \in Nat \ {0} /\ j \in Nat /\ l \in Nat
  BY TilesFacts
<1>1. CASE ~fold_tiles_mapping
  <2>1. r * stride + j * width = s * stride + l * width
    BY <1>1 DEF Offset
  <2>2. /\ j * width + Cut(stride, width, j) <= stride /\ Cut(stride, width, j) >= 1
        /\ l * width + Cut(stride, width, l) <= stride /\ Cut(stride, width, l) >= 1
        /\ Cut(stride, width, j) \in Int /\ Cut(stride, width, l) \in Int
    BY TilesFacts
  <2>3. j * width \in 0 .. stride - 1 /\ l * width \in 0 .. stride - 1
    <3>1. j * width \in Nat /\ l * width \in Nat
      BY <1>0
    <3> QED BY <3>1, <2>2
  <2>4. r = s /\ j * width = l * width
    BY <2>1, <2>3, MixedRadix
  <2> QED BY <2>4, <1>0, Cancel
<1>2. CASE fold_tiles_mapping
  <2> DEFINE p == r \div height
             q == s \div height
             a == p * T + j
             b == q * T + l
             c == r % height
             d == s % height
  <2>1. /\ p \in Nat /\ q \in Nat /\ c \in 0 .. height - 1 /\ d \in 0 .. height - 1
        /\ r = p * height + c /\ s = q * height + d
    BY Divide
  <2>2. a * width * height + c * width = b * width * height + d * width
    BY <1>2 DEF Offset
  <2> HIDE DEF p, q, c, d, T
  <2>3. a \in Nat /\ b \in Nat
    BY <2>1, <1>0
  <2> HIDE DEF a, b
  <2>4. /\ a * width * height + c * width = (a * height + c) * width
        /\ b * width * height + d * width = (b * height + d) * width
        /\ a * height + c \in Nat /\ b * height + d \in Nat
    BY <2>1, <2>3
  <2>5. a * height + c = b * height + d
    BY <2>2, <2>4, Cancel
  <2>6. a = b /\ c = d
    BY <2>1, <2>3, <2>5, MixedRadix
  <2>7. p * T + j = q * T + l /\ j \in 0 .. T - 1 /\ l \in 0 .. T - 1
    BY <2>6 DEF a, b, T
  <2>8. p = q /\ j = l
    BY <2>1, <2>7, <1>0, MixedRadix
  <2> QED BY <2>1, <2>6, <2>8
<1> QED BY <1>1, <1>2

Coincide(base, stride, height, width, r, j, s, l) ==
  /\ base \in Nat /\ stride \in Nat \ {0} /\ height \in Nat \ {0} /\ width \in Nat \ {0}
  /\ r \in Nat /\ s \in Nat
  /\ j \in 0 .. Tiles(stride, width) - 1 /\ l \in 0 .. Tiles(stride, width) - 1
  /\ Location(base, stride, height, width, r, j) = Location(base, stride, height, width, s, l)

LEMMA LocationInjective ==
  ASSUME TypeOK, NEW base, NEW stride, NEW height, NEW width, NEW r, NEW j, NEW s, NEW l,
         Coincide(base, stride, height, width, r, j, s, l)
  PROVE  r = s /\ j = l
<1> USE DEF Coincide
<1>1. /\ Offset(stride, height, width, r, j) \in Nat
      /\ Offset(stride, height, width, s, l) \in Nat
  <2>1. j \in Nat /\ l \in Nat
    BY TilesFacts
  <2> QED BY <2>1, OffsetType
<1>2. elem_size \in {1, 2}
  BY Sizes
<1>3. base + elem_size * Offset(stride, height, width, r, j)
        = base + elem_size * Offset(stride, height, width, s, l)
  BY LocationIsOffset
<1>4. Offset(stride, height, width, r, j) = Offset(stride, height, width, s, l)
  BY <1>1, <1>2, <1>3
<1> QED BY <1>4, OffsetInjective

LEMMA LocationType ==
  ASSUME TypeOK, NEW base \in Nat, NEW stride \in Nat \ {0},
         NEW height \in Nat \ {0}, NEW width \in Nat \ {0}, NEW r \in Nat, NEW j \in Nat
  PROVE  Location(base, stride, height, width, r, j) \in Nat
<1>1. Offset(stride, height, width, r, j) \in Nat
  BY OffsetType
<1>2. elem_size \in {1, 2}
  BY Sizes
<1> QED BY <1>1, <1>2, LocationIsOffset

\* The address generators begin with the first row of a tile.
LEMMA TileBase ==
  ASSUME TypeOK, NEW base \in Nat, NEW stride \in Nat \ {0},
         NEW height \in Nat \ {0}, NEW width \in Nat \ {0}, NEW i \in Nat, NEW j \in Nat
  PROVE  calculate_tile_base_address(base, stride, height, width, i, j)
           = Location(base, stride, height, width, i * height + 0, j)
<1>1. (i * height + 0) \div height = i /\ (i * height + 0) % height = 0
  BY DivMod
<1>2. Offset(stride, height, width, i * height + 0, j)
        = IF fold_tiles_mapping THEN (i * Tiles(stride, width) + j) * width * height
                                ELSE i * height * stride + j * width
  <2>1. CASE fold_tiles_mapping
    <3>1. Tiles(stride, width) \in Nat
      BY TilesFacts
    <3>2. i * Tiles(stride, width) + j \in Nat
      BY <3>1
    <3>3. (i * Tiles(stride, width) + j) * width \in Nat
      BY <3>2
    <3>4. (i * Tiles(stride, width) + j) * width * height \in Nat
      BY <3>3
    <3> QED BY <2>1, <1>1, <3>4 DEF Offset
  <2>2. CASE ~fold_tiles_mapping
    <3>1. i * height + 0 = i * height
      OBVIOUS
    <3> QED BY <2>2, <3>1 DEF Offset
  <2> QED BY <2>1, <2>2
<1> QED BY <1>2, LocationIsOffset DEF calculate_tile_base_address

\* They go on with the next row of it.
Successive(base, stride, height, width, i, j, r, p, q) ==
  /\ base \in Nat /\ stride \in Nat \ {0}
  /\ height \in Nat \ {0} /\ width \in Nat \ {0}
  /\ i \in Nat /\ j \in Nat /\ r \in Nat /\ r + 1 < height
  /\ p = i * height + r /\ q = i * height + (r + 1)

LEMMA NextRow ==
  ASSUME TypeOK, NEW base, NEW stride, NEW height, NEW width, NEW i, NEW j, NEW r, NEW p, NEW q,
         Successive(base, stride, height, width, i, j, r, p, q)
  PROVE  inc_addr(Location(base, stride, height, width, p, j), stride, width)
           = Location(base, stride, height, width, q, j)
<1> USE DEF Successive
<1> DEFINE before == Offset(stride, height, width, p, j)
           after  == Offset(stride, height, width, q, j)
           step   == IF fold_tiles_mapping THEN width ELSE stride
<1>0. i * height \in Nat
  OBVIOUS
<1>1. /\ p \div height = i /\ p % height = r
      /\ q \div height = i /\ q % height = r + 1
  BY DivMod
<1>2. before \in Nat /\ after \in Nat
  <2>1. p \in Nat /\ q \in Nat
    BY <1>0
  <2> QED BY <2>1, OffsetType
<1>3. after = before + step
  <2>1. CASE fold_tiles_mapping
    <3> DEFINE b == (i * Tiles(stride, width) + j) * width * height
    <3>1. b \in Nat
      <4>1. Tiles(stride, width) \in Nat
        BY TilesFacts
      <4>2. i * Tiles(stride, width) + j \in Nat
        BY <4>1
      <4>3. (i * Tiles(stride, width) + j) * width \in Nat
        BY <4>2
      <4> QED BY <4>3
    <3>2. before = b + r * width /\ after = b + (r + 1) * width
      BY <2>1, <1>1 DEF Offset
    <3> HIDE DEF b
    <3> QED BY <3>1, <3>2, <2>1
  <2>2. CASE ~fold_tiles_mapping
    <3>1. /\ before = p * stride + j * width
          /\ after = q * stride + j * width
      BY <2>2 DEF Offset
    <3>2. q * stride = p * stride + stride
      <4>1. q = p + 1 /\ p \in Nat
        BY <1>0
      <4> QED BY <4>1
    <3>3. p * stride \in Nat /\ j * width \in Nat
      <4>1. p \in Nat
        BY <1>0
      <4> QED BY <4>1
    <3> QED BY <3>1, <3>2, <3>3, <2>2
  <2> QED BY <2>1, <2>2
<1>4. elem_size \in {1, 2}
  BY Sizes
<1>5. /\ inc_addr(Location(base, stride, height, width, p, j), stride, width)
           = (base + elem_size * before) + elem_size * step
      /\ Location(base, stride, height, width, q, j)
           = base + elem_size * after
  BY LocationIsOffset DEF inc_addr
<1>6. step \in Nat
  OBVIOUS
<1> HIDE DEF before, after, step
<1> QED BY <1>2, <1>3, <1>4, <1>5, <1>6

-----------------------------------------------------------------------------
(* One access, field by field. *)

WLoad(e) ==
  [e.w_buffer EXCEPT ![e.row["w"]] = Loaded(e, @, e.addr["w"], WCut(e))]

Accessed(e, f, o) ==
  /\ f.i = e.i /\ f.j = e.j /\ f.k = e.k
  /\ f.z_store = e.z_store /\ f.z_previos = e.z_previos
  /\ f.blocks = [e.blocks EXCEPT ![o] = @ - 1]
  /\ f.addr = [e.addr EXCEPT ![o] = IF o = "x" THEN inc_addr(@, shape.n, TileDepth)
                                               ELSE inc_addr(@, shape.k, TileWidth)]

Unmoved(e, f) ==
  /\ f.row = e.row
  /\ f.x_buffer = e.x_buffer /\ f.w_buffer = e.w_buffer
  /\ f.y_buffer_preload = e.y_buffer_preload
  /\ f.z_compute = e.z_compute /\ f.stored = e.stored

Moves(e, f, o) ==
  /\ f.row = [e.row EXCEPT ![o] = IF e.blocks[o] = 1 THEN 0 ELSE @ + 1]
  /\ f.y_buffer_preload =
       IF o = "y" THEN [e.y_buffer_preload EXCEPT
                          ![e.row["y"]] = Loaded(e, @, e.addr["y"], YCut(e))]
       ELSE e.y_buffer_preload
  /\ f.x_buffer =
       IF o = "x" THEN [e.x_buffer EXCEPT ![e.row["x"]] = Loaded(e, @, e.addr["x"], XCut(e))]
       ELSE IF o = "w" /\ e.blocks["w"] = 1 THEN Buffer(ce_height, Zero)
       ELSE e.x_buffer
  /\ f.w_buffer =
       IF o # "w" THEN e.w_buffer
       ELSE IF e.blocks["w"] = 1 THEN Buffer(bandwidth, Zero) ELSE WLoad(e)
  /\ f.z_compute =
       IF o = "w" /\ e.blocks["w"] = 1
       THEN [e.z_compute EXCEPT !.terms = Append(@, [x |-> e.x_buffer, w |-> WLoad(e)])]
       ELSE e.z_compute
  /\ f.stored = IF o = "z" THEN Append(e.stored, PreviousRow(e, e.row["z"])) ELSE e.stored

Engine(e, y_buffer, x_buffer, w_buffer, z_compute, stored) ==
  [i |-> e.i, j |-> e.j, k |-> e.k, blocks |-> e.blocks, addr |-> e.addr, row |-> e.row,
   z_store |-> e.z_store, x_buffer |-> x_buffer, y_buffer_preload |-> y_buffer,
   w_buffer |-> w_buffer, z_compute |-> z_compute, z_previos |-> e.z_previos,
   stored |-> stored]

IsRecord(f) ==
  f = [i |-> f.i, j |-> f.j, k |-> f.k, blocks |-> f.blocks, addr |-> f.addr, row |-> f.row,
       z_store |-> f.z_store, x_buffer |-> f.x_buffer,
       y_buffer_preload |-> f.y_buffer_preload, w_buffer |-> f.w_buffer,
       z_compute |-> f.z_compute, z_previos |-> f.z_previos, stored |-> f.stored]

LEMMA AccessFields ==
  ASSUME NEW e \in EngineType, NEW o \in Operands, o = NextOperand(e)
  PROVE  /\ Accessed(e, Access(e), o)
         /\ IsRecord(Access(e))
         /\ IF compute_able = 0 THEN Unmoved(e, Access(e)) ELSE Moves(e, Access(e), o)
<1> DEFINE g == Transferred(e, o)
<1>0. o \in {"y", "w", "x", "z"}
  BY DEF Operands
<1>1. CASE compute_able = 0
  <2>1. Access(e) = Advanced(e, o)
    BY <1>1 DEF Access
  <2>2. IsRecord(Access(e))
    BY <2>1 DEF Advanced, EngineType, IsRecord
  <2> QED BY <1>1, <2>1, <2>2 DEF Advanced, Accessed, Unmoved, EngineType, Blocks
<1>2. CASE compute_able # 0
  <2>1. Access(e) = [Advanced(g, o) EXCEPT !.row[o] = IF e.blocks[o] = 1 THEN 0 ELSE @ + 1]
    BY <1>2 DEF Access
  <2>2. ASSUME NEW y_buffer, NEW x_buffer, NEW w_buffer, NEW z_compute, NEW stored,
               g = Engine(e, y_buffer, x_buffer, w_buffer, z_compute, stored)
        PROVE  /\ Accessed(e, Access(e), o)
               /\ IsRecord(Access(e))
               /\ Access(e).row = [e.row EXCEPT ![o] = IF e.blocks[o] = 1 THEN 0 ELSE @ + 1]
               /\ Access(e).y_buffer_preload = y_buffer /\ Access(e).x_buffer = x_buffer
               /\ Access(e).w_buffer = w_buffer /\ Access(e).z_compute = z_compute
               /\ Access(e).stored = stored
    <3> HIDE DEF g
    <3>1. /\ e.blocks \in [Operands -> Nat] /\ e.addr \in [Operands -> Nat]
          /\ e.row \in [Operands -> Nat]
      BY DEF EngineType, Blocks
    <3>2. Advanced(g, o) =
            [Engine(e, y_buffer, x_buffer, w_buffer, z_compute, stored) EXCEPT
               !.blocks = [e.blocks EXCEPT ![o] = @ - 1],
               !.addr = [e.addr EXCEPT ![o] = IF o = "x" THEN inc_addr(@, shape.n, TileDepth)
                                              ELSE inc_addr(@, shape.k, TileWidth)]]
      BY <2>2, <3>1 DEF Advanced, Engine
    <3>3. Access(e) =
            [Engine(e, y_buffer, x_buffer, w_buffer, z_compute, stored) EXCEPT
               !.blocks = [e.blocks EXCEPT ![o] = @ - 1],
               !.addr = [e.addr EXCEPT ![o] = IF o = "x" THEN inc_addr(@, shape.n, TileDepth)
                                              ELSE inc_addr(@, shape.k, TileWidth)],
               !.row = [e.row EXCEPT ![o] = IF e.blocks[o] = 1 THEN 0 ELSE @ + 1]]
      BY <2>1, <3>1, <3>2 DEF Engine
    <3>4. IsRecord(Access(e))
      BY <3>3 DEF Engine, IsRecord
    <3> QED BY <3>1, <3>3, <3>4 DEF Engine, Accessed
  <2>3. e = Engine(e, e.y_buffer_preload, e.x_buffer, e.w_buffer, e.z_compute, e.stored)
    BY DEF Engine, EngineType
  <2>4. CASE o = "y"
    <3> DEFINE y_buffer == [e.y_buffer_preload EXCEPT
                              ![e.row["y"]] = Loaded(e, @, e.addr["y"], YCut(e))]
    <3>1. g = [e EXCEPT !.y_buffer_preload = y_buffer]
      BY <2>4 DEF Transferred
    <3>2. g = Engine(e, y_buffer, e.x_buffer, e.w_buffer, e.z_compute, e.stored)
      BY <2>3, <3>1 DEF Engine
    <3> QED BY <1>2, <2>2, <2>4, <3>2 DEF Moves
  <2>5. CASE o = "x"
    <3> DEFINE x_buffer == [e.x_buffer EXCEPT
                              ![e.row["x"]] = Loaded(e, @, e.addr["x"], XCut(e))]
    <3>1. g = [e EXCEPT !.x_buffer = x_buffer]
      BY <2>5 DEF Transferred
    <3>2. g = Engine(e, e.y_buffer_preload, x_buffer, e.w_buffer, e.z_compute, e.stored)
      BY <2>3, <3>1 DEF Engine
    <3> QED BY <1>2, <2>2, <2>5, <3>2 DEF Moves
  <2>6. CASE o = "z"
    <3> DEFINE stored == Append(e.stored, PreviousRow(e, e.row["z"]))
    <3>1. g = [e EXCEPT !.stored = stored]
      BY <2>6 DEF Transferred
    <3>2. g = Engine(e, e.y_buffer_preload, e.x_buffer, e.w_buffer, e.z_compute, stored)
      BY <2>3, <3>1 DEF Engine
    <3> HIDE DEF g, stored
    <3>3. /\ Accessed(e, Access(e), o)
          /\ IsRecord(Access(e))
          /\ Access(e).row = [e.row EXCEPT ![o] = IF e.blocks[o] = 1 THEN 0 ELSE @ + 1]
          /\ Access(e).y_buffer_preload = e.y_buffer_preload /\ Access(e).x_buffer = e.x_buffer
          /\ Access(e).w_buffer = e.w_buffer /\ Access(e).z_compute = e.z_compute
          /\ Access(e).stored = stored
      BY <2>2, <3>2
    <3> QED BY <1>2, <2>6, <3>3 DEF Moves, stored
  <2>7. CASE o = "w" /\ e.blocks["w"] # 1
    <3>1. g = [e EXCEPT !.w_buffer = WLoad(e)]
      BY <2>7 DEF Transferred, WLoad
    <3>2. g = Engine(e, e.y_buffer_preload, e.x_buffer, WLoad(e), e.z_compute, e.stored)
      BY <2>3, <3>1 DEF Engine
    <3> QED BY <1>2, <2>2, <2>7, <3>2 DEF Moves
  <2>8. CASE o = "w" /\ e.blocks["w"] = 1
    <3> DEFINE h == [e EXCEPT !.w_buffer = WLoad(e)]
               z == [e.z_compute EXCEPT !.terms = Append(@, [x |-> e.x_buffer, w |-> WLoad(e)])]
    <3>1. h = [e EXCEPT !.w_buffer = WLoad(e)]
      OBVIOUS
    <3>2. g = process_compute(h)
      BY <2>8, <3>1 DEF Transferred, WLoad
    <3>3. h = Engine(e, e.y_buffer_preload, e.x_buffer, WLoad(e), e.z_compute, e.stored)
      BY <2>3, <3>1 DEF Engine
    <3> HIDE DEF h, g
    <3>4. g = Engine(e, e.y_buffer_preload, Buffer(ce_height, Zero), Buffer(bandwidth, Zero),
                     z, e.stored)
      BY <3>2, <3>3 DEF Engine, process_compute
    <3> QED BY <1>2, <2>2, <2>8, <3>4 DEF Moves, g
  <2> QED BY <1>0, <2>4, <2>5, <2>6, <2>7, <2>8
<1> QED BY <1>1, <1>2

-----------------------------------------------------------------------------
(* The iterations. *)

InLoop(e) ==
  e \in EngineType /\ e.i < z_col_tiles /\ e.j < z_row_tiles /\ e.k < x_row_tiles

LEMMA FieldTypes ==
  ASSUME NEW e \in EngineType
  PROVE  /\ e.i \in Nat /\ e.j \in Nat /\ e.k \in Nat
         /\ e.blocks \in [Operands -> Nat] /\ e.addr \in [Operands -> Nat]
         /\ e.row \in [Operands -> Nat]
         /\ e.z_store.width \in 0 .. TileWidth /\ e.z_store.height \in 0 .. ce_height
         /\ e.z_store \in [width : 0 .. TileWidth, height : 0 .. ce_height]
         /\ e.x_buffer \in Rows(ce_height) /\ e.y_buffer_preload \in Rows(ce_height)
         /\ e.w_buffer \in Rows(bandwidth)
         /\ e.z_compute \in Sum /\ e.z_previos \in Sum
         /\ e.stored \in Seq(StoredRow)
  BY DEF EngineType, Blocks

\* Engine n is engine e in iteration i, j, k.
Moved(n, e, i, j, k) ==
  /\ n \in EngineType
  /\ n.i = i /\ n.j = j /\ n.k = k
  /\ n.blocks = e.blocks /\ n.addr = e.addr /\ n.row = e.row /\ n.z_store = e.z_store
  /\ n.x_buffer = e.x_buffer /\ n.w_buffer = e.w_buffer
  /\ n.y_buffer_preload = e.y_buffer_preload
  /\ n.z_compute = e.z_compute /\ n.z_previos = e.z_previos /\ n.stored = e.stored

LEMMA Indexed ==
  ASSUME NEW e \in EngineType, NEW i \in Nat, NEW j \in Nat, NEW k \in Nat
  PROVE  Moved([e EXCEPT !.i = i, !.j = j, !.k = k], e, i, j, k)
<1> DEFINE n == [e EXCEPT !.i = i, !.j = j, !.k = k]
<1>1. /\ n.i = i /\ n.j = j /\ n.k = k
      /\ n.blocks = e.blocks /\ n.addr = e.addr /\ n.row = e.row /\ n.z_store = e.z_store
      /\ n.x_buffer = e.x_buffer /\ n.w_buffer = e.w_buffer
      /\ n.y_buffer_preload = e.y_buffer_preload
      /\ n.z_compute = e.z_compute /\ n.z_previos = e.z_previos /\ n.stored = e.stored
  BY DEF EngineType
<1>2. n = [i |-> i, j |-> j, k |-> k, blocks |-> e.blocks, addr |-> e.addr, row |-> e.row,
           z_store |-> e.z_store, x_buffer |-> e.x_buffer,
           y_buffer_preload |-> e.y_buffer_preload, w_buffer |-> e.w_buffer,
           z_compute |-> e.z_compute, z_previos |-> e.z_previos, stored |-> e.stored]
  <2>1. e = Engine(e, e.y_buffer_preload, e.x_buffer, e.w_buffer, e.z_compute, e.stored)
    BY DEF Engine, EngineType
  <2>2. n = [Engine(e, e.y_buffer_preload, e.x_buffer, e.w_buffer, e.z_compute, e.stored)
               EXCEPT !.i = i, !.j = j, !.k = k]
    BY <2>1
  <2> HIDE DEF n
  <2> QED BY <2>2 DEF Engine
<1> HIDE DEF n
<1>3. n \in EngineType
  <2>1. /\ e.blocks \in Blocks /\ e.addr \in Blocks /\ e.row \in Blocks
        /\ e.z_store \in [width : 0 .. TileWidth, height : 0 .. ce_height]
        /\ e.x_buffer \in Rows(ce_height) /\ e.y_buffer_preload \in Rows(ce_height)
        /\ e.w_buffer \in Rows(bandwidth)
        /\ e.z_compute \in Sum /\ e.z_previos \in Sum
        /\ e.stored \in Seq(StoredRow)
    BY DEF EngineType
  <2> QED BY <1>2, <2>1 DEF EngineType
<1> QED BY <1>1, <1>3 DEF Moved, n

LEMMA NextIteration ==
  ASSUME TypeOK, NEW e, InLoop(e), NEW n, n = next_iteration(e)
  PROVE  /\ n \in EngineType
         /\ n.i \in 0 .. z_col_tiles /\ n.j \in 0 .. z_row_tiles - 1
         /\ n.k \in 0 .. x_row_tiles - 1
         /\ e.k + 1 < x_row_tiles => n.i = e.i /\ n.j = e.j /\ n.k = e.k + 1
         /\ e.k + 1 = x_row_tiles /\ e.j + 1 < z_row_tiles =>
              n.i = e.i /\ n.j = e.j + 1 /\ n.k = 0
         /\ e.k + 1 = x_row_tiles /\ e.j + 1 = z_row_tiles =>
              n.i = e.i + 1 /\ n.j = 0 /\ n.k = 0
         /\ n.blocks = e.blocks /\ n.addr = e.addr /\ n.row = e.row /\ n.z_store = e.z_store
         /\ n.x_buffer = e.x_buffer /\ n.w_buffer = e.w_buffer
         /\ n.y_buffer_preload = e.y_buffer_preload
         /\ n.z_compute = e.z_compute /\ n.z_previos = e.z_previos /\ n.stored = e.stored
<1>1. /\ x_row_tiles \in Nat \ {0} /\ z_row_tiles \in Nat \ {0} /\ z_col_tiles \in Nat \ {0}
  BY Sizes
<1>2. /\ e \in EngineType /\ e.i < z_col_tiles /\ e.j < z_row_tiles /\ e.k < x_row_tiles
      /\ e.i \in Nat /\ e.j \in Nat /\ e.k \in Nat
  BY FieldTypes DEF InLoop
<1>3. CASE e.k + 1 # x_row_tiles
  <2>1. n = [e EXCEPT !.k = e.k + 1]
    BY <1>3 DEF next_iteration
  <2>2. n = [e EXCEPT !.i = e.i, !.j = e.j, !.k = e.k + 1]
    BY <2>1, <1>2 DEF EngineType
  <2>3. Moved(n, e, e.i, e.j, e.k + 1)
    <3>1. e.k + 1 \in Nat
      BY <1>2
    <3>2. Moved([e EXCEPT !.i = e.i, !.j = e.j, !.k = e.k + 1], e, e.i, e.j, e.k + 1)
      BY <3>1, <1>2, Indexed, Zenon
    <3> QED BY <2>2, <3>2
  <2> QED BY <2>3, <1>1, <1>2, <1>3 DEF Moved
<1>4. CASE e.k + 1 = x_row_tiles /\ e.j + 1 = z_row_tiles
  <2>1. n = [e EXCEPT !.i = e.i + 1, !.j = 0, !.k = 0]
    BY <1>4 DEF next_iteration, NextTile
  <2>2. e.i + 1 \in Nat /\ 0 \in Nat
    BY <1>2
  <2>3. Moved(n, e, e.i + 1, 0, 0)
    <3>1. Moved([e EXCEPT !.i = e.i + 1, !.j = 0, !.k = 0], e, e.i + 1, 0, 0)
      BY <2>2, <1>2, Indexed, Zenon
    <3> QED BY <2>1, <3>1
  <2> QED BY <2>3, <1>1, <1>2, <1>4 DEF Moved
<1>5. CASE e.k + 1 = x_row_tiles /\ e.j + 1 # z_row_tiles
  <2>1. n = [e EXCEPT !.i = e.i, !.j = e.j + 1, !.k = 0]
    BY <1>5 DEF next_iteration, NextTile
  <2>2. e.i \in Nat /\ e.j + 1 \in Nat /\ 0 \in Nat
    BY <1>2
  <2>3. Moved(n, e, e.i, e.j + 1, 0)
    <3>1. Moved([e EXCEPT !.i = e.i, !.j = e.j + 1, !.k = 0], e, e.i, e.j + 1, 0)
      BY <2>2, <1>2, Indexed, Zenon
    <3> QED BY <2>1, <3>1
  <2> QED BY <2>3, <1>1, <1>2, <1>5 DEF Moved
<1> QED BY <1>3, <1>4, <1>5

RoutineBlocks(e) ==
  LET next == next_iteration(e)
      last == next.i = z_col_tiles
      lastOfTile == e.k = x_row_tiles - 1
  IN  [o \in Operands |->
            CASE o = "w" -> WRows(e.k)
              [] o = "x" -> IF last THEN 0 ELSE Cut(shape.m, ce_height, next.i)
              [] o = "y" -> IF last \/ ~lastOfTile THEN 0
                            ELSE Cut(shape.m, ce_height, next.i)
              [] o = "z" -> IF StoresPrevious(e) THEN e.z_store.height ELSE 0]

RoutineAddr(e) ==
  LET next == next_iteration(e)
      last == next.i = z_col_tiles
      lastOfTile == e.k = x_row_tiles - 1
      previous == PreviousTile(e.i, e.j)
  IN  [o \in Operands |->
            CASE o = "w" -> calculate_tile_base_address(W, shape.k, TileDepth, TileWidth,
                                                        e.k, e.j)
              [] o = "x" /\ ~last ->
                   calculate_tile_base_address(X, shape.n, ce_height, TileDepth,
                                               next.i, next.k)
              [] o = "y" /\ ~last /\ lastOfTile ->
                   calculate_tile_base_address(Y, shape.k, ce_height, TileWidth,
                                               next.i, next.j)
              [] o = "z" /\ StoresPrevious(e) ->
                   calculate_tile_base_address(Y, shape.k, ce_height, TileWidth,
                                               previous[1], previous[2])
              [] OTHER -> e.addr[o]]

LEMMA RoutineFields ==
  ASSUME NEW e \in EngineType
  PROVE  Routine(e) = [e EXCEPT !.blocks = RoutineBlocks(e), !.addr = RoutineAddr(e)]
  BY DEF Routine, RoutineBlocks, RoutineAddr

LEMMA PlannedRoutine ==
  ASSUME TypeOK, NEW e, InLoop(e), NEW n, n = next_iteration(e)
  PROVE  /\ Planned(e, "ROUTINE") \in [Operands -> Nat]
         /\ Planned(e, "ROUTINE")["w"] = Cut(shape.n, TileDepth, e.k)
         /\ Planned(e, "ROUTINE")["w"] \in 1 .. bandwidth
         /\ Planned(e, "ROUTINE")["x"] =
              IF n.i = z_col_tiles THEN 0 ELSE Cut(shape.m, ce_height, n.i)
         /\ Planned(e, "ROUTINE")["x"] \in 0 .. ce_height
         /\ Planned(e, "ROUTINE")["y"] =
              IF n.i = z_col_tiles \/ e.k + 1 # x_row_tiles THEN 0
              ELSE Cut(shape.m, ce_height, n.i)
         /\ Planned(e, "ROUTINE")["y"] \in 0 .. ce_height
         /\ Planned(e, "ROUTINE")["z"] = IF StoresPrevious(e) THEN e.z_store.height ELSE 0
         /\ Planned(e, "ROUTINE")["z"] \in 0 .. ce_height
<1> DEFINE P == [o \in Operands |->
            CASE o = "w" -> WRows(e.k)
              [] o = "x" -> IF n.i = z_col_tiles THEN 0 ELSE Cut(shape.m, ce_height, n.i)
              [] o = "y" -> IF n.i = z_col_tiles \/ ~(e.k = x_row_tiles - 1) THEN 0
                            ELSE Cut(shape.m, ce_height, n.i)
              [] o = "z" -> IF StoresPrevious(e) THEN e.z_store.height ELSE 0]
<1>0. x_row_tiles \in Nat \ {0} /\ z_row_tiles \in Nat \ {0} /\ z_col_tiles \in Nat \ {0}
  BY Sizes
<1>1. e \in EngineType /\ e.k \in 0 .. x_row_tiles - 1 /\ e.z_store.height \in 0 .. ce_height
  BY <1>0, FieldTypes DEF InLoop
<1>2. Planned(e, "ROUTINE") = P
  <2>1. Planned(e, "ROUTINE") = Routine(e).blocks
    BY DEF Planned
  <2>2. Routine(e).blocks = RoutineBlocks(e)
    BY <1>1, RoutineFields DEF EngineType
  <2>3. RoutineBlocks(e) = P
    BY DEF RoutineBlocks
  <2> QED BY <2>1, <2>2, <2>3
<1>3. WRows(e.k) = Cut(shape.n, TileDepth, e.k) /\ WRows(e.k) \in 1 .. bandwidth
  BY <1>1, WRowsFacts
<1>4. n.i \in 0 .. z_col_tiles
  BY NextIteration
<1>5. ce_height \in Nat \ {0} /\ bandwidth \in Nat /\ shape.m \in Nat \ {0}
  BY Sizes
<1>6. n.i # z_col_tiles => Cut(shape.m, ce_height, n.i) \in 1 .. ce_height
  <2>1. n.i # z_col_tiles => n.i \in 0 .. z_col_tiles - 1
    BY <1>0, <1>4
  <2> QED BY <2>1, <1>5, TilesFacts DEF z_col_tiles
<1>7. e.k = x_row_tiles - 1 <=> e.k + 1 = x_row_tiles
  BY <1>0, <1>1
<1>8. /\ P["w"] = WRows(e.k)
      /\ P["x"] = IF n.i = z_col_tiles THEN 0 ELSE Cut(shape.m, ce_height, n.i)
      /\ P["y"] = IF n.i = z_col_tiles \/ ~(e.k = x_row_tiles - 1) THEN 0
                  ELSE Cut(shape.m, ce_height, n.i)
      /\ P["z"] = IF StoresPrevious(e) THEN e.z_store.height ELSE 0
      /\ DOMAIN P = Operands
      /\ P = [o \in Operands |-> P[o]]
  BY DEF Operands
<1> HIDE DEF P
<1>9. P["w"] \in Nat /\ P["x"] \in 0 .. ce_height /\ P["y"] \in 0 .. ce_height
      /\ P["z"] \in 0 .. ce_height
  BY <1>1, <1>3, <1>5, <1>6, <1>8
<1>10. P \in [Operands -> Nat]
  BY <1>5, <1>8, <1>9 DEF Operands
<1> QED BY <1>2, <1>3, <1>7, <1>8, <1>9, <1>10

LEMMA PlannedPhase ==
  ASSUME TypeOK, NEW st \in Phases, NEW e \in EngineType, Iteration(e, st)
  PROVE  /\ Planned(e, st) \in [Operands -> Nat]
         /\ Planned(e, st)["y"] \in 0 .. ce_height /\ Planned(e, st)["x"] \in 0 .. ce_height
         /\ Planned(e, st)["z"] \in 0 .. ce_height /\ Planned(e, st)["w"] \in 0 .. bandwidth
         /\ st = "PRELOAD" =>
              /\ Planned(e, st)["y"] = Cut(shape.m, ce_height, 0)
              /\ Planned(e, st)["x"] = Cut(shape.m, ce_height, 0)
              /\ Planned(e, st)["w"] = 0 /\ Planned(e, st)["z"] = 0
         /\ st = "STORING" =>
              /\ Planned(e, st)["y"] = 0 /\ Planned(e, st)["x"] = 0
              /\ Planned(e, st)["w"] = 0 /\ Planned(e, st)["z"] = e.z_store.height
         /\ st = "ROUTINE" => InLoop(e)
<1>0. ce_height \in Nat \ {0} /\ shape.m \in Nat \ {0} /\ bandwidth \in Nat
  BY Sizes
<1>1. CASE st = "PRELOAD"
  <2>1. Planned(e, st) = Preload(e).blocks
    BY <1>1 DEF Planned
  <2>2. Planned(e, st) = [NoBlocks EXCEPT !["x"] = Least(shape.m, ce_height),
                                          !["y"] = Least(shape.m, ce_height)]
    BY <2>1 DEF Preload, EngineType
  <2>3. Least(shape.m, ce_height) \in 0 .. ce_height
    BY <1>0 DEF Least
  <2>4. Cut(shape.m, ce_height, 0) = Least(shape.m, ce_height)
    BY <1>0 DEF Cut, Least
  <2> QED BY <2>2, <2>3, <2>4, <1>0, <1>1 DEF NoBlocks, Operands
<1>2. CASE st = "STORING"
  <2>1. Planned(e, st) = Storing(e).blocks
    BY <1>2 DEF Planned
  <2>2. Planned(e, st) = [NoBlocks EXCEPT !["z"] = e.z_store.height]
    BY <2>1 DEF Storing, EngineType
  <2>3. e.z_store.height \in 0 .. ce_height
    BY FieldTypes
  <2> QED BY <2>2, <2>3, <1>0, <1>2 DEF NoBlocks, Operands
<1>3. CASE st = "ROUTINE"
  <2>1. InLoop(e)
    BY <1>3 DEF Iteration, InLoop
  <2>2. next_iteration(e) = next_iteration(e)
    OBVIOUS
  <2> QED BY <2>1, <2>2, <1>0, <1>3, PlannedRoutine
<1> QED BY <1>1, <1>2, <1>3 DEF Phases

LEMMA SamePlan ==
  ASSUME NEW e \in EngineType, NEW f \in EngineType, NEW st \in Phases,
         f.i = e.i, f.j = e.j, f.k = e.k, f.z_store = e.z_store
  PROVE  /\ Planned(f, st) = Planned(e, st)
         /\ next_iteration(f).i = next_iteration(e).i
         /\ next_iteration(f).j = next_iteration(e).j
         /\ next_iteration(f).k = next_iteration(e).k
<1>1. /\ next_iteration(f).i = next_iteration(e).i
      /\ next_iteration(f).j = next_iteration(e).j
      /\ next_iteration(f).k = next_iteration(e).k
  BY DEF next_iteration, EngineType
<1>2. CASE st = "ROUTINE"
  <2>1. Planned(f, st) = RoutineBlocks(f) /\ Planned(e, st) = RoutineBlocks(e)
    BY <1>2, RoutineFields DEF Planned, EngineType
  <2>2. WRows(f.k) = WRows(e.k) /\ (StoresPrevious(f) <=> StoresPrevious(e))
    BY DEF StoresPrevious
  <2>3. RoutineBlocks(f) = RoutineBlocks(e)
    BY <1>1, <2>2 DEF RoutineBlocks
  <2> QED BY <2>1, <2>3, <1>1
<1>3. CASE st = "PRELOAD"
  <2>1. Planned(f, st) = Planned(e, st)
    BY <1>3 DEF Planned, Preload, EngineType
  <2> QED BY <2>1, <1>1
<1>4. CASE st = "STORING"
  <2>1. Planned(f, st) = Planned(e, st)
    BY <1>4 DEF Planned, Storing, EngineType
  <2> QED BY <2>1, <1>1
<1> QED BY <1>2, <1>3, <1>4 DEF Phases

-----------------------------------------------------------------------------
(* An access: which operand, and how far it takes the state. *)

LEMMA AccessChoice ==
  ASSUME TypeOK, NEW st \in Phases, NEW e \in EngineType, NEW c \in Nat,
         Iteration(e, st), Progress(e, st, c), c < tcdm_block_total,
         NEW o, o = NextOperand(e)
  PROVE  /\ o \in Operands /\ e.blocks[o] \in Nat \ {0}
         /\ Sent(e, st, o) \in 0 .. Planned(e, st)[o] - 1
         /\ e.blocks[o] = Planned(e, st)[o] - Sent(e, st, o)
         /\ o # "y" => e.blocks["y"] = 0
         /\ o \in {"x", "z"} => e.blocks["w"] = 0
         /\ o = "z" => e.blocks["x"] = 0
         /\ o = "w" => Sent(e, st, "x") = 0 /\ Sent(e, st, "z") = 0
         /\ o = "y" => Sent(e, st, "w") = 0 /\ Sent(e, st, "x") = 0 /\ Sent(e, st, "z") = 0
         /\ o = "x" => Sent(e, st, "z") = 0
<1> DEFINE P == Planned(e, st)
           B == e.blocks
<1>1. B \in [Operands -> Nat] /\ P \in [Operands -> Nat]
  BY FieldTypes, PlannedPhase
<1>2. /\ tcdm_block_total = P["y"] + P["w"] + P["x"] + P["z"]
      /\ c = tcdm_block_total - (B["y"] + B["w"] + B["x"] + B["z"])
      /\ \A p \in Operands : B[p] <= P[p]
  BY DEF Progress, Total
<1>3. /\ B["y"] \in Nat /\ B["w"] \in Nat /\ B["x"] \in Nat /\ B["z"] \in Nat
      /\ P["y"] \in Nat /\ P["w"] \in Nat /\ P["x"] \in Nat /\ P["z"] \in Nat
      /\ "y" \in Operands /\ "w" \in Operands /\ "x" \in Operands /\ "z" \in Operands
  BY <1>1 DEF Operands
<1>4. /\ B["y"] > 0 => Sent(e, st, "w") = 0
      /\ B["y"] > 0 \/ B["w"] > 0 => Sent(e, st, "x") = 0
      /\ B["y"] > 0 \/ B["w"] > 0 \/ B["x"] > 0 => Sent(e, st, "z") = 0
  BY DEF Progress
<1>5. \A p \in Operands : Sent(e, st, p) = P[p] - B[p]
  BY DEF Sent
<1>6. o = IF B["y"] > 0 THEN "y" ELSE IF B["w"] > 0 THEN "w"
          ELSE IF B["x"] > 0 THEN "x" ELSE "z"
  BY DEF NextOperand
<1> HIDE DEF P, B
<1>7. B["y"] + B["w"] + B["x"] + B["z"] > 0
  BY <1>2, <1>3
<1>8. CASE B["y"] > 0
  <2>1. o = "y"
    BY <1>3, <1>6, <1>8
  <2> QED BY <2>1, <1>2, <1>3, <1>4, <1>5, <1>8 DEF P, B
<1>9. CASE B["y"] = 0 /\ B["w"] > 0
  <2>1. o = "w"
    BY <1>3, <1>6, <1>9
  <2> QED BY <2>1, <1>2, <1>3, <1>4, <1>5, <1>9 DEF P, B
<1>10. CASE B["y"] = 0 /\ B["w"] = 0 /\ B["x"] > 0
  <2>1. o = "x"
    BY <1>3, <1>6, <1>10
  <2> QED BY <2>1, <1>2, <1>3, <1>4, <1>5, <1>10 DEF P, B
<1>11. CASE B["y"] = 0 /\ B["w"] = 0 /\ B["x"] = 0
  <2>1. o = "z" /\ B["z"] > 0
    BY <1>3, <1>6, <1>7, <1>11
  <2> QED BY <2>1, <1>2, <1>3, <1>4, <1>5, <1>11 DEF P, B
<1> QED BY <1>3, <1>8, <1>9, <1>10, <1>11

LEMMA AccessProgress ==
  ASSUME TypeOK, NEW st \in Phases, NEW e \in EngineType, NEW c \in Nat,
         Iteration(e, st), Progress(e, st, c), c < tcdm_block_total,
         NEW o, o = NextOperand(e), NEW f \in EngineType, Accessed(e, f, o)
  PROVE  /\ Planned(f, st) = Planned(e, st)
         /\ Iteration(f, st)
         /\ \A p \in Operands : /\ Sent(f, st, p) = IF p = o THEN Sent(e, st, p) + 1
                                                    ELSE Sent(e, st, p)
                                /\ f.blocks[p] = IF p = o THEN e.blocks[p] - 1 ELSE e.blocks[p]
         /\ Progress(f, st, c + 1)
<1> DEFINE P == Planned(e, st)
           B == e.blocks
<1>1. B \in [Operands -> Nat] /\ P \in [Operands -> Nat]
  BY FieldTypes, PlannedPhase
<1>2. /\ tcdm_block_total = P["y"] + P["w"] + P["x"] + P["z"]
      /\ c = tcdm_block_total - (B["y"] + B["w"] + B["x"] + B["z"])
      /\ \A p \in Operands : B[p] <= P[p]
  BY DEF Progress, Total
<1>3. /\ B["y"] \in Nat /\ B["w"] \in Nat /\ B["x"] \in Nat /\ B["z"] \in Nat
      /\ P["y"] \in Nat /\ P["w"] \in Nat /\ P["x"] \in Nat /\ P["z"] \in Nat
      /\ "y" \in Operands /\ "w" \in Operands /\ "x" \in Operands /\ "z" \in Operands
      /\ \A p \in Operands : p \in {"y", "w", "x", "z"}
  BY <1>1 DEF Operands
<1>4. Planned(f, st) = P
  BY SamePlan DEF Accessed
<1>5. Iteration(f, st)
  BY DEF Iteration, Accessed
<1>6. /\ o \in Operands /\ B[o] \in Nat \ {0}
      /\ o # "y" => B["y"] = 0
      /\ o \in {"x", "z"} => B["w"] = 0
      /\ o = "z" => B["x"] = 0
      /\ o = "w" => Sent(e, st, "x") = 0 /\ Sent(e, st, "z") = 0
      /\ o = "y" => Sent(e, st, "w") = 0 /\ Sent(e, st, "x") = 0 /\ Sent(e, st, "z") = 0
      /\ o = "x" => Sent(e, st, "z") = 0
  BY AccessChoice
<1>7. f.blocks = [B EXCEPT ![o] = @ - 1]
  BY DEF Accessed
<1>8. \A p \in Operands : f.blocks[p] = IF p = o THEN B[p] - 1 ELSE B[p]
  BY <1>1, <1>7
<1>9. \A p \in Operands : Sent(f, st, p) = P[p] - f.blocks[p] /\ Sent(e, st, p) = P[p] - B[p]
  BY <1>4 DEF Sent
<1> HIDE DEF P, B
<1>10. \A p \in Operands : Sent(f, st, p) = IF p = o THEN Sent(e, st, p) + 1
                                            ELSE Sent(e, st, p)
  BY <1>1, <1>6, <1>8, <1>9
<1>11. Progress(f, st, c + 1)
  <2> DEFINE C == f.blocks
  <2>1. /\ C["y"] = IF o = "y" THEN B["y"] - 1 ELSE B["y"]
        /\ C["w"] = IF o = "w" THEN B["w"] - 1 ELSE B["w"]
        /\ C["x"] = IF o = "x" THEN B["x"] - 1 ELSE B["x"]
        /\ C["z"] = IF o = "z" THEN B["z"] - 1 ELSE B["z"]
    BY <1>3, <1>8
  <2> HIDE DEF C
  <2>0. o \in {"y", "w", "x", "z"}
    BY <1>3, <1>6
  <2>2. /\ C["y"] + C["w"] + C["x"] + C["z"] = (B["y"] + B["w"] + B["x"] + B["z"]) - 1
        /\ B["y"] + B["w"] + B["x"] + B["z"] \in Int
    <3>1. CASE o = "y"
      BY <3>1, <2>1, <1>3
    <3>2. CASE o = "w"
      BY <3>2, <2>1, <1>3
    <3>3. CASE o = "x"
      BY <3>3, <2>1, <1>3
    <3>4. CASE o = "z"
      BY <3>4, <2>1, <1>3
    <3> QED BY <3>1, <3>2, <3>3, <3>4, <2>0
  <2>3. \A p \in Operands : C[p] <= P[p]
    BY <1>1, <1>2, <1>6, <1>8 DEF C
  <2>4. /\ C["y"] > 0 => Sent(f, st, "w") = 0
        /\ C["y"] > 0 \/ C["w"] > 0 => Sent(f, st, "x") = 0
        /\ C["y"] > 0 \/ C["w"] > 0 \/ C["x"] > 0 => Sent(f, st, "z") = 0
    <3>1. /\ B["y"] > 0 => Sent(e, st, "w") = 0
          /\ B["y"] > 0 \/ B["w"] > 0 => Sent(e, st, "x") = 0
          /\ B["y"] > 0 \/ B["w"] > 0 \/ B["x"] > 0 => Sent(e, st, "z") = 0
      BY DEF Progress, B
    <3> QED BY <3>1, <2>1, <1>3, <1>6, <1>10
  <2>5. c + 1 = tcdm_block_total - (C["y"] + C["w"] + C["x"] + C["z"])
    BY <2>2, <1>2, <1>3
  <2> QED BY <2>3, <2>4, <2>5, <1>2, <1>4 DEF Progress, Total, C
<1> QED BY <1>4, <1>5, <1>8, <1>10, <1>11 DEF P, B

-----------------------------------------------------------------------------
(* What an access brings. *)

LEMMA AheadFacts ==
  ASSUME TypeOK, NEW st \in {"PRELOAD", "ROUTINE"}, NEW e \in EngineType, Iteration(e, st)
  PROVE  /\ Ahead(e, st).i \in 0 .. z_col_tiles
         /\ Ahead(e, st).j \in 0 .. z_row_tiles - 1
         /\ Ahead(e, st).k \in 0 .. x_row_tiles - 1
         /\ e.i \in 0 .. z_col_tiles - 1 /\ e.j \in 0 .. z_row_tiles - 1
         /\ e.k \in 0 .. x_row_tiles - 1
         /\ st = "PRELOAD" => Ahead(e, st) = e
         /\ st = "ROUTINE" => InLoop(e) /\ Ahead(e, st) = next_iteration(e)
<1>0. /\ x_row_tiles \in Nat \ {0} /\ z_row_tiles \in Nat \ {0} /\ z_col_tiles \in Nat \ {0}
      /\ e.i \in Nat /\ e.j \in Nat /\ e.k \in Nat
  BY Sizes, FieldTypes
<1>1. CASE st = "PRELOAD"
  BY <1>0, <1>1 DEF Iteration, Ahead
<1>2. CASE st = "ROUTINE"
  <2>1. InLoop(e) /\ Ahead(e, st) = next_iteration(e)
    BY <1>2 DEF Iteration, InLoop, Ahead
  <2>2. /\ next_iteration(e).i \in 0 .. z_col_tiles
        /\ next_iteration(e).j \in 0 .. z_row_tiles - 1
        /\ next_iteration(e).k \in 0 .. x_row_tiles - 1
    BY <2>1, NextIteration
  <2> QED BY <2>1, <2>2, <1>0, <1>2 DEF InLoop
<1> QED BY <1>1, <1>2

LEMMA Cuts ==
  ASSUME TypeOK, NEW st \in {"PRELOAD", "ROUTINE"}, state = st,
         NEW e \in EngineType, Iteration(e, st)
  PROVE  /\ XCut(e) = Cut(shape.n, TileDepth, Ahead(e, st).k)
         /\ XCut(e) \in 1 .. bandwidth
         /\ st = "PRELOAD" \/ e.k + 1 = x_row_tiles =>
              YCut(e) = Cut(shape.k, TileWidth, Ahead(e, st).j)
         /\ YCut(e) \in 1 .. TileWidth
         /\ WCut(e) = Cut(shape.k, TileWidth, e.j) /\ WCut(e) \in 1 .. TileWidth
<1>0. /\ x_row_tiles \in Nat \ {0} /\ z_row_tiles \in Nat \ {0}
      /\ shape.n \in Nat \ {0} /\ shape.k \in Nat \ {0} /\ TileWidth \in Nat \ {0}
      /\ TileDepth \in 1 .. bandwidth /\ TileDepth \in Nat \ {0} /\ bandwidth \in Nat
  BY Sizes
<1>1. /\ \A t \in 0 .. x_row_tiles - 1 : Cut(shape.n, TileDepth, t) \in 1 .. bandwidth
      /\ \A t \in 0 .. z_row_tiles - 1 : Cut(shape.k, TileWidth, t) \in 1 .. TileWidth
  <2>1. \A t \in 0 .. x_row_tiles - 1 : Cut(shape.n, TileDepth, t) \in 1 .. TileDepth
    BY <1>0, TilesFacts DEF x_row_tiles
  <2>2. \A t \in 0 .. z_row_tiles - 1 : Cut(shape.k, TileWidth, t) \in 1 .. TileWidth
    BY <1>0, TilesFacts DEF z_row_tiles
  <2> QED BY <1>0, <2>1, <2>2
<1>2. /\ Ahead(e, st).j \in 0 .. z_row_tiles - 1 /\ Ahead(e, st).k \in 0 .. x_row_tiles - 1
      /\ e.j \in 0 .. z_row_tiles - 1 /\ e.k \in 0 .. x_row_tiles - 1
      /\ e.j \in Nat /\ e.k \in Nat
  BY AheadFacts, FieldTypes
<1>3. XCut(e) = Cut(shape.n, TileDepth, Ahead(e, st).k)
  <2>1. CASE st = "PRELOAD"
    <3>1. Ahead(e, st).k = 0
      BY <2>1 DEF Ahead, Iteration
    <3> QED BY <2>1, <3>1 DEF XCut
  <2>2. CASE st = "ROUTINE"
    <3>1. InLoop(e) /\ Ahead(e, st) = next_iteration(e)
      BY <2>2, AheadFacts
    <3>2. /\ e.k + 1 = x_row_tiles => Ahead(e, st).k = 0
          /\ e.k + 1 # x_row_tiles => Ahead(e, st).k = e.k + 1
      BY <3>1, <1>0, <1>2, NextIteration
    <3> QED BY <3>2, <2>2 DEF XCut
  <2> QED BY <2>1, <2>2
<1>4. st = "PRELOAD" \/ e.k + 1 = x_row_tiles =>
        YCut(e) = Cut(shape.k, TileWidth, Ahead(e, st).j)
  <2>1. CASE st = "PRELOAD"
    <3>1. Ahead(e, st).j = 0
      BY <2>1 DEF Ahead, Iteration
    <3> QED BY <2>1, <3>1 DEF YCut
  <2>2. CASE st = "ROUTINE" /\ e.k + 1 = x_row_tiles
    <3>1. InLoop(e) /\ Ahead(e, st) = next_iteration(e)
      BY <2>2, AheadFacts
    <3>2. /\ e.j + 1 = z_row_tiles => Ahead(e, st).j = 0
          /\ e.j + 1 # z_row_tiles => Ahead(e, st).j = e.j + 1
      BY <3>1, <2>2, <1>0, <1>2, NextIteration
    <3> QED BY <3>2, <2>2 DEF YCut
  <2> QED BY <2>1, <2>2
<1>5. YCut(e) \in 1 .. TileWidth
  <2>1. /\ 0 \in 0 .. z_row_tiles - 1
        /\ e.j + 1 # z_row_tiles => e.j + 1 \in 0 .. z_row_tiles - 1
    BY <1>0, <1>2
  <2> QED BY <2>1, <1>1 DEF YCut
<1> QED BY <1>1, <1>2, <1>3, <1>4, <1>5 DEF WCut

LEMMA LoadedType ==
  ASSUME TypeOK, NEW e, NEW row \in Row, NEW addr \in Nat, NEW width \in 0 .. bandwidth + TileWidth
  PROVE  /\ Loaded(e, row, addr, width) \in Row
         /\ Loaded(e, row, addr, width).at = addr
         /\ Loaded(e, row, addr, width).width = width
         /\ addr \notin StoredAt(e) => Loaded(e, row, addr, width).fresh
         /\ row.width = 0 => Loaded(e, row, addr, width).under = row.under
  BY DEF Loaded, Row

\* One row of a buffer is loaded.
IsLoad(e, new, buffer, n, r, addr, width) ==
  /\ TypeOK /\ buffer \in Rows(n) /\ r \in 0 .. n - 1 /\ addr \in Nat
  /\ width \in 0 .. bandwidth + TileWidth
  /\ new = [buffer EXCEPT ![r] = Loaded(e, @, addr, width)]

LEMMA LoadFacts ==
  ASSUME NEW e, NEW new, NEW buffer, NEW n, NEW r, NEW addr, NEW width,
         IsLoad(e, new, buffer, n, r, addr, width)
  PROVE  /\ new[r].at = addr /\ new[r].width = width
         /\ addr \notin StoredAt(e) => new[r].fresh
         /\ buffer[r].width = 0 => new[r].under = buffer[r].under
         /\ \A q \in 0 .. n - 1 : q # r => new[q] = buffer[q]
<1>1. /\ buffer \in [0 .. n - 1 -> Row] /\ r \in 0 .. n - 1 /\ addr \in Nat
      /\ new = [buffer EXCEPT ![r] = Loaded(e, @, addr, width)]
      /\ width \in 0 .. bandwidth + TileWidth
  BY DEF IsLoad, Rows
<1>2. new[r] = Loaded(e, buffer[r], addr, width)
  BY <1>1
<1>3. \A q \in 0 .. n - 1 : q # r => new[q] = buffer[q]
  BY <1>1
<1>4. /\ new[r].at = addr /\ new[r].width = width
      /\ buffer[r].width = 0 => new[r].under = buffer[r].under
  BY <1>2 DEF Loaded
<1>5. ASSUME addr \notin StoredAt(e) PROVE new[r].fresh
  <2>1. Loaded(e, buffer[r], addr, width).fresh = (addr \notin StoredAt(e))
    BY DEF Loaded
  <2>2. (addr \notin StoredAt(e)) = TRUE
    BY <1>5
  <2> QED BY <2>1, <2>2, <1>2
<1> QED BY <1>3, <1>4, <1>5

LEMMA BufferFacts ==
  ASSUME TypeOK, NEW n \in Nat, NEW contents \in {"zero", "garbage"}
  PROVE  /\ NoRow(contents) \in Row /\ NoRow(contents).width = 0
         /\ NoRow(contents).under = contents
         /\ Zero \in Row
         /\ Buffer(n, NoRow(contents)) \in Rows(n) /\ Buffer(n, Zero) \in Rows(n)
         /\ \A r \in 0 .. n - 1 : /\ Buffer(n, NoRow(contents))[r] = NoRow(contents)
                                  /\ Buffer(n, Zero)[r] = Zero
<1>1. bandwidth \in Nat /\ TileWidth \in Nat
  BY Sizes
<1>2. NoRow(contents) \in Row /\ Zero \in Row
  BY <1>1 DEF NoRow, Zero, Row
<1> QED BY <1>2 DEF Buffer, Rows, NoRow

LEMMA SumFacts ==
  ASSUME NEW sum \in Sum
  PROVE  /\ sum.y \in Rows(ce_height)
         /\ sum.terms \in Seq([x : Rows(ce_height), w : Rows(bandwidth)])
         /\ Len(sum.terms) \in Nat /\ DOMAIN sum.terms = 1 .. Len(sum.terms)
         /\ \A t \in 1 .. Len(sum.terms) : /\ sum.terms[t].x \in Rows(ce_height)
                                           /\ sum.terms[t].w \in Rows(bandwidth)
<1>1. /\ sum.y \in Rows(ce_height)
      /\ sum.terms \in Seq([x : Rows(ce_height), w : Rows(bandwidth)])
  BY DEF Sum
<1>2. /\ Len(sum.terms) \in Nat /\ DOMAIN sum.terms = 1 .. Len(sum.terms)
      /\ \A t \in 1 .. Len(sum.terms) :
           sum.terms[t] \in [x : Rows(ce_height), w : Rows(bandwidth)]
  BY <1>1, LenProperties, ElementOfSeq
<1> QED BY <1>1, <1>2

\* The row that an access stores.
LEMMA PreviousRowType ==
  ASSUME TypeOK, NEW e \in EngineType, NEW r \in 0 .. ce_height - 1
  PROVE  /\ PreviousRow(e, r) \in StoredRow
         /\ PreviousRow(e, r).at = e.addr["z"] /\ PreviousRow(e, r).width = e.z_store.width
         /\ PreviousRow(e, r).y = e.z_previos.y[r]
         /\ Len(PreviousRow(e, r).terms) = Len(e.z_previos.terms)
         /\ \A t \in 1 .. Len(e.z_previos.terms) :
              PreviousRow(e, r).terms[t]
                = [x |-> e.z_previos.terms[t].x[r], w |-> e.z_previos.terms[t].w]
<1> DEFINE z == e.z_previos
           terms == [t \in 1 .. Len(z.terms) |-> [x |-> z.terms[t].x[r], w |-> z.terms[t].w]]
<1>1. /\ z.y \in Rows(ce_height) /\ Len(z.terms) \in Nat /\ DOMAIN z.terms = 1 .. Len(z.terms)
      /\ \A t \in 1 .. Len(z.terms) : /\ z.terms[t].x \in Rows(ce_height)
                                      /\ z.terms[t].w \in Rows(bandwidth)
  BY FieldTypes, SumFacts
<1>2. PreviousRow(e, r) = [at |-> e.addr["z"], width |-> e.z_store.width, y |-> z.y[r],
                           terms |-> terms]
  BY <1>1 DEF PreviousRow
<1>3. terms \in Seq([x : Row, w : Rows(bandwidth)]) /\ Len(terms) = Len(z.terms)
  <2>1. \A t \in 1 .. Len(z.terms) :
          [x |-> z.terms[t].x[r], w |-> z.terms[t].w] \in [x : Row, w : Rows(bandwidth)]
    BY <1>1 DEF Rows
  <2> QED BY <2>1, <1>1
<1>4. z.y[r] \in Row /\ e.addr["z"] \in Nat /\ e.z_store.width \in Nat
  <2>1. e.addr \in [Operands -> Nat] /\ "z" \in Operands /\ e.z_store.width \in 0 .. TileWidth
    BY FieldTypes DEF Operands
  <2>2. TileWidth \in Nat
    BY Sizes
  <2>3. z.y[r] \in Row
    BY <1>1 DEF Rows
  <2>4. e.addr["z"] \in Nat /\ e.z_store.width \in Nat
    <3> HIDE DEF z
    <3> QED BY <2>1, <2>2
  <2> QED BY <2>3, <2>4
<1> HIDE DEF terms
<1>5. PreviousRow(e, r) \in StoredRow
  BY <1>2, <1>3, <1>4 DEF StoredRow
<1> QED BY <1>2, <1>3, <1>5 DEF terms

-----------------------------------------------------------------------------
(* The next access, in a state that is in step. *)

Accessing(e, st, c, o) ==
  /\ TypeOK
  /\ e \in EngineType /\ st \in Phases /\ state = st
  /\ Iteration(e, st) /\ Progress(e, st, c)
  /\ c \in Nat /\ c < tcdm_block_total
  /\ o = NextOperand(e)

LEMMA Choice ==
  ASSUME NEW e, NEW st, NEW c, NEW o, Accessing(e, st, c, o)
  PROVE  /\ o \in Operands /\ e.blocks[o] \in Nat \ {0}
         /\ Sent(e, st, o) \in 0 .. Planned(e, st)[o] - 1
         /\ e.blocks[o] = Planned(e, st)[o] - Sent(e, st, o)
         /\ o # "w" => Sent(e, st, o) \in 0 .. ce_height - 1
         /\ o = "w" => Sent(e, st, o) \in 0 .. bandwidth - 1
         /\ o # "z" => st \in {"PRELOAD", "ROUTINE"}
         /\ o = "w" => st = "ROUTINE"
         /\ Accessed(e, Access(e), o) /\ IsRecord(Access(e))
         /\ IF compute_able = 0 THEN Unmoved(e, Access(e)) ELSE Moves(e, Access(e), o)
<1>1. /\ TypeOK /\ e \in EngineType /\ st \in Phases
      /\ Iteration(e, st) /\ Progress(e, st, c)
      /\ c \in Nat /\ c < tcdm_block_total
      /\ o = NextOperand(e)
  BY DEF Accessing
<1>2. /\ o \in Operands /\ e.blocks[o] \in Nat \ {0}
      /\ Sent(e, st, o) \in 0 .. Planned(e, st)[o] - 1
      /\ e.blocks[o] = Planned(e, st)[o] - Sent(e, st, o)
  BY <1>1, AccessChoice
<1>3. /\ Planned(e, st) \in [Operands -> Nat]
      /\ Planned(e, st)["y"] \in 0 .. ce_height /\ Planned(e, st)["x"] \in 0 .. ce_height
      /\ Planned(e, st)["z"] \in 0 .. ce_height /\ Planned(e, st)["w"] \in 0 .. bandwidth
      /\ st = "PRELOAD" => Planned(e, st)["w"] = 0
      /\ st = "STORING" =>
           /\ Planned(e, st)["y"] = 0 /\ Planned(e, st)["x"] = 0 /\ Planned(e, st)["w"] = 0
  BY <1>1, PlannedPhase
<1>4. Planned(e, st)[o] \in Nat \ {0}
  BY <1>2, <1>3
<1>5. ce_height \in Nat /\ bandwidth \in Nat
  BY <1>1, Sizes
<1>6. /\ o # "w" => Sent(e, st, o) \in 0 .. ce_height - 1
      /\ o = "w" => Sent(e, st, o) \in 0 .. bandwidth - 1
  <2>1. CASE o = "w"
    BY <2>1, <1>2, <1>3, <1>5
  <2>2. CASE o # "w"
    <3>1. Planned(e, st)[o] \in 0 .. ce_height
      BY <2>2, <1>2, <1>3 DEF Operands
    <3> QED BY <3>1, <2>2, <1>2, <1>5
  <2> QED BY <2>1, <2>2
<1>7. /\ o # "z" => st \in {"PRELOAD", "ROUTINE"}
      /\ o = "w" => st = "ROUTINE"
  BY <1>1, <1>2, <1>3, <1>4 DEF Operands, Phases
<1>8. /\ Accessed(e, Access(e), o) /\ IsRecord(Access(e))
      /\ IF compute_able = 0 THEN Unmoved(e, Access(e)) ELSE Moves(e, Access(e), o)
  BY <1>1, <1>2, AccessFields
<1> QED BY <1>2, <1>6, <1>7, <1>8

LEMMA ChosenRow ==
  ASSUME NEW e, NEW st, NEW c, NEW o, Accessing(e, st, c, o), Addresses(e, st)
  PROVE  /\ e.row[o] = Sent(e, st, o)
         /\ e.addr[o] = RowAddress(e, st, o, Sent(e, st, o))
         /\ o # "w" => e.row[o] \in 0 .. ce_height - 1
         /\ o = "w" => e.row[o] \in 0 .. bandwidth - 1
<1>1. /\ o \in Operands /\ e.blocks[o] \in Nat \ {0}
      /\ o # "w" => Sent(e, st, o) \in 0 .. ce_height - 1
      /\ o = "w" => Sent(e, st, o) \in 0 .. bandwidth - 1
  BY Choice
<1>2. e.row[o] = Sent(e, st, o) /\ e.addr[o] = RowAddress(e, st, o, Sent(e, st, o))
  BY <1>1 DEF Addresses
<1> QED BY <1>1, <1>2

LEMMA WLoadType ==
  ASSUME NEW e, NEW st, NEW c, Accessing(e, st, c, "w"), Addresses(e, st)
  PROVE  /\ WLoad(e) \in Rows(bandwidth)
         /\ \A d \in 0 .. bandwidth - 1 :
              WLoad(e)[d] = IF d = e.row["w"]
                            THEN Loaded(e, e.w_buffer[d], e.addr["w"], WCut(e))
                            ELSE e.w_buffer[d]
<1>1. /\ TypeOK /\ e \in EngineType /\ st \in {"PRELOAD", "ROUTINE"} /\ state = st
      /\ Iteration(e, st)
  BY Choice DEF Accessing
<1>2. e.row["w"] \in 0 .. bandwidth - 1
  BY ChosenRow
<1>3. e.w_buffer \in [0 .. bandwidth - 1 -> Row] /\ e.addr["w"] \in Nat
  BY <1>1, FieldTypes DEF Rows, Operands
<1>4. WCut(e) \in 0 .. bandwidth + TileWidth
  <2>1. WCut(e) \in 1 .. TileWidth
    BY <1>1, Cuts
  <2>2. bandwidth \in Nat /\ TileWidth \in Nat
    BY <1>1, Sizes
  <2> QED BY <2>1, <2>2
<1>5. Loaded(e, e.w_buffer[e.row["w"]], e.addr["w"], WCut(e)) \in Row
  <2>1. e.w_buffer[e.row["w"]] \in Row
    BY <1>2, <1>3
  <2> QED BY <2>1, <1>1, <1>3, <1>4, LoadedType
<1> QED BY <1>2, <1>3, <1>5 DEF WLoad, Rows

\* A sum with one more term.
LEMMA SumGrows ==
  ASSUME NEW sum \in Sum, NEW x \in Rows(ce_height), NEW w \in Rows(bandwidth), NEW new,
         new = [sum EXCEPT !.terms = Append(@, [x |-> x, w |-> w])]
  PROVE  /\ new \in Sum /\ new.y = sum.y
         /\ Len(new.terms) = Len(sum.terms) + 1
         /\ \A t \in 1 .. Len(sum.terms) : new.terms[t] = sum.terms[t]
         /\ new.terms[Len(sum.terms) + 1] = [x |-> x, w |-> w]
<1> DEFINE Term == [x : Rows(ce_height), w : Rows(bandwidth)]
<1>1. sum.terms \in Seq(Term) /\ [x |-> x, w |-> w] \in Term /\ sum.y \in Rows(ce_height)
  BY DEF Sum
<1>2. new = [y |-> sum.y, terms |-> Append(sum.terms, [x |-> x, w |-> w])]
  BY DEF Sum
<1> DEFINE term == [x |-> x, w |-> w]
           terms == Append(sum.terms, term)
<1>3. /\ terms \in Seq(Term)
      /\ Len(terms) = Len(sum.terms) + 1
      /\ \A t \in 1 .. Len(sum.terms) : terms[t] = sum.terms[t]
      /\ terms[Len(sum.terms) + 1] = term
  <2> HIDE DEF term, Term
  <2>1. sum.terms \in Seq(Term) /\ term \in Term
    BY <1>1 DEF term
  <2> QED BY <2>1, AppendProperties
<1> HIDE DEF terms, term
<1>4. new = [y |-> sum.y, terms |-> terms]
  BY <1>2 DEF terms, term
<1>5. new \in Sum
  <2>1. Sum = [y : Rows(ce_height), terms : Seq(Term)]
    BY DEF Sum
  <2> HIDE DEF Term
  <2>2. [y |-> sum.y, terms |-> terms] \in [y : Rows(ce_height), terms : Seq(Term)]
    BY <1>1, <1>3
  <2> QED BY <2>1, <2>2, <1>4, Zenon
<1> QED BY <1>3, <1>4, <1>5 DEF term

LEMMA AccessType ==
  ASSUME NEW e, NEW st, NEW c, NEW o, Accessing(e, st, c, o),
         compute_able # 0 => Addresses(e, st)
  PROVE  Access(e) \in EngineType
<1> DEFINE f == Access(e)
<1>0. f = Access(e)
  OBVIOUS
<1> HIDE DEF f
<1>1. /\ TypeOK /\ e \in EngineType /\ state = st /\ Iteration(e, st)
      /\ o \in Operands /\ e.blocks[o] \in Nat \ {0}
      /\ o # "z" => st \in {"PRELOAD", "ROUTINE"}
  BY Choice DEF Accessing
<1>2. Accessed(e, f, o) /\ IsRecord(f) /\ IF compute_able = 0 THEN Unmoved(e, f) ELSE Moves(e, f, o)
  BY <1>0, Choice
<1>3. /\ e.i \in Nat /\ e.j \in Nat /\ e.k \in Nat
      /\ e.blocks \in [Operands -> Nat] /\ e.addr \in [Operands -> Nat]
      /\ e.row \in [Operands -> Nat]
      /\ e.z_store \in [width : 0 .. TileWidth, height : 0 .. ce_height]
      /\ e.x_buffer \in Rows(ce_height) /\ e.y_buffer_preload \in Rows(ce_height)
      /\ e.w_buffer \in Rows(bandwidth)
      /\ e.z_compute \in Sum /\ e.z_previos \in Sum
      /\ e.stored \in Seq(StoredRow)
  BY <1>1, FieldTypes
<1>4. /\ elem_size \in {1, 2} /\ shape.n \in Nat /\ shape.k \in Nat /\ fold_tiles_mapping \in BOOLEAN
      /\ TileWidth \in Nat /\ TileDepth \in Nat /\ bandwidth \in Nat /\ ce_height \in Nat
  BY <1>1, Sizes
<1>5. f.blocks \in Blocks
  <2>1. f.blocks = [e.blocks EXCEPT ![o] = @ - 1]
    BY <1>2 DEF Accessed
  <2>2. e.blocks[o] - 1 \in Nat
    BY <1>1
  <2> QED BY <2>1, <2>2, <1>1, <1>3 DEF Blocks
<1>6. f.addr \in Blocks
  <2>1. f.addr = [e.addr EXCEPT ![o] = IF o = "x" THEN inc_addr(@, shape.n, TileDepth)
                                                   ELSE inc_addr(@, shape.k, TileWidth)]
    BY <1>2 DEF Accessed
  <2>2. e.addr[o] \in Nat
    BY <1>1, <1>3
  <2>3. /\ inc_addr(e.addr[o], shape.n, TileDepth) \in Nat
        /\ inc_addr(e.addr[o], shape.k, TileWidth) \in Nat
    BY <2>2, <1>4 DEF inc_addr
  <2> QED BY <2>1, <2>3, <1>1, <1>3 DEF Blocks
<1>7. f.i = e.i /\ f.j = e.j /\ f.k = e.k /\ f.z_store = e.z_store /\ f.z_previos = e.z_previos
  BY <1>2 DEF Accessed
<1>8. /\ f.row \in Blocks
      /\ f.x_buffer \in Rows(ce_height) /\ f.y_buffer_preload \in Rows(ce_height)
      /\ f.w_buffer \in Rows(bandwidth)
      /\ f.z_compute \in Sum
      /\ f.stored \in Seq(StoredRow)
  <2>1. CASE compute_able = 0
    <3>1. Unmoved(e, f)
      BY <1>2, <2>1
    <3> QED BY <3>1, <1>3 DEF Unmoved, Blocks
  <2>2. CASE compute_able # 0
    <3>1. Moves(e, f, o)
      BY <1>2, <2>2
    <3>2. Addresses(e, st)
      BY <2>2
    <3>3. f.row \in Blocks
      <4>1. f.row = [e.row EXCEPT ![o] = IF e.blocks[o] = 1 THEN 0 ELSE @ + 1]
        BY <3>1 DEF Moves
      <4>2. e.row[o] + 1 \in Nat
        BY <1>1, <1>3
      <4> QED BY <4>1, <4>2, <1>1, <1>3 DEF Blocks
    <3>4. \A n \in Nat : Buffer(n, Zero) \in Rows(n)
      BY <1>1, BufferFacts
    <3>5. f.y_buffer_preload \in Rows(ce_height)
      <4>1. CASE o = "y"
        <5>1. f.y_buffer_preload = [e.y_buffer_preload EXCEPT
                                      ![e.row["y"]] = Loaded(e, @, e.addr["y"], YCut(e))]
          BY <3>1, <4>1 DEF Moves
        <5>2. e.row["y"] \in 0 .. ce_height - 1
          BY <3>2, <4>1, ChosenRow
        <5>3. YCut(e) \in 0 .. bandwidth + TileWidth
          <6>1. YCut(e) \in 1 .. TileWidth
            BY <1>1, <4>1, Cuts
          <6> QED BY <6>1, <1>4
        <5>4. Loaded(e, e.y_buffer_preload[e.row["y"]], e.addr["y"], YCut(e)) \in Row
          <6>1. e.y_buffer_preload[e.row["y"]] \in Row /\ e.addr["y"] \in Nat
            BY <5>2, <1>3 DEF Rows, Operands
          <6> QED BY <6>1, <5>3, <1>1, LoadedType
        <5> QED BY <5>1, <5>2, <5>4, <1>3 DEF Rows
      <4>2. CASE o # "y"
        BY <3>1, <4>2, <1>3 DEF Moves
      <4> QED BY <4>1, <4>2
    <3>6. f.x_buffer \in Rows(ce_height)
      <4>1. CASE o = "x"
        <5>1. f.x_buffer = [e.x_buffer EXCEPT ![e.row["x"]] = Loaded(e, @, e.addr["x"], XCut(e))]
          BY <3>1, <4>1 DEF Moves
        <5>2. e.row["x"] \in 0 .. ce_height - 1
          BY <3>2, <4>1, ChosenRow
        <5>3. XCut(e) \in 0 .. bandwidth + TileWidth
          <6>1. XCut(e) \in 1 .. bandwidth
            BY <1>1, <4>1, Cuts
          <6> QED BY <6>1, <1>4
        <5>4. Loaded(e, e.x_buffer[e.row["x"]], e.addr["x"], XCut(e)) \in Row
          <6>1. e.x_buffer[e.row["x"]] \in Row /\ e.addr["x"] \in Nat
            BY <5>2, <1>3 DEF Rows, Operands
          <6> QED BY <6>1, <5>3, <1>1, LoadedType
        <5> QED BY <5>1, <5>2, <5>4, <1>3 DEF Rows
      <4>2. CASE o # "x"
        BY <3>1, <3>4, <4>2, <1>3, <1>4 DEF Moves
      <4> QED BY <4>1, <4>2
    <3>7. o = "w" => WLoad(e) \in Rows(bandwidth)
      BY <3>2, WLoadType
    <3>8. f.w_buffer \in Rows(bandwidth)
      BY <3>1, <3>4, <3>7, <1>3, <1>4 DEF Moves
    <3>9. f.z_compute \in Sum
      <4>1. CASE o = "w" /\ e.blocks["w"] = 1
        <5>1. f.z_compute = [e.z_compute EXCEPT !.terms = Append(@, [x |-> e.x_buffer, w |-> WLoad(e)])]
          BY <3>1, <4>1 DEF Moves
        <5> QED BY <5>1, <4>1, <3>7, <1>3, SumGrows
      <4>2. CASE ~(o = "w" /\ e.blocks["w"] = 1)
        <5>1. f.z_compute = e.z_compute
          BY <3>1, <4>2 DEF Moves
        <5> QED BY <5>1, <1>3
      <4> QED BY <4>1, <4>2
    <3>10. f.stored \in Seq(StoredRow)
      <4>1. CASE o = "z"
        <5>1. f.stored = Append(e.stored, PreviousRow(e, e.row["z"]))
          BY <3>1, <4>1 DEF Moves
        <5>2. e.row["z"] \in 0 .. ce_height - 1
          BY <3>2, <4>1, ChosenRow
        <5>3. PreviousRow(e, e.row["z"]) \in StoredRow
          BY <5>2, <1>1, PreviousRowType
        <5> QED BY <5>1, <5>3, <1>3, AppendProperties
      <4>2. CASE o # "z"
        <5>1. f.stored = e.stored
          BY <3>1, <4>2 DEF Moves
        <5> QED BY <5>1, <1>3
      <4> QED BY <4>1, <4>2
    <3> QED BY <3>3, <3>5, <3>6, <3>8, <3>9, <3>10
  <2> QED BY <2>1, <2>2
<1>9. f = [i |-> f.i, j |-> f.j, k |-> f.k, blocks |-> f.blocks, addr |-> f.addr, row |-> f.row,
           z_store |-> f.z_store, x_buffer |-> f.x_buffer,
           y_buffer_preload |-> f.y_buffer_preload, w_buffer |-> f.w_buffer,
           z_compute |-> f.z_compute, z_previos |-> f.z_previos, stored |-> f.stored]
  BY <1>2 DEF IsRecord
<1>10. f \in EngineType
  <2>1. /\ f.i \in Nat /\ f.j \in Nat /\ f.k \in Nat
        /\ f.z_store \in [width : 0 .. TileWidth, height : 0 .. ce_height]
        /\ f.z_previos \in Sum
    BY <1>3, <1>7
  <2> QED BY <2>1, <1>5, <1>6, <1>8, <1>9 DEF EngineType
<1> QED BY <1>0, <1>10

-----------------------------------------------------------------------------
(* An access of an operation that computes, conjunct by conjunct. *)

Stepping(e, f, st, c, o) ==
  /\ Accessing(e, st, c, o)
  /\ compute_able # 0
  /\ f = Access(e)
  /\ Computes(e, st)

Stepped(e, f, st, c, o) ==
  /\ TypeOK /\ e \in EngineType /\ f \in EngineType /\ st \in Phases /\ state = st
  /\ Iteration(e, st) /\ Iteration(f, st) /\ Progress(f, st, c + 1)
  /\ Planned(f, st) = Planned(e, st)
  /\ Moves(e, f, o)
  /\ f.i = e.i /\ f.j = e.j /\ f.k = e.k
  /\ f.z_store = e.z_store /\ f.z_previos = e.z_previos
  /\ \A p \in Operands : /\ Sent(f, st, p) = IF p = o THEN Sent(e, st, p) + 1
                                             ELSE Sent(e, st, p)
                         /\ f.blocks[p] = IF p = o THEN e.blocks[p] - 1 ELSE e.blocks[p]
  /\ f.addr = [e.addr EXCEPT ![o] = IF o = "x" THEN inc_addr(@, shape.n, TileDepth)
                                               ELSE inc_addr(@, shape.k, TileWidth)]
  /\ Ahead(f, st).i = Ahead(e, st).i /\ Ahead(f, st).j = Ahead(e, st).j
  /\ Ahead(f, st).k = Ahead(e, st).k
  /\ Behind(f) = Behind(e)

LEMMA StepFacts ==
  ASSUME NEW e, NEW f, NEW st, NEW c, NEW o, Stepping(e, f, st, c, o)
  PROVE  Stepped(e, f, st, c, o)
<1>1. /\ Accessing(e, st, c, o) /\ compute_able # 0 /\ f = Access(e) /\ Addresses(e, st)
  BY DEF Stepping, Computes
<1>2. /\ TypeOK /\ e \in EngineType /\ st \in Phases /\ state = st
      /\ Iteration(e, st) /\ Progress(e, st, c) /\ c \in Nat /\ c < tcdm_block_total
      /\ o = NextOperand(e)
  BY <1>1 DEF Accessing
<1>3. f \in EngineType
  BY <1>1, AccessType
<1>4. Accessed(e, f, o) /\ Moves(e, f, o)
  BY <1>1, Choice
<1>5. /\ Planned(f, st) = Planned(e, st)
      /\ Iteration(f, st)
      /\ \A p \in Operands : /\ Sent(f, st, p) = IF p = o THEN Sent(e, st, p) + 1
                                                 ELSE Sent(e, st, p)
                             /\ f.blocks[p] = IF p = o THEN e.blocks[p] - 1 ELSE e.blocks[p]
      /\ Progress(f, st, c + 1)
  BY <1>2, <1>3, <1>4, AccessProgress
<1>6. /\ f.i = e.i /\ f.j = e.j /\ f.k = e.k
      /\ f.z_store = e.z_store /\ f.z_previos = e.z_previos
      /\ f.addr = [e.addr EXCEPT ![o] = IF o = "x" THEN inc_addr(@, shape.n, TileDepth)
                                                   ELSE inc_addr(@, shape.k, TileWidth)]
  BY <1>4 DEF Accessed
<1>7. /\ Ahead(f, st).i = Ahead(e, st).i /\ Ahead(f, st).j = Ahead(e, st).j
      /\ Ahead(f, st).k = Ahead(e, st).k
  <2>1. /\ next_iteration(f).i = next_iteration(e).i
        /\ next_iteration(f).j = next_iteration(e).j
        /\ next_iteration(f).k = next_iteration(e).k
    BY <1>2, <1>3, <1>6, SamePlan
  <2> QED BY <2>1, <1>6 DEF Ahead
<1>8. Behind(f) = Behind(e)
  BY <1>6 DEF Behind
<1> QED BY <1>2, <1>3, <1>4, <1>5, <1>6, <1>7, <1>8 DEF Stepped

LEMMA PreviousFacts ==
  ASSUME TypeOK, NEW st \in Phases, NEW e \in EngineType, Iteration(e, st), HasPrevious(e, st)
  PROVE  /\ Behind(e)[1] \in 0 .. z_col_tiles - 1
         /\ Behind(e)[2] \in 0 .. z_row_tiles - 1
         /\ \A ij \in Nat \X (0 .. z_row_tiles - 1) :
              Before(ij, <<e.i, e.j>>) <=> Before(ij, Behind(e)) \/ ij = Behind(e)
         /\ ~Before(Behind(e), Behind(e))
<1>1. /\ z_row_tiles \in Nat \ {0} /\ z_col_tiles \in Nat \ {0}
      /\ e.i \in Nat /\ e.j \in Nat
  BY Sizes, FieldTypes
<1>2. /\ e.i <= z_col_tiles /\ e.j < z_row_tiles
      /\ e.i > 0 \/ e.j > 0
      /\ e.i = z_col_tiles => e.j = 0
  BY <1>1 DEF Iteration, HasPrevious, Phases
<1>3. Behind(e) = IF e.j = 0 THEN <<e.i - 1, z_row_tiles - 1>> ELSE <<e.i, e.j - 1>>
  BY DEF Behind, PreviousTile
<1>4. CASE e.j = 0
  <2>1. Behind(e) = <<e.i - 1, z_row_tiles - 1>>
    BY <1>3, <1>4
  <2> QED BY <2>1, <1>1, <1>2, <1>4 DEF Before
<1>5. CASE e.j # 0
  <2>1. Behind(e) = <<e.i, e.j - 1>>
    BY <1>3, <1>5
  <2> QED BY <2>1, <1>1, <1>2, <1>5 DEF Before
<1> QED BY <1>4, <1>5

\* What is loaded is needed, and what is stored is there.
LEMMA Purpose ==
  ASSUME NEW e, NEW st, NEW c, NEW o, Accessing(e, st, c, o)
  PROVE  /\ o = "z" => HasPrevious(e, st) /\ StoresNow(e, st)
                       /\ Planned(e, st)["z"] = e.z_store.height
         /\ o = "w" => /\ Planned(e, st)["w"] = Cut(shape.n, TileDepth, e.k)
                       /\ Planned(e, st)["w"] \in 1 .. TileDepth
         /\ o \in {"x", "y"} => Ahead(e, st).i \in 0 .. z_col_tiles - 1
         /\ o = "y" => st = "PRELOAD" \/ e.k + 1 = x_row_tiles
<1>1. /\ TypeOK /\ e \in EngineType /\ st \in Phases /\ Iteration(e, st)
  BY DEF Accessing
<1>2. /\ o \in Operands /\ Sent(e, st, o) \in 0 .. Planned(e, st)[o] - 1
      /\ o # "z" => st \in {"PRELOAD", "ROUTINE"}
      /\ o = "w" => st = "ROUTINE"
  BY Choice
<1>3. /\ Planned(e, st) \in [Operands -> Nat]
      /\ st = "PRELOAD" =>
              /\ Planned(e, st)["y"] = Cut(shape.m, ce_height, 0)
              /\ Planned(e, st)["x"] = Cut(shape.m, ce_height, 0)
              /\ Planned(e, st)["w"] = 0 /\ Planned(e, st)["z"] = 0
      /\ st = "STORING" =>
              /\ Planned(e, st)["y"] = 0 /\ Planned(e, st)["x"] = 0
              /\ Planned(e, st)["w"] = 0 /\ Planned(e, st)["z"] = e.z_store.height
      /\ st = "ROUTINE" => InLoop(e)
  BY <1>1, PlannedPhase
<1>4. Planned(e, st)[o] # 0
  <2>1. Planned(e, st)[o] \in Nat
    BY <1>2, <1>3
  <2> QED BY <2>1, <1>2
<1>5. x_row_tiles \in Nat \ {0} /\ z_row_tiles \in Nat \ {0} /\ z_col_tiles \in Nat \ {0}
  BY <1>1, Sizes
<1>6. CASE st = "PRELOAD"
  <2>1. Ahead(e, st).i = 0
    BY <1>1, <1>6 DEF Ahead, Iteration
  <2> QED BY <2>1, <1>2, <1>3, <1>4, <1>5, <1>6 DEF Operands
<1>7. CASE st = "STORING"
  BY <1>2, <1>3, <1>4, <1>7 DEF HasPrevious, StoresNow
<1>8. CASE st = "ROUTINE"
  <2> DEFINE n == next_iteration(e)
  <2>1. InLoop(e) /\ Ahead(e, st) = n /\ e.k \in 0 .. x_row_tiles - 1
        /\ e.i \in Nat /\ e.j \in Nat
    BY <1>1, <1>8, AheadFacts
  <2>2. /\ Planned(e, st)["w"] = Cut(shape.n, TileDepth, e.k)
        /\ Planned(e, st)["x"] = IF n.i = z_col_tiles THEN 0 ELSE Cut(shape.m, ce_height, n.i)
        /\ Planned(e, st)["y"] = IF n.i = z_col_tiles \/ e.k + 1 # x_row_tiles THEN 0
                                 ELSE Cut(shape.m, ce_height, n.i)
        /\ Planned(e, st)["z"] = IF StoresPrevious(e) THEN e.z_store.height ELSE 0
    BY <2>1, <1>1, <1>8, PlannedRoutine
  <2>3. n.i \in 0 .. z_col_tiles
    BY <2>1, <1>1, NextIteration
  <2>4. WRows(e.k) = Cut(shape.n, TileDepth, e.k) /\ WRows(e.k) \in 1 .. TileDepth
    BY <2>1, <1>1, WRowsFacts
  <2>5. StoresPrevious(e) => e.k = 0 /\ (e.i > 0 \/ e.j > 0)
    BY <2>1 DEF StoresPrevious
  <2> HIDE DEF n
  <2>6. CASE o = "z"
    BY <2>6, <2>2, <2>5, <1>4, <1>8 DEF HasPrevious, StoresNow
  <2>7. CASE o = "w"
    BY <2>7, <2>2, <2>4
  <2>8. CASE o \in {"x", "y"}
    BY <2>8, <2>1, <2>2, <2>3, <1>4, <1>5
  <2> QED BY <2>6, <2>7, <2>8, <1>2 DEF Operands
<1> QED BY <1>1, <1>6, <1>7, <1>8 DEF Phases

LEMMA AddressesStep ==
  ASSUME NEW e, NEW f, NEW st, NEW c, NEW o, Stepping(e, f, st, c, o)
  PROVE  Addresses(f, st)
<1>0. Stepped(e, f, st, c, o)
  BY StepFacts
<1>1. Accessing(e, st, c, o) /\ Addresses(e, st)
  BY DEF Stepping, Computes
<1>2. /\ TypeOK /\ e \in EngineType /\ f \in EngineType /\ st \in Phases
      /\ Iteration(e, st) /\ Moves(e, f, o)
      /\ f.i = e.i /\ f.j = e.j /\ f.k = e.k
      /\ \A p \in Operands : /\ Sent(f, st, p) = IF p = o THEN Sent(e, st, p) + 1
                                                 ELSE Sent(e, st, p)
                             /\ f.blocks[p] = IF p = o THEN e.blocks[p] - 1 ELSE e.blocks[p]
      /\ f.addr = [e.addr EXCEPT ![o] = IF o = "x" THEN inc_addr(@, shape.n, TileDepth)
                                                   ELSE inc_addr(@, shape.k, TileWidth)]
      /\ Ahead(f, st).i = Ahead(e, st).i /\ Ahead(f, st).j = Ahead(e, st).j
      /\ Ahead(f, st).k = Ahead(e, st).k
      /\ Behind(f) = Behind(e)
  BY <1>0 DEF Stepped
<1>3. /\ o \in Operands /\ e.blocks[o] \in Nat \ {0}
      /\ Sent(e, st, o) \in 0 .. Planned(e, st)[o] - 1
      /\ e.blocks[o] = Planned(e, st)[o] - Sent(e, st, o)
      /\ o # "z" => st \in {"PRELOAD", "ROUTINE"}
  BY <1>1, Choice
<1>4. /\ e.row[o] = Sent(e, st, o)
      /\ e.addr[o] = RowAddress(e, st, o, Sent(e, st, o))
  BY <1>1, ChosenRow
<1>5. \A p \in Operands, r \in Nat : RowAddress(f, st, p, r) = RowAddress(e, st, p, r)
  BY <1>2 DEF RowAddress, Operands
<1>6. /\ e.row \in [Operands -> Nat] /\ e.addr \in [Operands -> Nat]
      /\ e.blocks \in [Operands -> Nat]
  BY <1>2, FieldTypes
<1>7. f.row = [e.row EXCEPT ![o] = IF e.blocks[o] = 1 THEN 0 ELSE @ + 1]
  BY <1>2 DEF Moves
<1>8. \A p \in Operands : Planned(e, st)[p] \in 0 .. ce_height \/ p = "w"
  BY <1>2, PlannedPhase DEF Operands
<1>9. ASSUME NEW p \in Operands, p # o
      PROVE  /\ f.row[p] = IF f.blocks[p] = 0 THEN 0 ELSE Sent(f, st, p)
             /\ f.blocks[p] > 0 => f.addr[p] = RowAddress(f, st, p, Sent(f, st, p))
  <2>1. /\ f.row[p] = e.row[p] /\ f.addr[p] = e.addr[p]
        /\ f.blocks[p] = e.blocks[p] /\ Sent(f, st, p) = Sent(e, st, p)
    BY <1>2, <1>6, <1>7, <1>9
  <2>2. /\ e.row[p] = IF e.blocks[p] = 0 THEN 0 ELSE Sent(e, st, p)
        /\ e.blocks[p] > 0 => e.addr[p] = RowAddress(e, st, p, Sent(e, st, p))
    BY <1>1 DEF Addresses
  <2>3. RowAddress(f, st, p, Sent(f, st, p)) = RowAddress(e, st, p, Sent(e, st, p))
    BY <2>1, <1>2 DEF RowAddress, Operands
  <2> QED BY <2>1, <2>2, <2>3
<1>10. f.row[o] = IF f.blocks[o] = 0 THEN 0 ELSE Sent(f, st, o)
  <2>1. f.row[o] = IF e.blocks[o] = 1 THEN 0 ELSE Sent(e, st, o) + 1
    BY <1>3, <1>4, <1>6, <1>7
  <2>2. f.blocks[o] = e.blocks[o] - 1 /\ Sent(f, st, o) = Sent(e, st, o) + 1
    BY <1>2, <1>3
  <2> QED BY <2>1, <2>2, <1>3
<1>11. ASSUME f.blocks[o] > 0 PROVE f.addr[o] = RowAddress(f, st, o, Sent(f, st, o))
  <2> DEFINE s == Sent(e, st, o)
  <2>1. s \in Nat /\ s + 1 < Planned(e, st)[o] /\ Sent(f, st, o) = s + 1
    <3>1. f.blocks[o] = e.blocks[o] - 1 /\ Sent(f, st, o) = s + 1
      BY <1>2, <1>3
    <3>2. Planned(e, st)[o] \in Nat
      <4>1. Planned(e, st) \in [Operands -> Nat]
        BY <1>2, PlannedPhase
      <4> QED BY <4>1, <1>3
    <3> QED BY <3>1, <3>2, <1>3, <1>11
  <2>2. f.addr[o] = IF o = "x" THEN inc_addr(RowAddress(e, st, o, s), shape.n, TileDepth)
                               ELSE inc_addr(RowAddress(e, st, o, s), shape.k, TileWidth)
    BY <1>2, <1>3, <1>4, <1>6
  <2> HIDE DEF s
  <2>3. /\ W \in Nat /\ X \in Nat /\ Y \in Nat
        /\ shape.n \in Nat \ {0} /\ shape.k \in Nat \ {0}
        /\ ce_height \in Nat \ {0} /\ TileDepth \in Nat \ {0} /\ TileWidth \in Nat \ {0}
    <3>1. bandwidth \in Nat /\ TileDepth \in 1 .. bandwidth
      BY <1>2, Sizes
    <3> QED BY <3>1, <1>2, Sizes
  <2>8. TypeOK /\ s \in Nat
    BY <2>1, <1>2
  <2>4. CASE o = "w"
    <3>1. e.k \in Nat /\ e.j \in Nat
      BY <1>2, FieldTypes
    <3>2. s + 1 < TileDepth
      <4>1. Planned(e, st)["w"] \in 1 .. TileDepth
        BY <1>1, <2>4, Purpose
      <4> QED BY <4>1, <2>1, <2>3, <2>4
    <3>3. inc_addr(Location(W, shape.k, TileDepth, TileWidth, e.k * TileDepth + s, e.j),
                   shape.k, TileWidth)
            = Location(W, shape.k, TileDepth, TileWidth, e.k * TileDepth + (s + 1), e.j)
      <4> DEFINE p == e.k * TileDepth + s
                 q == e.k * TileDepth + (s + 1)
      <4>1. p = e.k * TileDepth + s /\ q = e.k * TileDepth + (s + 1)
        OBVIOUS
      <4> HIDE DEF p, q
      <4>2. Successive(W, shape.k, TileDepth, TileWidth, e.k, e.j, s, p, q)
        BY <3>1, <3>2, <2>3, <2>8, <4>1 DEF Successive
      <4>3. inc_addr(Location(W, shape.k, TileDepth, TileWidth, p, e.j), shape.k, TileWidth)
              = Location(W, shape.k, TileDepth, TileWidth, q, e.j)
        BY <4>2, <2>8, NextRow
      <4> QED BY <4>1, <4>3
    <3> QED BY <3>3, <2>1, <2>2, <2>4, <1>2 DEF RowAddress
  <2>5. o # "w" => s + 1 < ce_height
    <3>1. o # "w" => Planned(e, st)[o] \in 0 .. ce_height
      BY <1>3, <1>8
    <3> QED BY <3>1, <2>1, <2>3
  <2>6. CASE o \in {"x", "y"}
    <3>1. Ahead(e, st).i \in Nat /\ Ahead(e, st).j \in Nat /\ Ahead(e, st).k \in Nat
      <4>1. /\ Ahead(e, st).i \in 0 .. z_col_tiles /\ Ahead(e, st).j \in 0 .. z_row_tiles - 1
            /\ Ahead(e, st).k \in 0 .. x_row_tiles - 1
        BY <1>2, <1>3, <2>6, AheadFacts
      <4> QED BY <4>1
    <3> DEFINE a == Ahead(e, st)
    <3>2. a.i \in Nat /\ a.j \in Nat /\ a.k \in Nat
      BY <3>1
    <3>3. Ahead(f, st).i = a.i /\ Ahead(f, st).j = a.j /\ Ahead(f, st).k = a.k
      BY <1>2
    <3>4. /\ RowAddress(e, st, "x", s) = Location(X, shape.n, ce_height, TileDepth, a.i * ce_height + s, a.k)
          /\ RowAddress(e, st, "y", s) = Location(Y, shape.k, ce_height, TileWidth, a.i * ce_height + s, a.j)
          /\ RowAddress(f, st, "x", s + 1)
               = Location(X, shape.n, ce_height, TileDepth, a.i * ce_height + (s + 1), a.k)
          /\ RowAddress(f, st, "y", s + 1)
               = Location(Y, shape.k, ce_height, TileWidth, a.i * ce_height + (s + 1), a.j)
      BY <3>3 DEF RowAddress
    <3> HIDE DEF a
    <3>5. CASE o = "x"
      <4>1. inc_addr(Location(X, shape.n, ce_height, TileDepth, a.i * ce_height + s, a.k),
                     shape.n, TileDepth)
              = Location(X, shape.n, ce_height, TileDepth, a.i * ce_height + (s + 1), a.k)
        <5> DEFINE p == a.i * ce_height + s
                   q == a.i * ce_height + (s + 1)
        <5>1. p = a.i * ce_height + s /\ q = a.i * ce_height + (s + 1)
          OBVIOUS
        <5> HIDE DEF p, q
        <5>2. Successive(X, shape.n, ce_height, TileDepth, a.i, a.k, s, p, q)
          BY <3>2, <3>5, <2>3, <2>5, <2>8, <5>1 DEF Successive
        <5>3. inc_addr(Location(X, shape.n, ce_height, TileDepth, p, a.k), shape.n, TileDepth)
                = Location(X, shape.n, ce_height, TileDepth, q, a.k)
          BY <5>2, <2>8, NextRow
        <5> QED BY <5>1, <5>3
      <4> QED BY <4>1, <3>4, <3>5, <2>1, <2>2
    <3>6. CASE o = "y"
      <4>1. inc_addr(Location(Y, shape.k, ce_height, TileWidth, a.i * ce_height + s, a.j),
                     shape.k, TileWidth)
              = Location(Y, shape.k, ce_height, TileWidth, a.i * ce_height + (s + 1), a.j)
        <5> DEFINE p == a.i * ce_height + s
                   q == a.i * ce_height + (s + 1)
        <5>1. p = a.i * ce_height + s /\ q = a.i * ce_height + (s + 1)
          OBVIOUS
        <5> HIDE DEF p, q
        <5>2. Successive(Y, shape.k, ce_height, TileWidth, a.i, a.j, s, p, q)
          BY <3>2, <3>6, <2>3, <2>5, <2>8, <5>1 DEF Successive
        <5>3. inc_addr(Location(Y, shape.k, ce_height, TileWidth, p, a.j), shape.k, TileWidth)
                = Location(Y, shape.k, ce_height, TileWidth, q, a.j)
          BY <5>2, <2>8, NextRow
        <5> QED BY <5>1, <5>3
      <4> QED BY <4>1, <3>4, <3>6, <2>1, <2>2
    <3> QED BY <3>5, <3>6, <2>6
  <2>7. CASE o = "z"
    <3>1. HasPrevious(e, st)
      BY <1>1, <2>7, Purpose
    <3> DEFINE b == Behind(e)
    <3>2. b[1] \in Nat /\ b[2] \in Nat
      <4>1. b[1] \in 0 .. z_col_tiles - 1 /\ b[2] \in 0 .. z_row_tiles - 1
        BY <3>1, <1>2, PreviousFacts
      <4> QED BY <4>1
    <3>3. /\ RowAddress(e, st, "z", s) = Location(Y, shape.k, ce_height, TileWidth, b[1] * ce_height + s, b[2])
          /\ RowAddress(f, st, "z", s + 1)
               = Location(Y, shape.k, ce_height, TileWidth, b[1] * ce_height + (s + 1), b[2])
      BY <1>2 DEF RowAddress
    <3> HIDE DEF b
    <3>4. inc_addr(Location(Y, shape.k, ce_height, TileWidth, b[1] * ce_height + s, b[2]),
                   shape.k, TileWidth)
            = Location(Y, shape.k, ce_height, TileWidth, b[1] * ce_height + (s + 1), b[2])
      <4> DEFINE p == b[1] * ce_height + s
                 q == b[1] * ce_height + (s + 1)
      <4>1. p = b[1] * ce_height + s /\ q = b[1] * ce_height + (s + 1)
        OBVIOUS
      <4> HIDE DEF p, q
      <4>2. Successive(Y, shape.k, ce_height, TileWidth, b[1], b[2], s, p, q)
        BY <3>2, <2>3, <2>5, <2>7, <2>8, <4>1 DEF Successive
      <4>3. inc_addr(Location(Y, shape.k, ce_height, TileWidth, p, b[2]), shape.k, TileWidth)
              = Location(Y, shape.k, ce_height, TileWidth, q, b[2])
        BY <4>2, <2>8, NextRow
      <4> QED BY <4>1, <4>3
    <3> QED BY <3>3, <3>4, <2>1, <2>2, <2>7
  <2> QED BY <2>4, <2>6, <2>7, <1>3 DEF Operands
<1> QED BY <1>9, <1>10, <1>11 DEF Addresses

LEMMA PreviousStep ==
  ASSUME NEW e, NEW f, NEW st, NEW c, NEW o, Stepping(e, f, st, c, o)
  PROVE  Previous(f, st)
<1>1. Stepped(e, f, st, c, o) /\ Previous(e, st)
  BY StepFacts DEF Stepping, Computes
<1>2. /\ f.i = e.i /\ f.j = e.j /\ f.z_store = e.z_store /\ f.z_previos = e.z_previos
      /\ Behind(f) = Behind(e)
  BY <1>1 DEF Stepped
<1> QED BY <1>1, <1>2 DEF Previous, HasPrevious

LEMMA TileOrder ==
  ASSUME NEW i, NEW j, NEW k, NEW l
  PROVE  Before(<<i, j>>, <<k, l>>) <=> i < k \/ (i = k /\ j < l)
  BY DEF Before

LEMMA AheadIsNotBefore ==
  ASSUME TypeOK, NEW st \in {"PRELOAD", "ROUTINE"}, NEW e \in EngineType, Iteration(e, st)
  PROVE  /\ Ahead(e, st).i \in Nat /\ Ahead(e, st).j \in 0 .. z_row_tiles - 1
         /\ ~Before(<<Ahead(e, st).i, Ahead(e, st).j>>, <<e.i, e.j>>)
<1> DEFINE a == Ahead(e, st)
<1>1. /\ x_row_tiles \in Nat \ {0} /\ z_row_tiles \in Nat \ {0} /\ z_col_tiles \in Nat \ {0}
      /\ e.i \in Nat /\ e.j \in Nat /\ e.k \in Nat
  BY Sizes, FieldTypes
<1>2. /\ a.i \in 0 .. z_col_tiles /\ a.j \in 0 .. z_row_tiles - 1
      /\ e.j \in 0 .. z_row_tiles - 1 /\ e.k \in 0 .. x_row_tiles - 1
      /\ st = "PRELOAD" => a = e
      /\ st = "ROUTINE" => InLoop(e) /\ a = next_iteration(e)
  BY AheadFacts
<1> HIDE DEF a
<1>3. ~(a.i < e.i \/ (a.i = e.i /\ a.j < e.j))
  <2>1. CASE st = "PRELOAD"
    BY <2>1, <1>1, <1>2
  <2>2. CASE st = "ROUTINE"
    <3>1. /\ e.k + 1 < x_row_tiles => a.i = e.i /\ a.j = e.j
          /\ e.k + 1 = x_row_tiles /\ e.j + 1 < z_row_tiles => a.i = e.i /\ a.j = e.j + 1
          /\ e.k + 1 = x_row_tiles /\ e.j + 1 = z_row_tiles => a.i = e.i + 1 /\ a.j = 0
      BY <2>2, <1>2, NextIteration
    <3> QED BY <3>1, <1>1, <1>2
  <2> QED BY <2>1, <2>2
<1>4. ~Before(<<a.i, a.j>>, <<e.i, e.j>>)
  BY <1>3, TileOrder
<1> QED BY <1>1, <1>2, <1>4 DEF a

\* Where what is stored came from: tiles before this one, each its own place.
LEMMA StoredTiles ==
  ASSUME TypeOK, NEW st \in Phases, NEW e \in EngineType, Iteration(e, st), Stored(e, st),
         NEW s \in DOMAIN e.stored
  PROVE  \E rj \in Done(e, st) :
           /\ rj[1] \in 0 .. shape.m - 1 /\ rj[2] \in 0 .. z_row_tiles - 1
           /\ e.stored[s].at = Location(Y, shape.k, ce_height, TileWidth, rj[1], rj[2])
<1>1. PICK rj \in Done(e, st) : IsResult(e.stored[s], rj[1], rj[2])
  BY DEF Stored
<1>2. rj[1] \in 0 .. shape.m - 1 /\ rj[2] \in 0 .. z_row_tiles - 1
  BY DEF Done
<1>3. e.stored[s].at = Location(Y, shape.k, ce_height, TileWidth, rj[1], rj[2])
  BY <1>1 DEF IsResult, IsYRow
<1> QED BY <1>2, <1>3

LEMMA ResultInjective ==
  ASSUME TypeOK, NEW r \in Nat, NEW s \in Nat,
         NEW j \in 0 .. z_row_tiles - 1, NEW l \in 0 .. z_row_tiles - 1,
         Location(Y, shape.k, ce_height, TileWidth, r, j)
           = Location(Y, shape.k, ce_height, TileWidth, s, l)
  PROVE  r = s /\ j = l
<1>1. /\ ce_height \in Nat \ {0} /\ TileWidth \in Nat \ {0} /\ shape.k \in Nat \ {0} /\ Y \in Nat
  BY Sizes
<1>2. j \in 0 .. Tiles(shape.k, TileWidth) - 1 /\ l \in 0 .. Tiles(shape.k, TileWidth) - 1
  BY DEF z_row_tiles
<1>3. Coincide(Y, shape.k, ce_height, TileWidth, r, j, s, l)
  BY <1>1, <1>2 DEF Coincide
<1> QED BY <1>3, LocationInjective

\* A row of a tile that is not before this one is not stored yet.
LEMMA FreshRow ==
  ASSUME TypeOK, NEW st \in Phases, NEW e \in EngineType, Iteration(e, st), Stored(e, st),
         NEW i \in Nat, NEW j \in 0 .. z_row_tiles - 1, ~Before(<<i, j>>, <<e.i, e.j>>),
         NEW r \in 0 .. ce_height - 1
  PROVE  Location(Y, shape.k, ce_height, TileWidth, i * ce_height + r, j) \notin StoredAt(e)
<1>1. SUFFICES ASSUME NEW s \in DOMAIN e.stored,
                      e.stored[s].at
                        = Location(Y, shape.k, ce_height, TileWidth, i * ce_height + r, j)
               PROVE  FALSE
  BY DEF StoredAt
<1>2. PICK rj \in Done(e, st) :
        /\ rj[1] \in 0 .. shape.m - 1 /\ rj[2] \in 0 .. z_row_tiles - 1
        /\ e.stored[s].at = Location(Y, shape.k, ce_height, TileWidth, rj[1], rj[2])
  BY StoredTiles
<1>3. /\ ce_height \in Nat \ {0} /\ TileWidth \in Nat \ {0} /\ shape.k \in Nat \ {0} /\ Y \in Nat
      /\ shape.m \in Nat
  BY Sizes
<1> DEFINE p == i * ce_height + r
<1>4. p \in Nat /\ p \div ce_height = i
  <2>1. i * ce_height \in Nat
    BY <1>3
  <2>2. r \in Nat
    BY <1>3
  <2>3. p \div ce_height = i
    BY <1>3, DivMod
  <2> QED BY <2>1, <2>2, <2>3
<1> HIDE DEF p
<1>5. rj[1] = p /\ rj[2] = j
  <2>1. rj[1] \in Nat /\ rj[2] \in 0 .. z_row_tiles - 1
    BY <1>2, <1>3
  <2>2. Location(Y, shape.k, ce_height, TileWidth, rj[1], rj[2])
          = Location(Y, shape.k, ce_height, TileWidth, p, j)
    BY <1>1, <1>2 DEF p
  <2> QED BY <2>1, <2>2, <1>4, ResultInjective
<1>6. Before(TileOf(rj), <<e.i, e.j>>)
  BY <1>2 DEF Done
<1>7. TileOf(rj) = <<i, j>>
  BY <1>4, <1>5 DEF TileOf
<1> QED BY <1>6, <1>7

LEMMA YBufferStep ==
  ASSUME NEW e, NEW f, NEW st, NEW c, NEW o, Stepping(e, f, st, c, o)
  PROVE  YBuffer(f, st)
<1>0. Stepped(e, f, st, c, o)
  BY StepFacts
<1>1. Accessing(e, st, c, o) /\ Addresses(e, st) /\ YBuffer(e, st) /\ Stored(e, st)
  BY DEF Stepping, Computes
<1>2. /\ TypeOK /\ e \in EngineType /\ f \in EngineType /\ st \in Phases /\ state = st
      /\ Iteration(e, st) /\ Moves(e, f, o)
      /\ \A p \in Operands : Sent(f, st, p) = IF p = o THEN Sent(e, st, p) + 1 ELSE Sent(e, st, p)
      /\ Ahead(f, st).i = Ahead(e, st).i /\ Ahead(f, st).j = Ahead(e, st).j
      /\ f.i = e.i /\ f.j = e.j /\ f.k = e.k
  BY <1>0 DEF Stepped
<1>3. /\ o \in Operands /\ Sent(e, st, o) \in Nat
      /\ o # "z" => st \in {"PRELOAD", "ROUTINE"}
  BY <1>1, Choice
<1>4. CASE o # "y"
  <2>1. f.y_buffer_preload = e.y_buffer_preload /\ Sent(f, st, "y") = Sent(e, st, "y")
    BY <1>2, <1>4 DEF Moves, Operands
  <2> QED BY <2>1, <1>1, <1>2 DEF YBuffer
<1>5. CASE o = "y"
  <2> DEFINE a == Ahead(e, st)
             row == e.row["y"]
  <2>1. /\ row = Sent(e, st, "y") /\ row \in 0 .. ce_height - 1
        /\ e.addr["y"] = Location(Y, shape.k, ce_height, TileWidth, a.i * ce_height + row, a.j)
    BY <1>1, <1>5, ChosenRow DEF RowAddress
  <2>2. f.y_buffer_preload = [e.y_buffer_preload EXCEPT ![row] = Loaded(e, @, e.addr["y"], YCut(e))]
    BY <1>2, <1>5 DEF Moves
  <2>3. e.y_buffer_preload \in [0 .. ce_height - 1 -> Row] /\ e.addr["y"] \in Nat
    BY <1>2, FieldTypes DEF Rows, Operands
  <2>4. /\ YCut(e) = Cut(shape.k, TileWidth, a.j) /\ YCut(e) \in 0 .. bandwidth + TileWidth
    <3>1. st = "PRELOAD" \/ e.k + 1 = x_row_tiles
      BY <1>1, <1>5, Purpose
    <3>2. YCut(e) = Cut(shape.k, TileWidth, a.j) /\ YCut(e) \in 1 .. TileWidth
      BY <3>1, <1>2, <1>3, <1>5, Cuts
    <3>3. bandwidth \in Nat /\ TileWidth \in Nat
      BY <1>2, Sizes
    <3> QED BY <3>2, <3>3
  <2>5. e.addr["y"] \notin StoredAt(e)
    <3>1. a.i \in Nat /\ a.j \in 0 .. z_row_tiles - 1 /\ ~Before(<<a.i, a.j>>, <<e.i, e.j>>)
      BY <1>2, <1>3, <1>5, AheadIsNotBefore
    <3> QED BY <3>1, <2>1, <1>1, <1>2, FreshRow
  <2> DEFINE new == f.y_buffer_preload
             old == e.y_buffer_preload
  <2>8. /\ new[row].at = e.addr["y"] /\ new[row].width = YCut(e) /\ new[row].fresh
        /\ \A r \in 0 .. ce_height - 1 : r # row => new[r] = old[r]
    <3>1. IsLoad(e, new, old, ce_height, row, e.addr["y"], YCut(e))
      BY <2>1, <2>2, <2>3, <2>4, <1>2 DEF IsLoad, Rows
    <3> HIDE DEF new, old, row
    <3> QED BY <3>1, <2>5, LoadFacts
  <2>9. row < ce_height /\ row \in Nat /\ \A r \in 0 .. row - 1 : IsYRow(old[r], a.i * ce_height + r, a.j)
    <3>1. \A r \in 0 .. ce_height - 1 : r < row => IsYRow(old[r], a.i * ce_height + r, a.j)
      BY <2>1, <1>1 DEF YBuffer
    <3>2. ce_height \in Nat
      BY <1>2, Sizes
    <3> HIDE DEF a, row, old
    <3> QED BY <3>1, <3>2, <2>1
  <2> HIDE DEF a, row, new, old
  <2>6. ASSUME NEW r \in 0 .. ce_height - 1, r < Sent(f, st, "y")
        PROVE  IsYRow(new[r], a.i * ce_height + r, a.j)
    <3>1. Sent(f, st, "y") = row + 1
      BY <2>1, <1>2, <1>3, <1>5
    <3>2. CASE r = row
      BY <3>2, <2>1, <2>4, <2>8 DEF IsYRow
    <3>3. CASE r # row
      <4>1. r \in 0 .. row - 1
        BY <3>1, <3>3, <2>6, <2>9
      <4> QED BY <4>1, <3>3, <2>8, <2>9
    <3> QED BY <3>2, <3>3
  <2>7. Ahead(f, st).i = a.i /\ Ahead(f, st).j = a.j
    BY <1>2 DEF a
  <2> QED BY <2>6, <2>7 DEF YBuffer, new
<1> QED BY <1>4, <1>5

\* Which buffer rows the next access of X or W brings.
LEMMA XLoad ==
  ASSUME NEW e, NEW f, NEW st, NEW c, Stepping(e, f, st, c, "x")
  PROVE  /\ e.row["x"] = Sent(e, st, "x") /\ e.row["x"] \in 0 .. ce_height - 1
         /\ f.w_buffer = e.w_buffer
         /\ f.x_buffer[e.row["x"]].at
              = Location(X, shape.n, ce_height, TileDepth,
                         Ahead(e, st).i * ce_height + e.row["x"], Ahead(e, st).k)
         /\ f.x_buffer[e.row["x"]].width = Cut(shape.n, TileDepth, Ahead(e, st).k)
         /\ e.x_buffer[e.row["x"]].width = 0 =>
              f.x_buffer[e.row["x"]].under = e.x_buffer[e.row["x"]].under
         /\ \A r \in 0 .. ce_height - 1 : r # e.row["x"] => f.x_buffer[r] = e.x_buffer[r]
<1> DEFINE row == e.row["x"]
           new == f.x_buffer
           old == e.x_buffer
<1>0. Stepped(e, f, st, c, "x")
  BY StepFacts
<1>1. Accessing(e, st, c, "x") /\ Addresses(e, st)
  BY DEF Stepping, Computes
<1>2. /\ TypeOK /\ e \in EngineType /\ st \in Phases /\ state = st
      /\ Iteration(e, st) /\ Moves(e, f, "x")
  BY <1>0 DEF Stepped
<1>3. st \in {"PRELOAD", "ROUTINE"}
  BY <1>1, Choice
<1>4. /\ row = Sent(e, st, "x") /\ row \in 0 .. ce_height - 1
      /\ e.addr["x"] = Location(X, shape.n, ce_height, TileDepth,
                                Ahead(e, st).i * ce_height + row, Ahead(e, st).k)
  BY <1>1, ChosenRow DEF RowAddress
<1>5. /\ new = [old EXCEPT ![row] = Loaded(e, @, e.addr["x"], XCut(e))]
      /\ f.w_buffer = e.w_buffer
  BY <1>2 DEF Moves
<1>6. old \in Rows(ce_height) /\ e.addr["x"] \in Nat
  BY <1>2, FieldTypes DEF Operands
<1>7. XCut(e) = Cut(shape.n, TileDepth, Ahead(e, st).k) /\ XCut(e) \in 0 .. bandwidth + TileWidth
  <2>1. XCut(e) = Cut(shape.n, TileDepth, Ahead(e, st).k) /\ XCut(e) \in 1 .. bandwidth
    BY <1>2, <1>3, Cuts
  <2>2. bandwidth \in Nat /\ TileWidth \in Nat
    BY <1>2, Sizes
  <2> QED BY <2>1, <2>2
<1>8. IsLoad(e, new, old, ce_height, row, e.addr["x"], XCut(e))
  BY <1>2, <1>4, <1>5, <1>6, <1>7 DEF IsLoad
<1>9. /\ new[row].at = e.addr["x"] /\ new[row].width = XCut(e)
      /\ old[row].width = 0 => new[row].under = old[row].under
      /\ \A r \in 0 .. ce_height - 1 : r # row => new[r] = old[r]
  <2> HIDE DEF new, old, row
  <2> QED BY <1>8, LoadFacts
<1> QED BY <1>4, <1>5, <1>7, <1>9

LEMMA WLoadFacts ==
  ASSUME NEW e, NEW f, NEW st, NEW c, Stepping(e, f, st, c, "w")
  PROVE  /\ st = "ROUTINE"
         /\ e.row["w"] = Sent(e, st, "w") /\ e.row["w"] \in 0 .. bandwidth - 1
         /\ IsWRow(WLoad(e)[e.row["w"]], e.row["w"], e.j, e.k)
         /\ \A d \in 0 .. bandwidth - 1 : d # e.row["w"] => WLoad(e)[d] = e.w_buffer[d]
<1> DEFINE row == e.row["w"]
           new == WLoad(e)
           old == e.w_buffer
<1>0. Stepped(e, f, st, c, "w")
  BY StepFacts
<1>1. Accessing(e, st, c, "w") /\ Addresses(e, st)
  BY DEF Stepping, Computes
<1>2. /\ TypeOK /\ e \in EngineType /\ st \in Phases /\ state = st /\ Iteration(e, st)
  BY <1>0 DEF Stepped
<1>3. st = "ROUTINE"
  BY <1>1, Choice
<1>4. /\ row = Sent(e, st, "w") /\ row \in 0 .. bandwidth - 1
      /\ e.addr["w"] = Location(W, shape.k, TileDepth, TileWidth, e.k * TileDepth + row, e.j)
  BY <1>1, ChosenRow DEF RowAddress
<1>5. new = [old EXCEPT ![row] = Loaded(e, @, e.addr["w"], WCut(e))]
  BY DEF WLoad
<1>6. old \in Rows(bandwidth) /\ e.addr["w"] \in Nat
  BY <1>2, FieldTypes DEF Operands
<1>7. WCut(e) = Cut(shape.k, TileWidth, e.j) /\ WCut(e) \in 0 .. bandwidth + TileWidth
  <2>1. WCut(e) = Cut(shape.k, TileWidth, e.j) /\ WCut(e) \in 1 .. TileWidth
    BY <1>2, <1>3, Cuts
  <2>2. bandwidth \in Nat /\ TileWidth \in Nat
    BY <1>2, Sizes
  <2> QED BY <2>1, <2>2
<1>8. IsLoad(e, new, old, bandwidth, row, e.addr["w"], WCut(e))
  BY <1>2, <1>4, <1>5, <1>6, <1>7 DEF IsLoad
<1>9. /\ new[row].at = e.addr["w"] /\ new[row].width = WCut(e)
      /\ \A d \in 0 .. bandwidth - 1 : d # row => new[d] = old[d]
  <2> HIDE DEF new, old, row
  <2> QED BY <1>8, LoadFacts
<1> QED BY <1>3, <1>4, <1>7, <1>9 DEF IsWRow

LEMMA OperandStep ==
  ASSUME NEW e, NEW f, NEW st, NEW c, NEW o, Stepping(e, f, st, c, o)
  PROVE  Operand(f, st)
<1>0. Stepped(e, f, st, c, o)
  BY StepFacts
<1>1. Accessing(e, st, c, o) /\ Operand(e, st)
  BY DEF Stepping, Computes
<1>2. /\ TypeOK /\ e \in EngineType /\ f \in EngineType /\ st \in Phases /\ state = st
      /\ Iteration(e, st) /\ Moves(e, f, o)
      /\ \A p \in Operands : /\ Sent(f, st, p) = IF p = o THEN Sent(e, st, p) + 1
                                                 ELSE Sent(e, st, p)
                             /\ f.blocks[p] = IF p = o THEN e.blocks[p] - 1 ELSE e.blocks[p]
      /\ Ahead(f, st).i = Ahead(e, st).i /\ Ahead(f, st).k = Ahead(e, st).k
      /\ f.i = e.i /\ f.j = e.j /\ f.k = e.k
  BY <1>0 DEF Stepped
<1>3. /\ o \in Operands /\ Sent(e, st, o) \in Nat /\ e.blocks[o] \in Nat \ {0}
      /\ "x" \in Operands /\ "w" \in Operands
  BY <1>1, Choice DEF Operands
<1>4. /\ Sent(f, st, "x") = IF o = "x" THEN Sent(e, st, "x") + 1 ELSE Sent(e, st, "x")
      /\ Sent(f, st, "w") = IF o = "w" THEN Sent(e, st, "w") + 1 ELSE Sent(e, st, "w")
      /\ f.blocks["w"] = IF o = "w" THEN e.blocks["w"] - 1 ELSE e.blocks["w"]
  BY <1>2, <1>3
<1>5. PICK contents \in {"zero", "garbage"} :
        /\ contents = "garbage" => Uncleared(e, st)
        /\ XBuffer(e, st, contents)
        /\ WBuffer(e, st, contents)
  BY <1>1 DEF Operand
<1>6. CASE o # "x" /\ o # "w"
  <2>1. f.x_buffer = e.x_buffer /\ f.w_buffer = e.w_buffer
    BY <1>2, <1>6 DEF Moves
  <2>2. /\ (Multiplied(f, st) <=> Multiplied(e, st)) /\ (Uncleared(f, st) <=> Uncleared(e, st))
        /\ XLoaded(f, st) = XLoaded(e, st) /\ WLoaded(f, st) = WLoaded(e, st)
        /\ XTile(f, st).i = XTile(e, st).i /\ XTile(f, st).k = XTile(e, st).k
    BY <1>2, <1>4, <1>6 DEF Multiplied, Uncleared, XLoaded, WLoaded, XTile
  <2>3. XBuffer(f, st, contents)
    BY <2>1, <2>2, <1>5 DEF XBuffer
  <2>4. WBuffer(f, st, contents)
    BY <2>1, <2>2, <1>2, <1>5 DEF WBuffer
  <2> QED BY <2>2, <2>3, <2>4, <1>5 DEF Operand
<1>7. CASE o = "x"
  <2> DEFINE row == e.row["x"]
             a == Ahead(e, st)
  <2>1. /\ row = Sent(e, st, "x") /\ row \in 0 .. ce_height - 1
        /\ f.w_buffer = e.w_buffer
        /\ f.x_buffer[row].at = Location(X, shape.n, ce_height, TileDepth, a.i * ce_height + row, a.k)
        /\ f.x_buffer[row].width = Cut(shape.n, TileDepth, a.k)
        /\ e.x_buffer[row].width = 0 => f.x_buffer[row].under = e.x_buffer[row].under
        /\ \A r \in 0 .. ce_height - 1 : r # row => f.x_buffer[r] = e.x_buffer[r]
    BY <1>7, XLoad
  <2>2. e.blocks["w"] = 0
    BY <1>1, <1>7, AccessChoice DEF Accessing
  <2>3. Multiplied(e, st) /\ Multiplied(f, st) /\ (Uncleared(f, st) <=> Uncleared(e, st))
    BY <2>2, <1>2, <1>4, <1>7 DEF Multiplied, Uncleared
  <2>4. /\ XLoaded(e, st) = row /\ XLoaded(f, st) = row + 1
        /\ WLoaded(e, st) = 0 /\ WLoaded(f, st) = 0
        /\ XTile(e, st).i = a.i /\ XTile(e, st).k = a.k
        /\ XTile(f, st).i = a.i /\ XTile(f, st).k = a.k
    BY <2>1, <2>3, <1>2, <1>4, <1>7 DEF XLoaded, WLoaded, XTile
  <2> HIDE DEF row, a
  <2>5. WBuffer(f, st, contents)
    BY <2>1, <2>4, <1>2, <1>5 DEF WBuffer
  <2>6. XBuffer(f, st, contents)
    <3>1. ASSUME NEW r \in 0 .. ce_height - 1
          PROVE  IF r < row + 1
                 THEN /\ IsXRow(f.x_buffer[r], a.i * ce_height + r, a.k)
                      /\ f.x_buffer[r].under = contents
                 ELSE f.x_buffer[r] = NoRow(contents)
      <4>1. IF r < row
            THEN /\ IsXRow(e.x_buffer[r], a.i * ce_height + r, a.k)
                 /\ e.x_buffer[r].under = contents
            ELSE e.x_buffer[r] = NoRow(contents)
        BY <2>4, <1>5 DEF XBuffer
      <4>2. CASE r = row
        <5>1. e.x_buffer[r].width = 0 /\ e.x_buffer[r].under = contents
          BY <4>1, <4>2, <2>1 DEF NoRow
        <5> QED BY <5>1, <4>2, <2>1 DEF IsXRow
      <4>3. CASE r # row
        <5>1. f.x_buffer[r] = e.x_buffer[r]
          BY <4>3, <2>1
        <5>2. r < row + 1 <=> r < row
          BY <4>3, <2>1
        <5> QED BY <5>1, <5>2, <4>1
      <4> QED BY <4>2, <4>3
    <3> QED BY <3>1, <2>4 DEF XBuffer
  <2> QED BY <2>3, <2>5, <2>6, <1>5 DEF Operand
<1>8. CASE o = "w"
  <2> DEFINE row == e.row["w"]
  <2>0. /\ st = "ROUTINE" /\ row = Sent(e, st, "w") /\ row \in 0 .. bandwidth - 1
        /\ IsWRow(WLoad(e)[row], row, e.j, e.k)
        /\ \A d \in 0 .. bandwidth - 1 : d # row => WLoad(e)[d] = e.w_buffer[d]
    BY <1>8, WLoadFacts
  <2>1. Sent(e, st, "x") = 0
    BY <1>1, <1>8, AccessChoice DEF Accessing
  <2>2. CASE e.blocks["w"] = 1
    <3>1. f.x_buffer = Buffer(ce_height, Zero) /\ f.w_buffer = Buffer(bandwidth, Zero)
      BY <2>2, <1>2, <1>8 DEF Moves
    <3>2. /\ \A r \in 0 .. ce_height - 1 : f.x_buffer[r] = NoRow("zero")
          /\ \A d \in 0 .. bandwidth - 1 : f.w_buffer[d] = NoRow("zero")
      BY <3>1 DEF Buffer, Zero
    <3>3. f.blocks["w"] = 0
      BY <2>2, <1>4, <1>8
    <3>4. Multiplied(f, st) /\ XLoaded(f, st) = 0 /\ WLoaded(f, st) = 0
      BY <3>3, <2>1, <1>4, <1>8 DEF Multiplied, XLoaded, WLoaded
    <3>5. XBuffer(f, st, "zero") /\ WBuffer(f, st, "zero")
      BY <3>2, <3>4 DEF XBuffer, WBuffer
    <3> QED BY <3>5 DEF Operand
  <2>3. CASE e.blocks["w"] # 1
    <3>1. f.x_buffer = e.x_buffer /\ f.w_buffer = WLoad(e)
      BY <2>3, <1>2, <1>8 DEF Moves
    <3>2. e.blocks["w"] > 0 /\ f.blocks["w"] > 0
      BY <2>3, <1>3, <1>4, <1>8
    <3>3. ~Multiplied(e, st) /\ ~Multiplied(f, st)
      BY <3>2, <2>0, <1>3, <1>8 DEF Multiplied
    <3>4. /\ XLoaded(f, st) = XLoaded(e, st) /\ WLoaded(e, st) = row /\ WLoaded(f, st) = row + 1
          /\ XTile(f, st).i = XTile(e, st).i /\ XTile(f, st).k = XTile(e, st).k
          /\ Uncleared(f, st) <=> Uncleared(e, st)
      BY <3>2, <3>3, <2>0, <1>2, <1>4, <1>8 DEF XLoaded, WLoaded, XTile, Uncleared
    <3>5. XBuffer(f, st, contents)
      BY <3>1, <3>4, <1>5 DEF XBuffer
    <3>6. WBuffer(f, st, contents)
      <4> HIDE DEF row
      <4>1. ASSUME NEW d \in 0 .. bandwidth - 1
            PROVE  IF d < row + 1 THEN IsWRow(WLoad(e)[d], d, e.j, e.k)
                                  ELSE WLoad(e)[d] = NoRow(contents)
        <5>1. IF d < row THEN IsWRow(e.w_buffer[d], d, e.j, e.k)
                         ELSE e.w_buffer[d] = NoRow(contents)
          BY <3>4, <1>5 DEF WBuffer
        <5>2. CASE d = row
          BY <5>2, <2>0
        <5>3. CASE d # row
          <6>1. WLoad(e)[d] = e.w_buffer[d]
            BY <5>3, <2>0
          <6>2. d < row + 1 <=> d < row
            BY <5>3, <2>0
          <6> QED BY <6>1, <6>2, <5>1
        <5> QED BY <5>2, <5>3
      <4> QED BY <4>1, <3>1, <3>4, <1>2 DEF WBuffer
    <3> QED BY <3>4, <3>5, <3>6, <1>5 DEF Operand
  <2> QED BY <2>2, <2>3
<1> QED BY <1>6, <1>7, <1>8

\* The term that the multiplication adds is the one of this iteration.
LEMMA NewTerm ==
  ASSUME NEW e, NEW f, NEW st, NEW c, Stepping(e, f, st, c, "w"), e.blocks["w"] = 1,
         NEW r \in 0 .. Cut(shape.m, ce_height, e.i) - 1
  PROVE  IsTerm([x |-> e.x_buffer[r], w |-> WLoad(e)], e.i * ce_height + r, e.j, e.k)
<1> DEFINE row == e.row["w"]
           depth == Cut(shape.n, TileDepth, e.k)
           x == e.x_buffer[r]
<1>0. Stepped(e, f, st, c, "w")
  BY StepFacts
<1>1. Accessing(e, st, c, "w") /\ Operand(e, st)
  BY DEF Stepping, Computes
<1>2. /\ TypeOK /\ e \in EngineType /\ st \in Phases /\ state = st /\ Iteration(e, st)
  BY <1>0 DEF Stepped
<1>3. /\ st = "ROUTINE" /\ row = Sent(e, st, "w") /\ row \in 0 .. bandwidth - 1
      /\ IsWRow(WLoad(e)[row], row, e.j, e.k)
      /\ \A d \in 0 .. bandwidth - 1 : d # row => WLoad(e)[d] = e.w_buffer[d]
  BY WLoadFacts
<1>4. row + 1 = depth /\ depth \in 1 .. TileDepth
  <2>1. Planned(e, st)["w"] = depth /\ depth \in 1 .. TileDepth
    BY <1>1, Purpose
  <2>2. e.blocks["w"] = Planned(e, st)["w"] - row /\ row \in Nat
    BY <1>1, <1>3, Choice
  <2>3. TileDepth \in Nat
    BY <1>2, Sizes
  <2> QED BY <2>1, <2>2, <2>3
<1>5. /\ ce_height \in Nat \ {0} /\ TileDepth \in 1 .. bandwidth /\ bandwidth \in Nat
      /\ shape.m \in Nat \ {0}
  BY <1>2, Sizes
<1>6. e.i \in 0 .. z_col_tiles - 1 /\ e.k \in 0 .. x_row_tiles - 1
  BY <1>2, <1>3, AheadFacts
<1>7. Cut(shape.m, ce_height, e.i) \in 1 .. ce_height
  BY <1>5, <1>6, TilesFacts DEF z_col_tiles
<1>8. r \in 0 .. ce_height - 1 /\ r < Cut(shape.m, ce_height, e.i)
  BY <1>5, <1>7
<1>9. ~Multiplied(e, st)
  BY <1>3 DEF Multiplied
<1>10. PICK contents \in {"zero", "garbage"} :
        /\ contents = "garbage" => Uncleared(e, st)
        /\ XBuffer(e, st, contents)
        /\ WBuffer(e, st, contents)
  BY <1>1 DEF Operand
<1>11. IsXRow(x, e.i * ce_height + r, e.k) /\ x.under = contents
  <2>1. XLoaded(e, st) = Cut(shape.m, ce_height, e.i) /\ XTile(e, st) = e
    BY <1>9 DEF XLoaded, XTile
  <2> QED BY <2>1, <1>8, <1>10 DEF XBuffer
<1>12. /\ \A d \in 0 .. bandwidth - 1 : d < row => IsWRow(e.w_buffer[d], d, e.j, e.k)
       /\ \A d \in 0 .. bandwidth - 1 : d > row => e.w_buffer[d] = NoRow(contents)
  <2>1. WLoaded(e, st) = row
    BY <1>3, <1>9 DEF WLoaded
  <2> HIDE DEF row
  <2> QED BY <2>1, <1>3, <1>10 DEF WBuffer
<1> HIDE DEF row, depth
<1>13. ASSUME NEW d \in 0 .. depth - 1
       PROVE  IsWRow(WLoad(e)[d], d, e.j, e.k)
  <2>1. d \in 0 .. bandwidth - 1 /\ (d = row \/ d < row)
    BY <1>3, <1>4, <1>5
  <2> QED BY <2>1, <1>3, <1>12
<1>14. ASSUME NEW d \in depth .. TileDepth - 1
       PROVE  RestIsZero(x, WLoad(e)[d])
  <2>1. d \in 0 .. bandwidth - 1 /\ d > row /\ d # row
    BY <1>3, <1>4, <1>5
  <2>2. WLoad(e)[d] = NoRow(contents)
    BY <2>1, <1>3, <1>12
  <2>3. CASE contents = "zero"
    BY <2>3, <1>11 DEF RestIsZero
  <2>4. CASE contents = "garbage"
    <3>1. e.k = 0
      BY <2>4, <1>3, <1>10 DEF Uncleared
    <3>2. depth < TileDepth
      BY <1>4, <1>5
    <3>3. shape.n < TileDepth
      BY <3>1, <3>2, <1>2, <1>6, WRowsFacts DEF depth
    <3> QED BY <3>3, <2>2, <2>4, <1>11 DEF RestIsZero
  <2> QED BY <2>3, <2>4
<1> DEFINE term == [x |-> x, w |-> WLoad(e)]
<1>15. term.x = x /\ term.w = WLoad(e)
  OBVIOUS
<1> HIDE DEF term, x
<1>16. IsTerm(term, e.i * ce_height + r, e.j, e.k)
  <2>1. /\ IsXRow(term.x, e.i * ce_height + r, e.k)
        /\ \A d \in 0 .. Cut(shape.n, TileDepth, e.k) - 1 : IsWRow(term.w[d], d, e.j, e.k)
        /\ \A d \in Cut(shape.n, TileDepth, e.k) .. TileDepth - 1 : RestIsZero(term.x, term.w[d])
    BY <1>11, <1>13, <1>14, <1>15 DEF depth
  <2> QED BY <2>1 DEF IsTerm, IsWRow
<1> QED BY <1>16 DEF term, x

LEMMA ComputedStep ==
  ASSUME NEW e, NEW f, NEW st, NEW c, NEW o, Stepping(e, f, st, c, o)
  PROVE  Computed(f, st)
<1>0. Stepped(e, f, st, c, o)
  BY StepFacts
<1>1. Accessing(e, st, c, o) /\ Computed(e, st) /\ Addresses(e, st)
  BY DEF Stepping, Computes
<1>2. /\ TypeOK /\ e \in EngineType /\ f \in EngineType /\ st \in Phases /\ state = st
      /\ Iteration(e, st) /\ Moves(e, f, o)
      /\ \A p \in Operands : f.blocks[p] = IF p = o THEN e.blocks[p] - 1 ELSE e.blocks[p]
      /\ f.i = e.i /\ f.j = e.j /\ f.k = e.k
  BY <1>0 DEF Stepped
<1>3. /\ o \in Operands /\ e.blocks[o] \in Nat \ {0} /\ "w" \in Operands
  BY <1>1, Choice DEF Operands
<1>4. f.blocks["w"] = IF o = "w" THEN e.blocks["w"] - 1 ELSE e.blocks["w"]
  BY <1>2, <1>3
<1>5. SUFFICES ASSUME st = "ROUTINE"
               PROVE  IsSum(f.z_compute, f.i, f.j, IF Multiplied(f, st) THEN f.k + 1 ELSE f.k)
  BY DEF Computed
<1>6. IsSum(e.z_compute, e.i, e.j, IF Multiplied(e, st) THEN e.k + 1 ELSE e.k)
  BY <1>1, <1>5 DEF Computed
<1>7. CASE ~(o = "w" /\ e.blocks["w"] = 1)
  <2>1. f.z_compute = e.z_compute
    BY <1>2, <1>7 DEF Moves
  <2>2. Multiplied(f, st) <=> Multiplied(e, st)
    BY <1>3, <1>4, <1>7 DEF Multiplied
  <2> QED BY <2>1, <2>2, <1>2, <1>6
<1>8. CASE o = "w" /\ e.blocks["w"] = 1
  <2> DEFINE old == e.z_compute
             new == f.z_compute
             w == WLoad(e)
  <2>1. new = [old EXCEPT !.terms = Append(@, [x |-> e.x_buffer, w |-> w])]
    BY <1>2, <1>8 DEF Moves
  <2>2. Multiplied(f, st) /\ ~Multiplied(e, st)
    BY <1>4, <1>5, <1>8 DEF Multiplied
  <2>3. /\ old \in Sum /\ e.x_buffer \in Rows(ce_height) /\ w \in Rows(bandwidth)
        /\ e.k \in Nat
    BY <1>1, <1>2, <1>8, FieldTypes, WLoadType
  <2>4. IsSum(old, e.i, e.j, e.k)
    BY <2>2, <1>6
  <2>5. Len(old.terms) = e.k
    BY <2>4 DEF IsSum
  <2>9. \A r \in 0 .. Cut(shape.m, ce_height, e.i) - 1 :
          IsTerm([x |-> e.x_buffer[r], w |-> w], e.i * ce_height + r, e.j, e.k)
    BY <1>8, NewTerm
  <2> HIDE DEF old, new, w
  <2>6. /\ new.y = old.y /\ Len(new.terms) = e.k + 1
        /\ \A t \in 1 .. e.k : new.terms[t] = old.terms[t]
        /\ new.terms[e.k + 1] = [x |-> e.x_buffer, w |-> w]
    BY <2>1, <2>3, <2>5, SumGrows
  <2>7. ASSUME NEW r \in 0 .. Cut(shape.m, ce_height, e.i) - 1, NEW t \in 0 .. (e.k + 1) - 1
        PROVE  IsTerm([x |-> new.terms[t + 1].x[r], w |-> new.terms[t + 1].w],
                      e.i * ce_height + r, e.j, t)
    <3>1. CASE t = e.k
      <4>1. new.terms[t + 1].x = e.x_buffer /\ new.terms[t + 1].w = w
        BY <3>1, <2>6
      <4> QED BY <4>1, <3>1, <2>9
    <3>2. CASE t < e.k
      <4>1. t \in 0 .. e.k - 1 /\ t + 1 \in 1 .. e.k
        BY <3>2, <2>3
      <4>2. IsTerm([x |-> old.terms[t + 1].x[r], w |-> old.terms[t + 1].w],
                   e.i * ce_height + r, e.j, t)
        BY <4>1, <2>4 DEF IsSum
      <4> QED BY <4>1, <4>2, <2>6
    <3> QED BY <3>1, <3>2, <2>3
  <2>8. IsSum(new, e.i, e.j, e.k + 1)
    BY <2>4, <2>6, <2>7 DEF IsSum
  <2> QED BY <2>2, <2>8, <1>2 DEF new
<1> QED BY <1>7, <1>8

-----------------------------------------------------------------------------
(* The result grows by the row that is stored. *)

LEMMA DoneFinite ==
  ASSUME TypeOK, NEW e, NEW st
  PROVE  IsFiniteSet(Done(e, st)) /\ Cardinality(Done(e, st)) \in Nat
<1>1. shape.m \in Nat /\ z_row_tiles \in Nat
  BY Sizes
<1>2. IsFiniteSet(0 .. shape.m - 1) /\ IsFiniteSet(0 .. z_row_tiles - 1)
  <2>1. shape.m - 1 \in Int /\ z_row_tiles - 1 \in Int /\ 0 \in Int
    BY <1>1
  <2> QED BY <2>1, FS_Interval
<1>3. IsFiniteSet((0 .. shape.m - 1) \X (0 .. z_row_tiles - 1))
  BY <1>2, FS_Product
<1>4. Done(e, st) \subseteq (0 .. shape.m - 1) \X (0 .. z_row_tiles - 1)
  BY DEF Done
<1>5. IsFiniteSet(Done(e, st))
  BY <1>3, <1>4, FS_Subset
<1> QED BY <1>5, FS_CardinalityType

\* Row r of the tile that is being stored.
StoredNext(e, r) == <<Behind(e)[1] * ce_height + r, Behind(e)[2]>>

LEMMA StoredNextFacts ==
  ASSUME TypeOK, NEW st \in Phases, NEW e \in EngineType, Iteration(e, st),
         HasPrevious(e, st), NEW r \in 0 .. Cut(shape.m, ce_height, Behind(e)[1]) - 1
  PROVE  /\ StoredNext(e, r)[1] = Behind(e)[1] * ce_height + r
         /\ StoredNext(e, r)[2] = Behind(e)[2]
         /\ StoredNext(e, r) \in (0 .. shape.m - 1) \X (0 .. z_row_tiles - 1)
         /\ TileOf(StoredNext(e, r)) = Behind(e)
         /\ Before(Behind(e), <<e.i, e.j>>)
         /\ r \in 0 .. ce_height - 1 /\ Behind(e)[1] * ce_height \in Nat
<1> DEFINE b == Behind(e)
<1>1. /\ b[1] \in 0 .. z_col_tiles - 1 /\ b[2] \in 0 .. z_row_tiles - 1
      /\ \A ij \in Nat \X (0 .. z_row_tiles - 1) :
           Before(ij, <<e.i, e.j>>) <=> Before(ij, b) \/ ij = b
  BY PreviousFacts
<1>2. /\ ce_height \in Nat \ {0} /\ shape.m \in Nat \ {0}
      /\ z_col_tiles \in Nat \ {0} /\ z_row_tiles \in Nat \ {0}
  BY Sizes
<1>3. /\ Cut(shape.m, ce_height, b[1]) \in 1 .. ce_height
      /\ b[1] * ce_height + Cut(shape.m, ce_height, b[1]) <= shape.m
  BY <1>1, <1>2, TilesFacts DEF z_col_tiles
<1>4. b = <<b[1], b[2]>>
  BY DEF Behind, PreviousTile
<1> HIDE DEF b
<1>5. b[1] \in Nat /\ b[1] * ce_height \in Nat /\ r \in 0 .. ce_height - 1
  <2>1. b[1] \in Nat
    BY <1>1
  <2>2. b[1] * ce_height \in Nat
    BY <2>1, <1>2
  <2>3. r \in 0 .. Cut(shape.m, ce_height, b[1]) - 1
    BY DEF b
  <2> QED BY <2>1, <2>2, <2>3, <1>2, <1>3
<1>6. b[1] * ce_height + r \in 0 .. shape.m - 1
  <2>1. r \in 0 .. Cut(shape.m, ce_height, b[1]) - 1
    BY DEF b
  <2> QED BY <2>1, <1>2, <1>3, <1>5
<1>7. (b[1] * ce_height + r) \div ce_height = b[1]
  BY <1>2, <1>5, DivMod
<1>8. StoredNext(e, r) = <<b[1] * ce_height + r, b[2]>>
  BY DEF StoredNext, b
<1>9. TileOf(StoredNext(e, r)) = b
  BY <1>4, <1>7, <1>8 DEF TileOf
<1>10. Before(b, <<e.i, e.j>>)
  <2>1. b \in Nat \X (0 .. z_row_tiles - 1)
    BY <1>1, <1>4, <1>5
  <2> QED BY <2>1, <1>1
<1>11. StoredNext(e, r) \in (0 .. shape.m - 1) \X (0 .. z_row_tiles - 1)
  BY <1>1, <1>6, <1>8
<1> QED BY <1>5, <1>8, <1>9, <1>10, <1>11 DEF b

\* One more row of it is done.
LEMMA DoneGrows ==
  ASSUME TypeOK, NEW st \in Phases, NEW e \in EngineType, NEW f \in EngineType,
         Iteration(e, st), HasPrevious(e, st), StoresNow(e, st),
         f.i = e.i, f.j = e.j, f.k = e.k,
         Sent(e, st, "z") \in 0 .. Cut(shape.m, ce_height, Behind(e)[1]) - 1,
         Sent(f, st, "z") = Sent(e, st, "z") + 1
  PROVE  /\ Done(f, st) = Done(e, st) \cup {StoredNext(e, Sent(e, st, "z"))}
         /\ StoredNext(e, Sent(e, st, "z")) \notin Done(e, st)
<1> DEFINE b == Behind(e)
           r == Sent(e, st, "z")
           new == StoredNext(e, r)
           base == b[1] * ce_height
<1>1. /\ new[1] = base + r /\ new[2] = b[2]
      /\ new \in (0 .. shape.m - 1) \X (0 .. z_row_tiles - 1)
      /\ TileOf(new) = b /\ Before(b, <<e.i, e.j>>)
      /\ r \in 0 .. ce_height - 1 /\ base \in Nat
  BY StoredNextFacts
<1>2. Behind(f) = b /\ StoresNow(f, st) /\ StoresNow(e, st)
  BY DEF Behind, StoresNow
<1>3. ce_height \in Nat
  BY Sizes
<1>4. \A q \in (0 .. shape.m - 1) \X (0 .. z_row_tiles - 1) :
        /\ q \in Done(e, st) <=> /\ Before(TileOf(q), <<e.i, e.j>>)
                                 /\ TileOf(q) = b => q[1] < base + r
        /\ q \in Done(f, st) <=> /\ Before(TileOf(q), <<e.i, e.j>>)
                                 /\ TileOf(q) = b => q[1] < base + (r + 1)
  BY <1>2 DEF Done
<1>5. /\ Done(e, st) \subseteq (0 .. shape.m - 1) \X (0 .. z_row_tiles - 1)
      /\ Done(f, st) \subseteq (0 .. shape.m - 1) \X (0 .. z_row_tiles - 1)
  BY DEF Done
<1>6. \A q \in (0 .. shape.m - 1) \X (0 .. z_row_tiles - 1) :
        TileOf(q) = b => q[2] = b[2] /\ q[1] \in Nat
  <2>1. shape.m \in Nat
    BY Sizes
  <2> QED BY <2>1 DEF TileOf
<1> HIDE DEF b, r, new, base
<1>7. new \notin Done(e, st)
  BY <1>1, <1>3, <1>4
<1>8. ASSUME NEW q \in (0 .. shape.m - 1) \X (0 .. z_row_tiles - 1)
      PROVE  q \in Done(f, st) <=> q \in Done(e, st) \/ q = new
  <2>1. CASE TileOf(q) # b
    BY <2>1, <1>1, <1>4
  <2>2. CASE TileOf(q) = b
    <3>1. q[1] \in Nat /\ q[2] = b[2]
      BY <2>2, <1>6
    <3>2. q = new <=> q[1] = base + r
      <4>1. q = <<q[1], q[2]>> /\ new = <<new[1], new[2]>>
        BY <1>1
      <4> QED BY <4>1, <3>1, <1>1
    <3>3. q[1] < base + (r + 1) <=> q[1] < base + r \/ q[1] = base + r
      BY <3>1, <1>1, <1>3
    <3> QED BY <3>2, <3>3, <2>2, <1>1, <1>4
  <2> QED BY <2>1, <2>2
<1>9. Done(f, st) = Done(e, st) \cup {new}
  BY <1>1, <1>5, <1>8
<1> QED BY <1>7, <1>9 DEF new, r

LEMMA StoredRowIsResult ==
  ASSUME NEW e, NEW f, NEW st, NEW c, Stepping(e, f, st, c, "z")
  PROVE  /\ e.row["z"] = Sent(e, st, "z") /\ HasPrevious(e, st) /\ StoresNow(e, st)
         /\ Sent(e, st, "z") \in 0 .. Cut(shape.m, ce_height, Behind(e)[1]) - 1
         /\ IsResult(PreviousRow(e, e.row["z"]), StoredNext(e, Sent(e, st, "z"))[1],
                     StoredNext(e, Sent(e, st, "z"))[2])
<1> DEFINE r == e.row["z"]
           b == Behind(e)
           s == PreviousRow(e, r)
           z == e.z_previos
<1>0. Stepped(e, f, st, c, "z")
  BY StepFacts
<1>1. Accessing(e, st, c, "z") /\ Addresses(e, st) /\ Previous(e, st)
  BY DEF Stepping, Computes
<1>2. /\ TypeOK /\ e \in EngineType /\ st \in Phases /\ state = st /\ Iteration(e, st)
  BY <1>0 DEF Stepped
<1>3. /\ HasPrevious(e, st) /\ StoresNow(e, st)
      /\ Planned(e, st)["z"] = e.z_store.height
  BY <1>1, Purpose
<1>4. /\ e.z_store.width = Cut(shape.k, TileWidth, b[2])
      /\ e.z_store.height = Cut(shape.m, ce_height, b[1])
      /\ IsSum(z, b[1], b[2], x_row_tiles)
  BY <1>1, <1>3 DEF Previous
<1>5. r = Sent(e, st, "z") /\ r \in 0 .. Cut(shape.m, ce_height, b[1]) - 1
      /\ r \in 0 .. ce_height - 1
  BY <1>1, <1>3, <1>4, Choice, ChosenRow
<1>6. e.addr["z"] = Location(Y, shape.k, ce_height, TileWidth, b[1] * ce_height + r, b[2])
  BY <1>1, ChosenRow DEF RowAddress
<1>7. /\ s.at = e.addr["z"] /\ s.width = e.z_store.width
      /\ s.y = z.y[r]
      /\ Len(s.terms) = Len(z.terms)
      /\ \A t \in 1 .. Len(z.terms) : s.terms[t] = [x |-> z.terms[t].x[r], w |-> z.terms[t].w]
  BY <1>2, <1>5, PreviousRowType
<1>8. /\ IsYRow(z.y[r], b[1] * ce_height + r, b[2])
      /\ Len(z.terms) = x_row_tiles
      /\ \A t \in 0 .. x_row_tiles - 1 :
           IsTerm([x |-> z.terms[t + 1].x[r], w |-> z.terms[t + 1].w],
                  b[1] * ce_height + r, b[2], t)
  BY <1>4, <1>5 DEF IsSum
<1>9. StoredNext(e, r)[1] = b[1] * ce_height + r /\ StoredNext(e, r)[2] = b[2]
  BY DEF StoredNext
<1>10. x_row_tiles \in Nat
  BY <1>2, Sizes
<1> HIDE DEF r, b, s, z
<1>11. IsResult(s, b[1] * ce_height + r, b[2])
  <2>1. s.at = s.y.at /\ s.width = s.y.width
    BY <1>4, <1>6, <1>7, <1>8 DEF IsYRow
  <2>2. ASSUME NEW k \in 0 .. x_row_tiles - 1
        PROVE  IsTerm(s.terms[k + 1], b[1] * ce_height + r, b[2], k)
    <3>1. k + 1 \in 1 .. Len(z.terms)
      BY <1>8, <1>10
    <3>2. s.terms[k + 1] = [x |-> z.terms[k + 1].x[r], w |-> z.terms[k + 1].w]
      BY <3>1, <1>7
    <3> QED BY <3>2, <1>8
  <2> QED BY <2>1, <2>2, <1>7, <1>8 DEF IsResult
<1> QED BY <1>3, <1>5, <1>9, <1>11 DEF s, r, b

LEMMA StoredStep ==
  ASSUME NEW e, NEW f, NEW st, NEW c, NEW o, Stepping(e, f, st, c, o)
  PROVE  Stored(f, st)
<1>0. Stepped(e, f, st, c, o)
  BY StepFacts
<1>1. Accessing(e, st, c, o) /\ Stored(e, st)
  BY DEF Stepping, Computes
<1>2. /\ TypeOK /\ e \in EngineType /\ f \in EngineType /\ st \in Phases /\ state = st
      /\ Iteration(e, st) /\ Moves(e, f, o)
      /\ \A p \in Operands : Sent(f, st, p) = IF p = o THEN Sent(e, st, p) + 1
                                              ELSE Sent(e, st, p)
      /\ f.i = e.i /\ f.j = e.j /\ f.k = e.k
  BY <1>0 DEF Stepped
<1>3. o \in Operands /\ "z" \in Operands
  BY <1>1, Choice DEF Operands
<1>4. CASE o # "z"
  <2>1. f.stored = e.stored /\ Sent(f, st, "z") = Sent(e, st, "z")
    BY <1>2, <1>3, <1>4 DEF Moves
  <2>2. Done(f, st) = Done(e, st)
    BY <2>1, <1>2 DEF Done, Behind, StoresNow
  <2> QED BY <2>1, <2>2, <1>1 DEF Stored
<1>5. CASE o = "z"
  <2> DEFINE new == StoredNext(e, Sent(e, st, "z"))
             row == PreviousRow(e, e.row["z"])
  <2>1. /\ e.row["z"] = Sent(e, st, "z") /\ HasPrevious(e, st) /\ StoresNow(e, st)
        /\ Sent(e, st, "z") \in 0 .. Cut(shape.m, ce_height, Behind(e)[1]) - 1
        /\ IsResult(row, new[1], new[2])
    BY <1>5, StoredRowIsResult
  <2>2. Done(f, st) = Done(e, st) \cup {new} /\ new \notin Done(e, st)
    <3>1. Sent(f, st, "z") = Sent(e, st, "z") + 1
      BY <1>2, <1>3, <1>5
    <3> QED BY <3>1, <2>1, <1>2, DoneGrows
  <2>3. f.stored = Append(e.stored, row) /\ e.stored \in Seq(StoredRow) /\ row \in StoredRow
    <3>1. f.stored = Append(e.stored, row)
      BY <1>2, <1>5 DEF Moves
    <3>2. e.row["z"] \in 0 .. ce_height - 1
      <4>1. HasPrevious(e, st) /\ Addresses(e, st)
        BY <2>1 DEF Stepping, Computes
      <4> QED BY <4>1, <1>1, <1>5, ChosenRow
    <3>3. row \in StoredRow
      BY <3>2, <1>2, PreviousRowType
    <3> QED BY <3>1, <3>3, <1>2, FieldTypes
  <2> HIDE DEF new, row
  <2>4. /\ Len(e.stored) \in Nat /\ Len(f.stored) = Len(e.stored) + 1
        /\ DOMAIN e.stored = 1 .. Len(e.stored) /\ DOMAIN f.stored = 1 .. Len(e.stored) + 1
        /\ \A s \in 1 .. Len(e.stored) : f.stored[s] = e.stored[s]
        /\ f.stored[Len(e.stored) + 1] = row
    <3>1. f.stored \in Seq(StoredRow)
      BY <2>3, AppendProperties
    <3>2. /\ Len(f.stored) = Len(e.stored) + 1
          /\ \A s \in 1 .. Len(e.stored) : f.stored[s] = e.stored[s]
          /\ f.stored[Len(e.stored) + 1] = row
      BY <2>3, AppendProperties
    <3>3. /\ Len(e.stored) \in Nat /\ DOMAIN e.stored = 1 .. Len(e.stored)
          /\ DOMAIN f.stored = 1 .. Len(f.stored)
      BY <3>1, <2>3, LenProperties
    <3> QED BY <3>2, <3>3
  <2>5. Len(f.stored) = Cardinality(Done(f, st))
    <3>1. IsFiniteSet(Done(e, st)) /\ Cardinality(Done(e, st)) \in Nat
      BY <1>2, DoneFinite
    <3>2. Cardinality(Done(f, st)) = Cardinality(Done(e, st)) + 1
      BY <3>1, <2>2, FS_AddElement
    <3>3. Len(e.stored) = Cardinality(Done(e, st))
      BY <1>1 DEF Stored
    <3> QED BY <3>2, <3>3, <2>4
  <2>6. ASSUME NEW rj \in Done(f, st)
        PROVE  \E s \in DOMAIN f.stored : IsResult(f.stored[s], rj[1], rj[2])
    <3>1. CASE rj = new
      <4>1. Len(e.stored) + 1 \in DOMAIN f.stored
        BY <2>4
      <4> QED BY <4>1, <3>1, <2>1, <2>4
    <3>2. CASE rj \in Done(e, st)
      <4>1. PICK s \in DOMAIN e.stored : IsResult(e.stored[s], rj[1], rj[2])
        BY <3>2, <1>1 DEF Stored
      <4>2. s \in DOMAIN f.stored /\ f.stored[s] = e.stored[s]
        BY <2>4
      <4> QED BY <4>1, <4>2
    <3> QED BY <3>1, <3>2, <2>2
  <2>7. ASSUME NEW s \in DOMAIN f.stored
        PROVE  \E rj \in Done(f, st) : IsResult(f.stored[s], rj[1], rj[2])
    <3>1. CASE s = Len(e.stored) + 1
      BY <3>1, <2>1, <2>2, <2>4
    <3>2. CASE s # Len(e.stored) + 1
      <4>1. s \in DOMAIN e.stored /\ f.stored[s] = e.stored[s]
        BY <3>2, <2>4
      <4>2. PICK rj \in Done(e, st) : IsResult(e.stored[s], rj[1], rj[2])
        BY <4>1, <1>1 DEF Stored
      <4> QED BY <4>1, <4>2, <2>2
    <3> QED BY <3>1, <3>2
  <2> QED BY <2>5, <2>6, <2>7 DEF Stored
<1> QED BY <1>4, <1>5

-----------------------------------------------------------------------------
(* An access keeps the invariant of the engine. *)

LEMMA UntouchedStep ==
  ASSUME NEW e, NEW st, NEW c, NEW o, Accessing(e, st, c, o), compute_able = 0, Untouched(e)
  PROVE  Untouched(Access(e)) /\ Access(e).stored = e.stored
<1>1. Unmoved(e, Access(e))
  BY Choice
<1> QED BY <1>1 DEF Unmoved, Untouched

LEMMA AccessStep ==
  ASSUME TypeOK, NEW st \in Phases, state = st, NEW e, NEW c \in Nat,
         EngineInv(e, st, c), c < tcdm_block_total
  PROVE  EngineInv(Access(e), st, c + 1)
<1> DEFINE o == NextOperand(e)
           f == Access(e)
<1>1. /\ e \in EngineType /\ Iteration(e, st) /\ Progress(e, st, c)
      /\ st # "IDLE"
      /\ compute_able = 0 => Untouched(e) /\ e.stored = <<>>
      /\ compute_able # 0 => Computes(e, st)
  BY DEF EngineInv, Phases
<1>2. Accessing(e, st, c, o)
  BY <1>1 DEF Accessing
<1>3. compute_able # 0 => Addresses(e, st)
  BY <1>1 DEF Computes
<1>4. f \in EngineType
  BY <1>2, <1>3, AccessType
<1>5. Accessed(e, f, o)
  BY <1>2, Choice
<1>6. Iteration(f, st) /\ Progress(f, st, c + 1)
  BY <1>1, <1>4, <1>5, AccessProgress
<1>7. ASSUME compute_able = 0 PROVE Untouched(f) /\ f.stored = <<>>
  BY <1>1, <1>2, <1>7, UntouchedStep
<1>8. ASSUME compute_able # 0 PROVE Computes(f, st)
  <2>1. Stepping(e, f, st, c, o)
    BY <1>1, <1>2, <1>8 DEF Stepping
  <2> HIDE DEF f, o
  <2> QED BY <2>1, AddressesStep, OperandStep, YBufferStep, ComputedStep, PreviousStep, StoredStep
       DEF Computes
<1> QED BY <1>1, <1>4, <1>6, <1>7, <1>8 DEF EngineInv

\* When everything of a state is sent.
LEMMA Complete ==
  ASSUME TypeOK, NEW st \in Phases, NEW e, NEW c \in Nat,
         EngineInv(e, st, c), c >= tcdm_block_total
  PROVE  /\ c = tcdm_block_total
         /\ \A o \in Operands : e.blocks[o] = 0 /\ Sent(e, st, o) = Planned(e, st)[o]
<1>1. e \in EngineType /\ Iteration(e, st) /\ Progress(e, st, c)
  BY DEF EngineInv
<1> DEFINE P == Planned(e, st)
           B == e.blocks
<1>2. B \in [Operands -> Nat] /\ P \in [Operands -> Nat]
  BY <1>1, FieldTypes, PlannedPhase
<1>3. /\ tcdm_block_total = P["y"] + P["w"] + P["x"] + P["z"]
      /\ c = tcdm_block_total - (B["y"] + B["w"] + B["x"] + B["z"])
  BY <1>1 DEF Progress, Total
<1>4. \A o \in Operands : Sent(e, st, o) = P[o] - B[o]
  BY DEF Sent
<1>5. /\ B["y"] \in Nat /\ B["w"] \in Nat /\ B["x"] \in Nat /\ B["z"] \in Nat
      /\ P["y"] \in Nat /\ P["w"] \in Nat /\ P["x"] \in Nat /\ P["z"] \in Nat
  BY <1>2 DEF Operands
<1> HIDE DEF P, B
<1>6. /\ c = tcdm_block_total
      /\ B["y"] = 0 /\ B["w"] = 0 /\ B["x"] = 0 /\ B["z"] = 0
  BY <1>3, <1>5
<1>7. \A o \in Operands : B[o] = 0 /\ P[o] \in Nat
  BY <1>2, <1>6 DEF Operands
<1> QED BY <1>4, <1>6, <1>7 DEF P, B

\* Every access that is sent in an activation.
LEMMA Sending ==
  ASSUME TypeOK, PendingInv, NEW st \in Phases, state = st, EngineInv(engine, st, fsm_counter)
  PROVE  /\ EngineInv(accessed, st, counter)
         /\ counter \in 0 .. tcdm_block_total /\ counter \in Nat
         /\ issued \in 0 .. counter /\ issued \in 0 .. queue_depth + 1
         /\ issued \in Nat
<1>1. /\ fsm_counter \in 0 .. tcdm_block_total /\ fsm_counter \in Nat /\ pending \in 0 .. fsm_counter
      /\ pending \in 0 .. queue_depth + 1 /\ queue_depth \in Nat
  BY EngineAssumption DEF TypeOK, PendingInv
<1>2. CASE Sends
  <2>1. fsm_counter < tcdm_block_total /\ pending <= queue_depth
    BY <1>2 DEF Sends
  <2>2. counter = fsm_counter + 1 /\ issued = pending + 1 /\ accessed = Access(engine)
    BY <1>2 DEF counter, issued, accessed
  <2>3. EngineInv(Access(engine), st, fsm_counter + 1)
    BY <2>1, <1>1, AccessStep
  <2>4. tcdm_block_total \in Int
    <3>1. Progress(engine, st, fsm_counter) /\ engine \in EngineType /\ Iteration(engine, st)
      BY DEF EngineInv
    <3>2. Planned(engine, st) \in [Operands -> Nat]
      BY <3>1, PlannedPhase
    <3> QED BY <3>1, <3>2 DEF Progress, Total, Operands
  <2> QED BY <2>1, <2>2, <2>3, <2>4, <1>1
<1>3. CASE ~Sends
  <2>2. counter = fsm_counter /\ issued = pending /\ accessed = engine
    BY <1>3 DEF counter, issued, accessed
  <2> QED BY <2>2, <1>1
<1> QED BY <1>2, <1>3

-----------------------------------------------------------------------------
(* What is stored when a state begins, and when it ends. *)

AllBefore(ij) ==
  {rj \in (0 .. shape.m - 1) \X (0 .. z_row_tiles - 1) : Before(TileOf(rj), ij)}

LEMMA TileOfFacts ==
  ASSUME TypeOK, NEW q \in (0 .. shape.m - 1) \X (0 .. z_row_tiles - 1)
  PROVE  /\ TileOf(q) \in Nat \X (0 .. z_row_tiles - 1)
         /\ TileOf(q)[1] \in 0 .. z_col_tiles - 1
         /\ q[1] - TileOf(q)[1] * ce_height \in 0 .. Cut(shape.m, ce_height, TileOf(q)[1]) - 1
         /\ TileOf(q)[1] * ce_height \in Nat /\ q[1] \in Nat
         /\ Cut(shape.m, ce_height, TileOf(q)[1]) \in Nat
<1> DEFINE a == q[1]
           b == q[2]
           t == a \div ce_height
<1>1. a \in 0 .. shape.m - 1 /\ b \in 0 .. z_row_tiles - 1
  OBVIOUS
<1>2. /\ ce_height \in Nat \ {0} /\ shape.m \in Nat \ {0}
      /\ z_col_tiles \in Nat \ {0} /\ z_row_tiles \in Nat \ {0}
  BY Sizes
<1>3. TileOf(q) = <<t, b>>
  BY DEF TileOf
<1> HIDE DEF a, b
<1>4. /\ t \in 0 .. z_col_tiles - 1
      /\ a - t * ce_height \in 0 .. Cut(shape.m, ce_height, t) - 1
  BY <1>1, <1>2, TileOfIndex DEF z_col_tiles
<1>5. Cut(shape.m, ce_height, t) \in 1 .. ce_height
  <2> HIDE DEF t
  <2> QED BY <1>2, <1>4, TilesFacts DEF z_col_tiles
<1> HIDE DEF t
<1>6. t \in Nat /\ a \in Nat
  BY <1>1, <1>2, <1>4
<1>7. t * ce_height \in Nat
  BY <1>2, <1>6
<1>8. TileOf(q)[1] = t /\ TileOf(q) \in Nat \X (0 .. z_row_tiles - 1)
  BY <1>1, <1>3, <1>6
<1> QED BY <1>2, <1>4, <1>5, <1>6, <1>7, <1>8 DEF a

LEMMA DoneNone ==
  ASSUME TypeOK, NEW e, NEW st, e.i = 0, e.j = 0
  PROVE  Done(e, st) = {} /\ AllBefore(<<e.i, e.j>>) = {}
<1>1. ASSUME NEW q \in (0 .. shape.m - 1) \X (0 .. z_row_tiles - 1)
      PROVE  ~Before(TileOf(q), <<e.i, e.j>>)
  <2>1. TileOf(q)[1] \in Nat /\ TileOf(q)[2] \in Nat
    <3>1. TileOf(q) \in Nat \X (0 .. z_row_tiles - 1) /\ z_row_tiles \in Nat
      BY TileOfFacts, Sizes
    <3> QED BY <3>1
  <2> QED BY <2>1 DEF Before
<1> QED BY <1>1 DEF Done, AllBefore

LEMMA DoneAll ==
  ASSUME TypeOK, NEW st \in Phases, NEW e \in EngineType, Iteration(e, st),
         HasPrevious(e, st) /\ StoresNow(e, st) =>
           Sent(e, st, "z") = Cut(shape.m, ce_height, Behind(e)[1])
  PROVE  Done(e, st) = AllBefore(<<e.i, e.j>>)
<1>1. ASSUME NEW q \in (0 .. shape.m - 1) \X (0 .. z_row_tiles - 1),
             Before(TileOf(q), <<e.i, e.j>>), StoresNow(e, st), TileOf(q) = Behind(e)
      PROVE  q[1] < Behind(e)[1] * ce_height + Sent(e, st, "z")
  <2>1. HasPrevious(e, st)
    <3>1. ASSUME e.i = 0, e.j = 0 PROVE FALSE
      <4>1. q \in AllBefore(<<e.i, e.j>>)
        BY <1>1 DEF AllBefore
      <4> QED BY <4>1, <3>1, DoneNone
    <3>2. e.i \in Nat /\ e.j \in Nat
      BY FieldTypes
    <3> QED BY <3>1, <3>2, <1>1 DEF HasPrevious, StoresNow
  <2> DEFINE b == Behind(e)[1]
             h == Cut(shape.m, ce_height, b)
  <2>2. Sent(e, st, "z") = h
    BY <2>1, <1>1
  <2>3. q[1] - b * ce_height \in 0 .. h - 1 /\ b * ce_height \in Nat /\ q[1] \in Nat /\ h \in Nat
    BY <1>1, TileOfFacts
  <2> HIDE DEF b, h
  <2>4. q[1] < b * ce_height + h
    BY <2>3
  <2> QED BY <2>2, <2>4 DEF b
<1> QED BY <1>1 DEF Done, AllBefore

LEMMA DoneStart ==
  ASSUME TypeOK, NEW st \in Phases, NEW e \in EngineType, Iteration(e, st),
         HasPrevious(e, st), StoresNow(e, st), Sent(e, st, "z") = 0
  PROVE  Done(e, st) = AllBefore(Behind(e))
<1> DEFINE b == Behind(e)
<1>1. /\ \A ij \in Nat \X (0 .. z_row_tiles - 1) :
           Before(ij, <<e.i, e.j>>) <=> Before(ij, b) \/ ij = b
      /\ ~Before(b, b)
  BY PreviousFacts
<1>2. ASSUME NEW q \in (0 .. shape.m - 1) \X (0 .. z_row_tiles - 1)
      PROVE  /\ Before(TileOf(q), <<e.i, e.j>>) /\ (TileOf(q) = b => q[1] < b[1] * ce_height + 0)
                <=> Before(TileOf(q), b)
  <2>1. CASE TileOf(q) = b
    <3>1. q[1] - b[1] * ce_height \in 0 .. Cut(shape.m, ce_height, b[1]) - 1
          /\ b[1] * ce_height \in Nat /\ q[1] \in Nat
      BY <2>1, TileOfFacts
    <3>2. ~(q[1] < b[1] * ce_height + 0)
      <4> HIDE DEF b
      <4> QED BY <3>1
    <3> QED BY <3>2, <2>1, <1>1
  <2>2. CASE TileOf(q) # b
    <3>1. TileOf(q) \in Nat \X (0 .. z_row_tiles - 1)
      BY TileOfFacts
    <3> QED BY <3>1, <2>2, <1>1
  <2> QED BY <2>1, <2>2
<1>3. \A q \in (0 .. shape.m - 1) \X (0 .. z_row_tiles - 1) :
        q \in Done(e, st) <=> /\ Before(TileOf(q), <<e.i, e.j>>)
                              /\ TileOf(q) = b => q[1] < b[1] * ce_height + 0
  BY DEF Done
<1> HIDE DEF b
<1>4. /\ Done(e, st) \subseteq (0 .. shape.m - 1) \X (0 .. z_row_tiles - 1)
      /\ AllBefore(b) \subseteq (0 .. shape.m - 1) \X (0 .. z_row_tiles - 1)
      /\ \A q \in (0 .. shape.m - 1) \X (0 .. z_row_tiles - 1) :
           q \in AllBefore(b) <=> Before(TileOf(q), b)
  BY DEF Done, AllBefore
<1>5. Done(e, st) = AllBefore(b)
  BY <1>2, <1>3, <1>4
<1> QED BY <1>5 DEF b

\* What a state without stores of its own has done.
LEMMA DoneSame ==
  ASSUME NEW e, NEW st, ~StoresNow(e, st)
  PROVE  Done(e, st) = AllBefore(<<e.i, e.j>>)
  BY DEF Done, AllBefore

\* The engine keeps what it has stored.
LEMMA StoredKept ==
  ASSUME NEW e, NEW f, NEW st, NEW next, Stored(e, st), f.stored = e.stored,
         Done(f, next) = Done(e, st)
  PROVE  Stored(f, next)
  BY DEF Stored

\* When a state has sent everything, every tile before is stored.
LEMMA CompleteStored ==
  ASSUME TypeOK, NEW st \in Phases, NEW e \in EngineType, Iteration(e, st), Previous(e, st),
         \A o \in Operands : Sent(e, st, o) = Planned(e, st)[o]
  PROVE  Done(e, st) = AllBefore(<<e.i, e.j>>)
<1>1. ASSUME HasPrevious(e, st), StoresNow(e, st)
      PROVE  Sent(e, st, "z") = Cut(shape.m, ce_height, Behind(e)[1])
  <2>1. e.z_store.height = Cut(shape.m, ce_height, Behind(e)[1])
    BY <1>1 DEF Previous
  <2>2. Planned(e, st)["z"] = e.z_store.height
    <3>1. CASE st = "STORING"
      BY <3>1, PlannedPhase
    <3>2. CASE st = "ROUTINE"
      <4>1. InLoop(e)
        BY <3>2, PlannedPhase
      <4>2. StoresPrevious(e)
        BY <3>2, <1>1 DEF StoresPrevious, StoresNow, HasPrevious
      <4>3. next_iteration(e) = next_iteration(e)
        OBVIOUS
      <4> QED BY <4>1, <4>2, <4>3, <3>2, PlannedRoutine
    <3> QED BY <3>1, <3>2, <1>1 DEF StoresNow
  <2> QED BY <2>1, <2>2 DEF Operands
<1> QED BY <1>1, DoneAll

-----------------------------------------------------------------------------
(* How a state begins. *)

\* Engine f is engine e with accesses planned: blocks of them, from addr.
Plans(f, e, blocks, addr) ==
  /\ f \in EngineType
  /\ f.i = e.i /\ f.j = e.j /\ f.k = e.k
  /\ f.blocks = blocks /\ f.addr = addr /\ f.row = e.row /\ f.z_store = e.z_store
  /\ f.x_buffer = e.x_buffer /\ f.w_buffer = e.w_buffer
  /\ f.y_buffer_preload = e.y_buffer_preload
  /\ f.z_compute = e.z_compute /\ f.z_previos = e.z_previos /\ f.stored = e.stored

LEMMA Planning ==
  ASSUME NEW e \in EngineType, NEW blocks \in [Operands -> Nat], NEW addr \in [Operands -> Nat]
  PROVE  Plans([e EXCEPT !.blocks = blocks, !.addr = addr], e, blocks, addr)
<1> DEFINE f == [e EXCEPT !.blocks = blocks, !.addr = addr]
<1>1. f = [i |-> e.i, j |-> e.j, k |-> e.k, blocks |-> blocks, addr |-> addr, row |-> e.row,
           z_store |-> e.z_store, x_buffer |-> e.x_buffer,
           y_buffer_preload |-> e.y_buffer_preload, w_buffer |-> e.w_buffer,
           z_compute |-> e.z_compute, z_previos |-> e.z_previos, stored |-> e.stored]
  <2>1. e = Engine(e, e.y_buffer_preload, e.x_buffer, e.w_buffer, e.z_compute, e.stored)
    BY DEF Engine, EngineType
  <2>2. f = [Engine(e, e.y_buffer_preload, e.x_buffer, e.w_buffer, e.z_compute, e.stored)
               EXCEPT !.blocks = blocks, !.addr = addr]
    BY <2>1
  <2> HIDE DEF f
  <2> QED BY <2>2 DEF Engine
<1> HIDE DEF f
<1>2. f \in EngineType
  <2>1. /\ e.i \in Nat /\ e.j \in Nat /\ e.k \in Nat
        /\ e.row \in Blocks /\ blocks \in Blocks /\ addr \in Blocks
        /\ e.z_store \in [width : 0 .. TileWidth, height : 0 .. ce_height]
        /\ e.x_buffer \in Rows(ce_height) /\ e.y_buffer_preload \in Rows(ce_height)
        /\ e.w_buffer \in Rows(bandwidth)
        /\ e.z_compute \in Sum /\ e.z_previos \in Sum
        /\ e.stored \in Seq(StoredRow)
    BY DEF EngineType, Blocks
  <2> QED BY <1>1, <2>1 DEF EngineType
<1>3. Plans(f, e, blocks, addr)
  BY <1>1, <1>2 DEF Plans
<1> QED BY <1>3 DEF f

\* Engine f is engine e after INSTR_FORWARD_YZ.
Forwarded(f, e) ==
  /\ f \in EngineType
  /\ f.i = e.i /\ f.j = e.j /\ f.k = e.k
  /\ f.blocks = e.blocks /\ f.addr = e.addr /\ f.row = e.row
  /\ f.z_store.width = WCut(e) /\ f.z_store.height = Cut(shape.m, ce_height, e.i)
  /\ f.x_buffer = e.x_buffer /\ f.w_buffer = e.w_buffer
  /\ f.z_previos = e.z_compute
  /\ f.z_compute.y = e.y_buffer_preload /\ Len(f.z_compute.terms) = 0
  /\ f.stored = e.stored

LEMMA Forwarding ==
  ASSUME TypeOK, NEW e \in EngineType, e.i \in 0 .. z_col_tiles - 1, e.j \in 0 .. z_row_tiles - 1
  PROVE  Forwarded(ForwardYZ(e), e)
<1> DEFINE f == ForwardYZ(e)
           store == [width |-> WCut(e), height |-> Cut(shape.m, ce_height, e.i)]
           sum == [y |-> e.y_buffer_preload, terms |-> <<>>]
           buffer == Buffer(ce_height, Zero)
<1>1. f = [i |-> e.i, j |-> e.j, k |-> e.k, blocks |-> e.blocks, addr |-> e.addr, row |-> e.row,
           z_store |-> store, x_buffer |-> e.x_buffer,
           y_buffer_preload |-> buffer, w_buffer |-> e.w_buffer,
           z_compute |-> sum, z_previos |-> e.z_compute, stored |-> e.stored]
  <2>1. e = Engine(e, e.y_buffer_preload, e.x_buffer, e.w_buffer, e.z_compute, e.stored)
    BY DEF Engine, EngineType
  <2>2. f = [e EXCEPT !.z_previos = e.z_compute, !.z_compute = sum,
                      !.y_buffer_preload = buffer, !.z_store = store]
    BY DEF ForwardYZ
  <2>3. f = [Engine(e, e.y_buffer_preload, e.x_buffer, e.w_buffer, e.z_compute, e.stored)
               EXCEPT !.z_previos = e.z_compute, !.z_compute = sum,
                      !.y_buffer_preload = buffer, !.z_store = store]
    BY <2>1, <2>2
  <2> HIDE DEF f, sum, buffer, store
  <2> QED BY <2>3 DEF Engine
<1>2. /\ ce_height \in Nat \ {0} /\ TileWidth \in Nat \ {0} /\ shape.m \in Nat \ {0}
      /\ shape.k \in Nat \ {0}
  BY Sizes
<1>3. store \in [width : 0 .. TileWidth, height : 0 .. ce_height]
  <2>1. Cut(shape.m, ce_height, e.i) \in 1 .. ce_height
    BY <1>2, TilesFacts DEF z_col_tiles
  <2>2. WCut(e) \in 1 .. TileWidth
    BY <1>2, TilesFacts DEF z_row_tiles, WCut
  <2> QED BY <2>1, <2>2, <1>2
<1>4. buffer \in Rows(ce_height)
  BY <1>2, BufferFacts
<1>5. sum \in Sum
  <2>1. <<>> \in Seq([x : Rows(ce_height), w : Rows(bandwidth)])
    BY EmptySeq
  <2>2. e.y_buffer_preload \in Rows(ce_height)
    BY FieldTypes
  <2> QED BY <2>1, <2>2 DEF Sum
<1>6. /\ store.width = WCut(e) /\ store.height = Cut(shape.m, ce_height, e.i)
      /\ sum.y = e.y_buffer_preload /\ sum.terms = <<>> /\ Len(sum.terms) = 0
  BY EmptySeq
<1> HIDE DEF f, store, sum, buffer
<1>7. f \in EngineType
  <2>1. /\ e.i \in Nat /\ e.j \in Nat /\ e.k \in Nat
        /\ e.row \in Blocks /\ e.blocks \in Blocks /\ e.addr \in Blocks
        /\ e.x_buffer \in Rows(ce_height)
        /\ e.w_buffer \in Rows(bandwidth)
        /\ e.z_compute \in Sum /\ e.z_previos \in Sum
        /\ e.stored \in Seq(StoredRow)
    BY DEF EngineType
  <2> QED BY <1>1, <1>3, <1>4, <1>5, <2>1 DEF EngineType
<1>8. Forwarded(f, e)
  BY <1>1, <1>6, <1>7 DEF Forwarded
<1> QED BY <1>8 DEF f

LEMMA BaseType ==
  ASSUME TypeOK, NEW base \in Nat, NEW stride \in Nat \ {0},
         NEW height \in Nat \ {0}, NEW width \in Nat \ {0}, NEW i \in Nat, NEW j \in Nat
  PROVE  calculate_tile_base_address(base, stride, height, width, i, j) \in Nat
<1>1. calculate_tile_base_address(base, stride, height, width, i, j)
        = Location(base, stride, height, width, i * height + 0, j)
  BY TileBase
<1>2. i * height + 0 \in Nat
  OBVIOUS
<1>3. Location(base, stride, height, width, i * height + 0, j) \in Nat
  BY <1>2, LocationType
<1> QED BY <1>1, <1>3

\* Row p is the first row of a tile in row i of tiles.
Begins(base, stride, height, width, i, j, p) ==
  /\ TypeOK /\ base \in Nat /\ stride \in Nat \ {0}
  /\ height \in Nat \ {0} /\ width \in Nat \ {0} /\ i \in Nat /\ j \in Nat
  /\ p = i * height + 0

LEMMA Beginning ==
  ASSUME NEW base, NEW stride, NEW height, NEW width, NEW i, NEW j, NEW p,
         Begins(base, stride, height, width, i, j, p)
  PROVE  /\ calculate_tile_base_address(base, stride, height, width, i, j)
              = Location(base, stride, height, width, p, j)
         /\ calculate_tile_base_address(base, stride, height, width, i, j) \in Nat
<1>1. /\ TypeOK /\ base \in Nat /\ stride \in Nat \ {0}
      /\ height \in Nat \ {0} /\ width \in Nat \ {0} /\ i \in Nat /\ j \in Nat
      /\ p = i * height + 0
  BY DEF Begins
<1> QED BY <1>1, TileBase, BaseType

\* Where the address generators begin in ROUTINE.
LEMMA RoutineAddresses ==
  ASSUME TypeOK, NEW e, InLoop(e)
  PROVE  /\ RoutineAddr(e) \in [Operands -> Nat]
         /\ \A o \in Operands : Planned(e, "ROUTINE")[o] > 0 =>
              RoutineAddr(e)[o] = RowAddress(e, "ROUTINE", o, 0)
<1> DEFINE n == next_iteration(e)
           A == RoutineAddr(e)
           P == Planned(e, "ROUTINE")
           last == n.i = z_col_tiles
           b == Behind(e)
<1>0. /\ e \in EngineType /\ e.i \in Nat /\ e.j \in Nat /\ e.k \in Nat
      /\ e.addr \in [Operands -> Nat] /\ Iteration(e, "ROUTINE")
      /\ "ROUTINE" \in Phases
  BY FieldTypes DEF InLoop, Iteration, Phases
<1>1. /\ ce_height \in Nat \ {0} /\ TileWidth \in Nat \ {0} /\ TileDepth \in Nat \ {0}
      /\ shape.m \in Nat \ {0} /\ shape.n \in Nat \ {0} /\ shape.k \in Nat \ {0}
      /\ x_row_tiles \in Nat \ {0} /\ X \in Nat /\ W \in Nat /\ Y \in Nat
      /\ z_row_tiles \in Nat /\ z_col_tiles \in Nat
  BY Sizes
<1>2. n.i \in Nat /\ n.j \in Nat /\ n.k \in Nat
  BY <1>1, NextIteration
<1>3. StoresPrevious(e) => b[1] \in Nat /\ b[2] \in Nat
  <2>1. ASSUME StoresPrevious(e) PROVE HasPrevious(e, "ROUTINE")
    BY <2>1, <1>0 DEF StoresPrevious, HasPrevious
  <2>2. ASSUME StoresPrevious(e) PROVE b[1] \in 0 .. z_col_tiles - 1 /\ b[2] \in 0 .. z_row_tiles - 1
    BY <2>1, <2>2, <1>0, PreviousFacts
  <2> QED BY <2>2, <1>1
<1> DEFINE AW == calculate_tile_base_address(W, shape.k, TileDepth, TileWidth, e.k, e.j)
           AX == calculate_tile_base_address(X, shape.n, ce_height, TileDepth, n.i, n.k)
           AY == calculate_tile_base_address(Y, shape.k, ce_height, TileWidth, n.i, n.j)
           AZ == calculate_tile_base_address(Y, shape.k, ce_height, TileWidth, b[1], b[2])
<1>4. /\ AW = Location(W, shape.k, TileDepth, TileWidth, e.k * TileDepth + 0, e.j) /\ AW \in Nat
  <2>1. Begins(W, shape.k, TileDepth, TileWidth, e.k, e.j, e.k * TileDepth + 0)
    BY <1>0, <1>1 DEF Begins
  <2> QED BY <2>1, Beginning
<1>5. /\ AX = Location(X, shape.n, ce_height, TileDepth, n.i * ce_height + 0, n.k) /\ AX \in Nat
  <2>1. Begins(X, shape.n, ce_height, TileDepth, n.i, n.k, n.i * ce_height + 0)
    BY <1>1, <1>2 DEF Begins
  <2> QED BY <2>1, Beginning
<1>6. /\ AY = Location(Y, shape.k, ce_height, TileWidth, n.i * ce_height + 0, n.j) /\ AY \in Nat
  <2>1. Begins(Y, shape.k, ce_height, TileWidth, n.i, n.j, n.i * ce_height + 0)
    BY <1>1, <1>2 DEF Begins
  <2> QED BY <2>1, Beginning
<1>7. ASSUME StoresPrevious(e)
      PROVE  /\ AZ = Location(Y, shape.k, ce_height, TileWidth, b[1] * ce_height + 0, b[2])
             /\ AZ \in Nat
  <2>1. Begins(Y, shape.k, ce_height, TileWidth, b[1], b[2], b[1] * ce_height + 0)
    BY <1>1, <1>3, <1>7 DEF Begins
  <2> QED BY <2>1, Beginning
<1>8. /\ A = [o \in Operands |-> A[o]]
      /\ A["w"] = AW
      /\ A["x"] = IF ~last THEN AX ELSE e.addr["x"]
      /\ A["y"] = IF ~last /\ e.k = x_row_tiles - 1 THEN AY ELSE e.addr["y"]
      /\ A["z"] = IF StoresPrevious(e) THEN AZ ELSE e.addr["z"]
  BY DEF RoutineAddr, Operands, Behind
<1>9. /\ P["x"] = IF last THEN 0 ELSE Cut(shape.m, ce_height, n.i)
      /\ P["y"] = IF last \/ e.k + 1 # x_row_tiles THEN 0 ELSE Cut(shape.m, ce_height, n.i)
      /\ P["z"] = IF StoresPrevious(e) THEN e.z_store.height ELSE 0
  BY PlannedRoutine
<1>10. e.k = x_row_tiles - 1 <=> e.k + 1 = x_row_tiles
  BY <1>0, <1>1
<1>11. /\ RowAddress(e, "ROUTINE", "w", 0)
            = Location(W, shape.k, TileDepth, TileWidth, e.k * TileDepth + 0, e.j)
       /\ RowAddress(e, "ROUTINE", "x", 0)
            = Location(X, shape.n, ce_height, TileDepth, n.i * ce_height + 0, n.k)
       /\ RowAddress(e, "ROUTINE", "y", 0)
            = Location(Y, shape.k, ce_height, TileWidth, n.i * ce_height + 0, n.j)
       /\ RowAddress(e, "ROUTINE", "z", 0)
            = Location(Y, shape.k, ce_height, TileWidth, b[1] * ce_height + 0, b[2])
  BY DEF RowAddress, Ahead
<1> HIDE DEF AW, AX, AY, AZ, A, P, n, last, b
<1>12. A["w"] \in Nat /\ A["x"] \in Nat /\ A["y"] \in Nat /\ A["z"] \in Nat
  BY <1>0, <1>4, <1>5, <1>6, <1>7, <1>8 DEF Operands
<1>13. A \in [Operands -> Nat]
  BY <1>8, <1>12 DEF Operands
<1>14. ASSUME NEW o \in Operands, P[o] > 0
       PROVE  A[o] = RowAddress(e, "ROUTINE", o, 0)
  <2>1. CASE o = "w"
    BY <2>1, <1>4, <1>8, <1>11
  <2>2. CASE o = "x"
    BY <2>2, <1>5, <1>8, <1>9, <1>11, <1>14
  <2>3. CASE o = "y"
    BY <2>3, <1>6, <1>8, <1>9, <1>10, <1>11, <1>14
  <2>4. CASE o = "z"
    BY <2>4, <1>7, <1>8, <1>9, <1>11, <1>14
  <2> QED BY <2>1, <2>2, <2>3, <2>4 DEF Operands
<1> QED BY <1>13, <1>14 DEF A, P

\* An iteration begins with all its accesses to come.
LEMMA RoutinePlans ==
  ASSUME TypeOK, NEW e, InLoop(e)
  PROVE  /\ Plans(Routine(e), e, Planned(e, "ROUTINE"), RoutineAddr(e))
         /\ Routine(e) \in EngineType
<1>1. e \in EngineType
  BY DEF InLoop
<1>2. Planned(e, "ROUTINE") = RoutineBlocks(e)
  <2>1. Routine(e).blocks = RoutineBlocks(e)
    BY <1>1, RoutineFields DEF EngineType
  <2> QED BY <2>1 DEF Planned
<1>3. RoutineBlocks(e) \in [Operands -> Nat] /\ RoutineAddr(e) \in [Operands -> Nat]
  BY <1>2, PlannedRoutine, RoutineAddresses
<1>4. Plans([e EXCEPT !.blocks = RoutineBlocks(e), !.addr = RoutineAddr(e)], e,
            RoutineBlocks(e), RoutineAddr(e))
  BY <1>1, <1>3, Planning, Zenon
<1>5. Plans(Routine(e), e, RoutineBlocks(e), RoutineAddr(e))
  BY <1>1, <1>4, RoutineFields
<1> QED BY <1>2, <1>5 DEF Plans

\* The invariant of the engine, but for the counters.
Holds(e, st) ==
  /\ e \in EngineType
  /\ Iteration(e, st)
  /\ IF st = "IDLE" THEN Untouched(e)
     ELSE IF compute_able = 0 THEN Untouched(e) /\ e.stored = <<>>
     ELSE Computes(e, st)

\* Everything of a state is sent, or nothing yet.
Finished(e, st) ==
  \A o \in Operands : e.blocks[o] = 0 /\ Sent(e, st, o) = Planned(e, st)[o]
Begun(e, st) ==
  /\ e.blocks = Planned(e, st)
  /\ \A o \in Operands : e.blocks[o] > 0 => e.addr[o] = RowAddress(e, st, o, 0)

\* The rows that the operation has stored are those of D.
StoredIs(e, D) ==
  /\ Len(e.stored) = Cardinality(D)
  /\ \A rj \in D : \E s \in DOMAIN e.stored : IsResult(e.stored[s], rj[1], rj[2])
  /\ \A s \in DOMAIN e.stored : \E rj \in D : IsResult(e.stored[s], rj[1], rj[2])

\* What an engine has when its iteration begins.
XReady(e, contents) ==
  \A r \in 0 .. ce_height - 1 :
    IF r < (IF e.i = z_col_tiles THEN 0 ELSE Cut(shape.m, ce_height, e.i))
    THEN /\ IsXRow(e.x_buffer[r], e.i * ce_height + r, e.k)
         /\ e.x_buffer[r].under = contents
    ELSE e.x_buffer[r] = NoRow(contents)

PreviousReady(e) ==
  e.i > 0 \/ e.j > 0 =>
    /\ e.z_store.width = Cut(shape.k, TileWidth, Behind(e)[2])
    /\ e.z_store.height = Cut(shape.m, ce_height, Behind(e)[1])
    /\ IsSum(e.z_previos, Behind(e)[1], Behind(e)[2], x_row_tiles)

StoredReady(e) ==
  IF e.k = 0 /\ (e.i > 0 \/ e.j > 0)
  THEN StoredIs(e, AllBefore(Behind(e))) ELSE StoredIs(e, AllBefore(<<e.i, e.j>>))

Ready(e, contents) ==
  /\ e \in EngineType
  /\ e.i \in 0 .. z_col_tiles /\ e.j \in 0 .. z_row_tiles - 1 /\ e.k \in 0 .. x_row_tiles - 1
  /\ e.i = z_col_tiles => e.j = 0 /\ e.k = 0
  /\ \A o \in Operands : e.row[o] = 0
  /\ contents \in {"zero", "garbage"}
  /\ contents = "garbage" => e.i = 0 /\ e.j = 0 /\ e.k = 0
  /\ XReady(e, contents)
  /\ \A d \in 0 .. bandwidth - 1 : e.w_buffer[d] = NoRow(contents)
  /\ e.i # z_col_tiles => IsSum(e.z_compute, e.i, e.j, e.k)
  /\ PreviousReady(e)
  /\ StoredReady(e)

LEMMA ReadyPlanned ==
  ASSUME NEW e, NEW f, NEW blocks, NEW addr, NEW contents,
         Ready(e, contents), Plans(f, e, blocks, addr)
  PROVE  Ready(f, contents)
  BY DEF Ready, Plans, XReady, PreviousReady, StoredReady, StoredIs, Behind

LEMMA BegunFacts ==
  ASSUME TypeOK, NEW st \in Phases, NEW e \in EngineType, Iteration(e, st), Begun(e, st),
         \A o \in Operands : e.row[o] = 0
  PROVE  Addresses(e, st) /\ \A o \in Operands : Sent(e, st, o) = 0
<1>1. Planned(e, st) \in [Operands -> Nat]
  BY PlannedPhase
<1>2. \A o \in Operands : Sent(e, st, o) = 0
  BY <1>1 DEF Begun, Sent
<1> QED BY <1>2 DEF Begun, Addresses

\* ROUTINE begins in step.
LEMMA RoutineStart ==
  ASSUME TypeOK, NEW e, NEW contents, Ready(e, contents), e.i # z_col_tiles,
         Begun(e, "ROUTINE"), compute_able # 0
  PROVE  Holds(e, "ROUTINE")
<1> DEFINE st == "ROUTINE"
<1>1. /\ e \in EngineType /\ e.i \in 0 .. z_col_tiles - 1 /\ e.j \in 0 .. z_row_tiles - 1
      /\ e.k \in 0 .. x_row_tiles - 1
      /\ e.i \in Nat /\ e.j \in Nat /\ e.k \in Nat
      /\ st \in Phases
  BY Sizes DEF Ready, Phases
<1>2. Iteration(e, st) /\ InLoop(e)
  BY <1>1, Sizes DEF Iteration, InLoop
<1>3. Addresses(e, st) /\ \A o \in Operands : Sent(e, st, o) = 0
  BY <1>1, <1>2, BegunFacts DEF Ready
<1>4. Sent(e, st, "w") = 0 /\ Sent(e, st, "y") = 0 /\ Sent(e, st, "z") = 0
  BY <1>3 DEF Operands
<1>5. e.blocks["w"] \in 1 .. bandwidth /\ bandwidth \in Nat
  BY <1>2, PlannedRoutine, Sizes DEF Begun
<1>6. e.blocks["w"] > 0 /\ e.blocks["w"] # 0
  BY <1>5
<1>7. ~Multiplied(e, st) /\ XTile(e, st) = e /\ WLoaded(e, st) = 0
      /\ XLoaded(e, st) = Cut(shape.m, ce_height, e.i)
  BY <1>4, <1>6 DEF Multiplied, XTile, WLoaded, XLoaded
<1>8. Operand(e, st)
  <2>1. contents = "garbage" => Uncleared(e, st)
    BY <1>6 DEF Ready, Uncleared
  <2>2. XBuffer(e, st, contents)
    <3>1. XReady(e, contents)
      BY DEF Ready
    <3> QED BY <3>1, <1>7 DEF XReady, XBuffer
  <2>3. WBuffer(e, st, contents)
    <3>1. \A d \in 0 .. bandwidth - 1 : ~(d < 0)
      BY <1>5
    <3> QED BY <3>1, <1>7 DEF Ready, WBuffer
  <2> QED BY <2>1, <2>2, <2>3 DEF Ready, Operand
<1>9. YBuffer(e, st)
  <2>1. \A r \in 0 .. ce_height - 1 : ~(r < 0)
    OBVIOUS
  <2> QED BY <2>1, <1>4 DEF YBuffer
<1>10. Computed(e, st)
  BY <1>7 DEF Ready, Computed
<1>11. Previous(e, st)
  BY DEF Ready, PreviousReady, Previous, HasPrevious
<1>12. Stored(e, st)
  <2>1. CASE e.k = 0 /\ (e.i > 0 \/ e.j > 0)
    <3>1. HasPrevious(e, st) /\ StoresNow(e, st)
      BY <2>1 DEF HasPrevious, StoresNow
    <3>2. Done(e, st) = AllBefore(Behind(e))
      BY <3>1, <1>1, <1>2, <1>4, DoneStart
    <3>3. StoredIs(e, AllBefore(Behind(e)))
      BY <2>1 DEF Ready, StoredReady
    <3> QED BY <3>2, <3>3 DEF StoredIs, Stored
  <2>2. CASE ~(e.k = 0 /\ (e.i > 0 \/ e.j > 0))
    <3>1. Done(e, st) = AllBefore(<<e.i, e.j>>)
      <4>1. CASE e.k = 0
        <5>1. e.i = 0 /\ e.j = 0
          BY <2>2, <4>1, <1>1
        <5> QED BY <5>1, DoneNone
      <4>2. CASE e.k # 0
        <5>1. ~StoresNow(e, st)
          BY <4>2 DEF StoresNow
        <5> QED BY <5>1, DoneSame
      <4> QED BY <4>1, <4>2
    <3>2. StoredIs(e, AllBefore(<<e.i, e.j>>))
      BY <2>2 DEF Ready, StoredReady
    <3> QED BY <3>1, <3>2 DEF StoredIs, Stored
  <2> QED BY <2>1, <2>2
<1>13. Computes(e, st)
  BY <1>3, <1>8, <1>9, <1>10, <1>11, <1>12 DEF Computes
<1> QED BY <1>1, <1>2, <1>13 DEF Holds

\* STORING begins when the last tile is computed.
LEMMA StoringStart ==
  ASSUME TypeOK, NEW e, Ready(e, "zero"), e.i = z_col_tiles,
         Begun(e, "STORING"), compute_able # 0
  PROVE  Holds(e, "STORING")
<1> DEFINE st == "STORING"
<1>1. /\ e \in EngineType /\ e.i = z_col_tiles /\ e.j = 0 /\ e.k = 0
      /\ e.i \in Nat /\ e.i > 0
      /\ st \in Phases
  BY Sizes DEF Ready, Phases
<1>2. Iteration(e, st)
  BY <1>1 DEF Iteration
<1>3. Addresses(e, st) /\ \A o \in Operands : Sent(e, st, o) = 0
  BY <1>1, <1>2, BegunFacts DEF Ready
<1>4. Sent(e, st, "x") = 0 /\ Sent(e, st, "y") = 0 /\ Sent(e, st, "z") = 0
  BY <1>3 DEF Operands
<1>5. bandwidth \in Nat /\ ce_height \in Nat
  BY Sizes
<1>7. WLoaded(e, st) = 0 /\ XLoaded(e, st) = 0
  BY <1>4 DEF Multiplied, WLoaded, XLoaded
<1>8. Operand(e, st)
  <2>1. XBuffer(e, st, "zero")
    <3>1. XReady(e, "zero")
      BY DEF Ready
    <3>2. \A r \in 0 .. ce_height - 1 : ~(r < 0)
      BY <1>5
    <3>3. \A r \in 0 .. ce_height - 1 : e.x_buffer[r] = NoRow("zero")
      BY <3>1, <3>2, <1>1 DEF XReady
    <3> QED BY <3>2, <3>3, <1>7 DEF XBuffer
  <2>2. WBuffer(e, st, "zero")
    <3>1. \A d \in 0 .. bandwidth - 1 : ~(d < 0)
      BY <1>5
    <3> QED BY <3>1, <1>7 DEF Ready, WBuffer
  <2> QED BY <2>1, <2>2 DEF Operand
<1>9. YBuffer(e, st)
  <2>1. \A r \in 0 .. ce_height - 1 : ~(r < 0)
    BY <1>5
  <2> QED BY <2>1, <1>4 DEF YBuffer
<1>10. Computed(e, st)
  BY DEF Computed
<1>11. Previous(e, st)
  BY <1>1 DEF Ready, PreviousReady, Previous, HasPrevious
<1>12. Stored(e, st)
  <2>1. HasPrevious(e, st) /\ StoresNow(e, st)
    BY DEF HasPrevious, StoresNow
  <2>2. Done(e, st) = AllBefore(Behind(e))
    BY <2>1, <1>1, <1>2, <1>4, DoneStart
  <2>3. StoredIs(e, AllBefore(Behind(e)))
    BY <1>1 DEF Ready, StoredReady
  <2> QED BY <2>2, <2>3 DEF StoredIs, Stored
<1>13. Computes(e, st)
  BY <1>3, <1>8, <1>9, <1>10, <1>11, <1>12 DEF Computes
<1> QED BY <1>1, <1>2, <1>13 DEF Holds

\* When everything of PRELOAD has come, the first operands are there.
LEMMA PreloadReady ==
  ASSUME TypeOK, compute_able # 0, NEW e, Holds(e, "PRELOAD"), Finished(e, "PRELOAD"),
         NEW g, NEW blocks, NEW addr, Plans(g, e, blocks, addr), NEW f, Forwarded(f, g)
  PROVE  \E contents \in {"zero", "garbage"} : Ready(f, contents)
<1> DEFINE st == "PRELOAD"
<1>1. /\ e \in EngineType /\ Iteration(e, st) /\ Computes(e, st)
      /\ e.i = 0 /\ e.j = 0 /\ e.k = 0 /\ st \in Phases
  BY DEF Holds, Iteration, Phases
<1>2. /\ f \in EngineType /\ f.i = 0 /\ f.j = 0 /\ f.k = 0 /\ f.row = e.row
      /\ f.x_buffer = e.x_buffer /\ f.w_buffer = e.w_buffer
      /\ f.z_compute.y = e.y_buffer_preload /\ Len(f.z_compute.terms) = 0
      /\ f.stored = e.stored
  BY <1>1 DEF Plans, Forwarded
<1>3. /\ x_row_tiles \in Nat \ {0} /\ z_row_tiles \in Nat \ {0} /\ z_col_tiles \in Nat \ {0}
      /\ bandwidth \in Nat /\ ce_height \in Nat
  BY Sizes
<1>4. /\ Sent(e, st, "y") = Cut(shape.m, ce_height, 0)
      /\ Sent(e, st, "x") = Cut(shape.m, ce_height, 0)
  BY <1>1, PlannedPhase DEF Finished, Operands
<1>5. PICK contents \in {"zero", "garbage"} : XBuffer(e, st, contents) /\ WBuffer(e, st, contents)
  BY <1>1 DEF Computes, Operand
<1>6. XReady(f, contents)
  <2>1. /\ XLoaded(e, st) = Cut(shape.m, ce_height, 0)
        /\ XTile(e, st) = e
    BY <1>4 DEF XLoaded, XTile, Multiplied, Ahead
  <2>2. f.i # z_col_tiles
    BY <1>2, <1>3
  <2> QED BY <2>1, <2>2, <1>1, <1>2, <1>5 DEF XBuffer, XReady
<1>7. \A d \in 0 .. bandwidth - 1 : f.w_buffer[d] = NoRow(contents)
  <2>1. WLoaded(e, st) = 0
    BY DEF WLoaded, Multiplied
  <2>2. \A d \in 0 .. bandwidth - 1 : ~(d < 0)
    BY <1>3
  <2> QED BY <2>1, <2>2, <1>2, <1>5 DEF WBuffer
<1>8. \A o \in Operands : f.row[o] = 0
  BY <1>1, <1>2 DEF Computes, Addresses, Finished
<1>9. IsSum(f.z_compute, f.i, f.j, f.k)
  <2>1. Cut(shape.m, ce_height, 0) \in 1 .. ce_height
    <3>1. shape.m \in Nat \ {0} /\ ce_height \in Nat \ {0} /\ 0 \in 0 .. z_col_tiles - 1
      BY <1>3, Sizes
    <3> QED BY <3>1, TilesFacts DEF z_col_tiles
  <2>2. ASSUME NEW r \in 0 .. Cut(shape.m, ce_height, 0) - 1
        PROVE  IsYRow(f.z_compute.y[r], 0 * ce_height + r, 0)
    <3>1. r \in 0 .. ce_height - 1 /\ r < Sent(e, st, "y")
      BY <2>1, <1>3, <1>4
    <3>2. IsYRow(e.y_buffer_preload[r], Ahead(e, st).i * ce_height + r, Ahead(e, st).j)
      BY <3>1, <1>1 DEF Computes, YBuffer
    <3>3. Ahead(e, st).i = 0 /\ Ahead(e, st).j = 0
      BY <1>1 DEF Ahead
    <3> QED BY <3>2, <3>3, <1>2
  <2>3. \A t \in 0 .. 0 - 1 : FALSE
    OBVIOUS
  <2> QED BY <2>2, <2>3, <1>2 DEF IsSum
<1>10. PreviousReady(f)
  BY <1>2 DEF PreviousReady
<1>11. StoredReady(f)
  <2>1. Done(e, st) = {} /\ AllBefore(<<f.i, f.j>>) = {}
    BY <1>1, <1>2, DoneNone
  <2>2. Stored(e, st)
    BY <1>1 DEF Computes
  <2>3. StoredIs(f, {})
    BY <2>1, <2>2, <1>2 DEF Stored, StoredIs
  <2>4. ~(f.i > 0 \/ f.j > 0) /\ StoredIs(f, AllBefore(<<f.i, f.j>>))
    <3>1. ~(f.i > 0 \/ f.j > 0)
      BY <1>2
    <3> QED BY <3>1, <2>1, <2>3, Zenon
  <2> QED BY <2>4, Zenon DEF StoredReady
<1>12. /\ f.i \in 0 .. z_col_tiles /\ f.j \in 0 .. z_row_tiles - 1 /\ f.k \in 0 .. x_row_tiles - 1
       /\ f.i # z_col_tiles
  BY <1>2, <1>3
<1>13. Ready(f, contents)
  BY <1>2, <1>6, <1>7, <1>8, <1>9, <1>10, <1>11, <1>12 DEF Ready
<1> QED BY <1>13

\* When everything of an iteration has come, the operands of the next are there.
LEMMA RoutineReady ==
  ASSUME TypeOK, compute_able # 0, NEW e, Holds(e, "ROUTINE"), Finished(e, "ROUTINE"),
         NEW n, n = next_iteration(IF e.k + 1 = x_row_tiles THEN ForwardYZ(e) ELSE e)
  PROVE  Ready(n, "zero")
<1> DEFINE st == "ROUTINE"
           g == IF e.k + 1 = x_row_tiles THEN ForwardYZ(e) ELSE e
           a == next_iteration(e)
<1>1. /\ e \in EngineType /\ Iteration(e, st) /\ Computes(e, st) /\ InLoop(e)
      /\ st \in Phases
      /\ e.i \in 0 .. z_col_tiles - 1 /\ e.j \in 0 .. z_row_tiles - 1
      /\ e.k \in 0 .. x_row_tiles - 1
      /\ e.i \in Nat /\ e.j \in Nat /\ e.k \in Nat
  <2>1. e \in EngineType /\ Iteration(e, st) /\ Computes(e, st) /\ st \in Phases
    BY DEF Holds, Phases
  <2>2. InLoop(e)
    BY <2>1 DEF Iteration, InLoop
  <2>3. e.i \in Nat /\ e.j \in Nat /\ e.k \in Nat
    BY <2>1, FieldTypes
  <2>4. x_row_tiles \in Nat /\ z_row_tiles \in Nat /\ z_col_tiles \in Nat
    BY Sizes
  <2> QED BY <2>1, <2>2, <2>3, <2>4 DEF InLoop
<1>2. /\ x_row_tiles \in Nat \ {0} /\ z_row_tiles \in Nat \ {0} /\ z_col_tiles \in Nat \ {0}
      /\ bandwidth \in Nat /\ ce_height \in Nat \ {0} /\ shape.m \in Nat \ {0}
  BY Sizes
<1>3. /\ g \in EngineType /\ InLoop(g) /\ g.i = e.i /\ g.j = e.j /\ g.k = e.k
      /\ g.row = e.row /\ g.x_buffer = e.x_buffer /\ g.w_buffer = e.w_buffer
      /\ g.stored = e.stored
      /\ e.k + 1 = x_row_tiles => Forwarded(g, e)
      /\ e.k + 1 # x_row_tiles => g = e
  <2>1. CASE e.k + 1 = x_row_tiles
    <3>1. Forwarded(g, e)
      BY <2>1, <1>1, Forwarding
    <3> HIDE DEF g
    <3> QED BY <2>1, <3>1, <1>1 DEF Forwarded, InLoop
  <2>2. CASE e.k + 1 # x_row_tiles
    BY <2>2, <1>1
  <2> QED BY <2>1, <2>2
<1> HIDE DEF g
<1>4. /\ n \in EngineType
      /\ n.i \in 0 .. z_col_tiles /\ n.j \in 0 .. z_row_tiles - 1
      /\ n.k \in 0 .. x_row_tiles - 1
      /\ e.k + 1 < x_row_tiles => n.i = e.i /\ n.j = e.j /\ n.k = e.k + 1
      /\ e.k + 1 = x_row_tiles /\ e.j + 1 < z_row_tiles =>
           n.i = e.i /\ n.j = e.j + 1 /\ n.k = 0
      /\ e.k + 1 = x_row_tiles /\ e.j + 1 = z_row_tiles =>
           n.i = e.i + 1 /\ n.j = 0 /\ n.k = 0
      /\ n.row = e.row /\ n.z_store = g.z_store
      /\ n.x_buffer = e.x_buffer /\ n.w_buffer = e.w_buffer
      /\ n.z_compute = g.z_compute /\ n.z_previos = g.z_previos /\ n.stored = e.stored
  <2>1. n = next_iteration(g)
    BY DEF g
  <2> QED BY <2>1, <1>3, NextIteration
<1>5. /\ a.i = n.i /\ a.j = n.j /\ a.k = n.k /\ Ahead(e, st) = a
  <2>1. /\ e.k + 1 < x_row_tiles => a.i = e.i /\ a.j = e.j /\ a.k = e.k + 1
        /\ e.k + 1 = x_row_tiles /\ e.j + 1 < z_row_tiles =>
             a.i = e.i /\ a.j = e.j + 1 /\ a.k = 0
        /\ e.k + 1 = x_row_tiles /\ e.j + 1 = z_row_tiles =>
             a.i = e.i + 1 /\ a.j = 0 /\ a.k = 0
    BY <1>1, NextIteration
  <2>2. Ahead(e, st) = a
    BY DEF Ahead
  <2> HIDE DEF a
  <2> QED BY <2>1, <2>2, <1>1, <1>2, <1>4
<1>6. n.i = z_col_tiles => n.j = 0 /\ n.k = 0
  BY <1>1, <1>2, <1>4
<1>7. /\ Sent(e, st, "x") = IF n.i = z_col_tiles THEN 0 ELSE Cut(shape.m, ce_height, n.i)
      /\ e.k + 1 = x_row_tiles /\ n.i # z_col_tiles =>
           Sent(e, st, "y") = Cut(shape.m, ce_height, n.i)
      /\ e.blocks["w"] = 0
  <2>1. /\ Planned(e, st)["x"] =
             IF a.i = z_col_tiles THEN 0 ELSE Cut(shape.m, ce_height, a.i)
        /\ Planned(e, st)["y"] = IF a.i = z_col_tiles \/ e.k + 1 # x_row_tiles THEN 0
                                 ELSE Cut(shape.m, ce_height, a.i)
    BY <1>1, PlannedRoutine
  <2> QED BY <2>1, <1>5 DEF Finished, Operands
<1>8. Multiplied(e, st) /\ ~Uncleared(e, st)
  <2>1. ~(e.blocks["w"] > 0)
    BY <1>7
  <2> QED BY <2>1, <1>7 DEF Multiplied, Uncleared
<1>9. XBuffer(e, st, "zero") /\ WBuffer(e, st, "zero")
  BY <1>1, <1>8 DEF Computes, Operand
<1> HIDE DEF a
<1>10. XReady(n, "zero")
  <2>1. XTile(e, st) = a /\ XLoaded(e, st) = Sent(e, st, "x")
    BY <1>5, <1>8 DEF XTile, XLoaded
  <2> QED BY <2>1, <1>4, <1>5, <1>7, <1>9 DEF XBuffer, XReady
<1>11. \A d \in 0 .. bandwidth - 1 : n.w_buffer[d] = NoRow("zero")
  <2>1. WLoaded(e, st) = 0
    BY <1>8 DEF WLoaded
  <2>2. \A d \in 0 .. bandwidth - 1 : ~(d < 0)
    BY <1>2
  <2> QED BY <2>1, <2>2, <1>4, <1>9 DEF WBuffer
<1>12. \A o \in Operands : n.row[o] = 0
  BY <1>1, <1>4 DEF Computes, Addresses, Finished
<1>13. IsSum(e.z_compute, e.i, e.j, e.k + 1)
  BY <1>1, <1>8 DEF Computes, Computed
<1>14. Done(e, st) = AllBefore(<<e.i, e.j>>) /\ Stored(e, st)
  BY <1>1, CompleteStored DEF Computes, Finished
<1>15. CASE e.k + 1 # x_row_tiles
  <2>1. /\ n.i = e.i /\ n.j = e.j /\ n.k = e.k + 1 /\ n.i # z_col_tiles /\ n.k # 0
        /\ n.z_compute = e.z_compute /\ n.z_previos = e.z_previos /\ n.z_store = e.z_store
    BY <1>15, <1>1, <1>2, <1>3, <1>4
  <2>2. PreviousReady(n)
    BY <2>1, <1>1 DEF Computes, Previous, HasPrevious, PreviousReady, Behind
  <2>3. StoredReady(n)
    <3>1. Done(e, st) = AllBefore(<<n.i, n.j>>) /\ n.stored = e.stored
      BY <2>1, <1>4, <1>14
    <3>2. StoredIs(n, AllBefore(<<n.i, n.j>>))
      BY <3>1, <1>14, Zenon DEF StoredIs, Stored
    <3> QED BY <3>2, <2>1, Zenon DEF StoredReady
  <2> QED BY <2>1, <2>2, <2>3, <1>4, <1>6, <1>10, <1>11, <1>12, <1>13 DEF Ready
<1>16. CASE e.k + 1 = x_row_tiles
  <2>1. Forwarded(g, e) /\ n.k = 0
    BY <1>16, <1>1, <1>2, <1>3, <1>4
  <2>2. /\ n.z_compute.y = e.y_buffer_preload /\ Len(n.z_compute.terms) = 0
        /\ n.z_previos = e.z_compute
        /\ n.z_store.width = Cut(shape.k, TileWidth, e.j)
        /\ n.z_store.height = Cut(shape.m, ce_height, e.i)
    BY <2>1, <1>4 DEF Forwarded, WCut
  <2>3. Behind(n) = <<e.i, e.j>>
    <3>1. CASE e.j + 1 = z_row_tiles
      <4>1. n.i = e.i + 1 /\ n.j = 0
        BY <3>1, <1>4, <1>16
      <4>2. n.i - 1 = e.i /\ z_row_tiles - 1 = e.j
        BY <3>1, <4>1, <1>1, <1>2
      <4> QED BY <4>1, <4>2 DEF Behind, PreviousTile
    <3>2. CASE e.j + 1 # z_row_tiles
      <4>1. n.i = e.i /\ n.j = e.j + 1
        BY <3>2, <1>1, <1>2, <1>4, <1>16
      <4>2. n.j # 0 /\ n.j - 1 = e.j
        BY <4>1, <1>1
      <4> QED BY <4>1, <4>2 DEF Behind, PreviousTile
    <3> QED BY <3>1, <3>2
  <2>4. n.i > 0 \/ n.j > 0
    BY <1>1, <1>2, <1>4, <1>16
  <2>5. n.i # z_col_tiles => IsSum(n.z_compute, n.i, n.j, n.k)
    <3>1. ASSUME n.i # z_col_tiles, NEW r \in 0 .. Cut(shape.m, ce_height, n.i) - 1
          PROVE  IsYRow(n.z_compute.y[r], n.i * ce_height + r, n.j)
      <4>1. Cut(shape.m, ce_height, n.i) \in 1 .. ce_height
        <5>1. n.i \in 0 .. z_col_tiles - 1
          BY <3>1, <1>2, <1>4
        <5> QED BY <5>1, <1>2, TilesFacts DEF z_col_tiles
      <4>2. r \in 0 .. ce_height - 1 /\ r < Sent(e, st, "y")
        BY <4>1, <3>1, <1>2, <1>7, <1>16
      <4>3. IsYRow(e.y_buffer_preload[r], Ahead(e, st).i * ce_height + r, Ahead(e, st).j)
        BY <4>2, <1>1 DEF Computes, YBuffer
      <4> QED BY <4>3, <1>5, <2>2
    <3>2. \A t \in 0 .. 0 - 1 : FALSE
      OBVIOUS
    <3> QED BY <3>1, <3>2, <2>1, <2>2 DEF IsSum
  <2>6. PreviousReady(n)
    <3>1. Behind(n)[1] = e.i /\ Behind(n)[2] = e.j
      BY <2>3
    <3> QED BY <3>1, <2>2, <1>13, <1>16 DEF PreviousReady
  <2>7. StoredReady(n)
    <3>1. StoredIs(n, AllBefore(Behind(n)))
      BY <2>3, <1>4, <1>14 DEF StoredIs, Stored
    <3> QED BY <3>1, <2>1, <2>4 DEF StoredReady
  <2> QED BY <2>5, <2>6, <2>7, <1>4, <1>6, <1>10, <1>11, <1>12 DEF Ready
<1> QED BY <1>15, <1>16

\* What an iteration sends depends on its indices, and on the tile to store.
LEMMA SameRoutine ==
  ASSUME NEW e \in EngineType, NEW f \in EngineType,
         f.i = e.i, f.j = e.j, f.k = e.k, StoresPrevious(e) => f.z_store = e.z_store
  PROVE  /\ Planned(f, "ROUTINE") = Planned(e, "ROUTINE")
         /\ \A o \in Operands : RowAddress(f, "ROUTINE", o, 0) = RowAddress(e, "ROUTINE", o, 0)
<1>1. /\ next_iteration(f).i = next_iteration(e).i
      /\ next_iteration(f).j = next_iteration(e).j
      /\ next_iteration(f).k = next_iteration(e).k
  BY DEF next_iteration, EngineType
<1>2. Planned(f, "ROUTINE") = RoutineBlocks(f) /\ Planned(e, "ROUTINE") = RoutineBlocks(e)
  BY RoutineFields DEF Planned, EngineType
<1>3. /\ WRows(f.k) = WRows(e.k) /\ (StoresPrevious(f) <=> StoresPrevious(e))
      /\ StoresPrevious(e) => f.z_store.height = e.z_store.height
  BY DEF StoresPrevious
<1>4. RoutineBlocks(f) = RoutineBlocks(e)
  BY <1>1, <1>3 DEF RoutineBlocks
<1>5. \A o \in Operands : RowAddress(f, "ROUTINE", o, 0) = RowAddress(e, "ROUTINE", o, 0)
  BY <1>1 DEF RowAddress, Ahead, Behind
<1> QED BY <1>2, <1>4, <1>5

LEMMA RoutineBegun ==
  ASSUME TypeOK, NEW e, InLoop(e), NEW f, f = Routine(e)
  PROVE  Begun(f, "ROUTINE") /\ f \in EngineType /\ Plans(f, e, f.blocks, f.addr)
<1>1. Plans(f, e, Planned(e, "ROUTINE"), RoutineAddr(e)) /\ f \in EngineType
  BY RoutinePlans
<1>2. /\ f.blocks = Planned(e, "ROUTINE") /\ f.addr = RoutineAddr(e)
      /\ f.i = e.i /\ f.j = e.j /\ f.k = e.k /\ f.z_store = e.z_store
      /\ e \in EngineType
  BY <1>1 DEF Plans, InLoop
<1>3. /\ Planned(f, "ROUTINE") = Planned(e, "ROUTINE")
      /\ \A o \in Operands : RowAddress(f, "ROUTINE", o, 0) = RowAddress(e, "ROUTINE", o, 0)
  BY <1>1, <1>2, SameRoutine
<1>4. \A o \in Operands : f.blocks[o] > 0 => f.addr[o] = RowAddress(f, "ROUTINE", o, 0)
  BY <1>2, <1>3, RoutineAddresses
<1>5. Plans(f, e, f.blocks, f.addr)
  BY <1>1, <1>2
<1> QED BY <1>1, <1>2, <1>3, <1>4, <1>5 DEF Begun

LEMMA StoringBegun ==
  ASSUME TypeOK, NEW e \in EngineType, e.i = z_col_tiles, e.j = 0, e.k = 0,
         NEW f, f = Storing(e)
  PROVE  Begun(f, "STORING") /\ f \in EngineType /\ Plans(f, e, f.blocks, f.addr)
<1> DEFINE blocks == [NoBlocks EXCEPT !["z"] = e.z_store.height]
           base == calculate_tile_base_address(Y, shape.k, ce_height, TileWidth,
                                               z_col_tiles - 1, z_row_tiles - 1)
           addr == [e.addr EXCEPT !["z"] = base]
<1>1. /\ ce_height \in Nat \ {0} /\ TileWidth \in Nat \ {0} /\ shape.k \in Nat \ {0}
      /\ Y \in Nat /\ z_row_tiles \in Nat \ {0} /\ z_col_tiles \in Nat \ {0}
      /\ e.addr \in [Operands -> Nat] /\ e.z_store.height \in 0 .. ce_height
  BY Sizes, FieldTypes
<1>2. /\ base = Location(Y, shape.k, ce_height, TileWidth,
                         (z_col_tiles - 1) * ce_height + 0, z_row_tiles - 1)
      /\ base \in Nat
  <2>1. Begins(Y, shape.k, ce_height, TileWidth, z_col_tiles - 1, z_row_tiles - 1,
               (z_col_tiles - 1) * ce_height + 0)
    BY <1>1 DEF Begins
  <2> QED BY <2>1, Beginning
<1>3. /\ blocks \in [Operands -> Nat] /\ blocks["z"] = e.z_store.height
      /\ \A o \in Operands : o # "z" => blocks[o] = 0
  BY <1>1 DEF NoBlocks, Operands
<1>4. addr \in [Operands -> Nat] /\ addr["z"] = base
  <2> HIDE DEF base
  <2> QED BY <1>1, <1>2 DEF Operands
<1>5. f = [e EXCEPT !.blocks = blocks, !.addr = addr]
  <2>1. f = [e EXCEPT !.blocks = blocks, !.addr["z"] = base]
    BY DEF Storing
  <2>2. [e EXCEPT !.blocks = blocks, !.addr["z"] = base]
          = [e EXCEPT !.blocks = blocks, !.addr = addr]
    <3>1. e = Engine(e, e.y_buffer_preload, e.x_buffer, e.w_buffer, e.z_compute, e.stored)
      BY DEF Engine, EngineType
    <3>2. [e EXCEPT !.blocks = blocks, !.addr["z"] = base]
            = [[e EXCEPT !.blocks = blocks] EXCEPT !.addr = [@ EXCEPT !["z"] = base]]
      OBVIOUS
    <3>3. [e EXCEPT !.blocks = blocks].addr = e.addr
      BY DEF EngineType
    <3> QED BY <3>2, <3>3
  <2> QED BY <2>1, <2>2
<1> HIDE DEF blocks, base, addr
<1>6. Plans(f, e, blocks, addr)
  <2>1. Plans([e EXCEPT !.blocks = blocks, !.addr = addr], e, blocks, addr)
    BY <1>3, <1>4, Planning, Zenon
  <2> QED BY <2>1, <1>5
<1>7. /\ f \in EngineType /\ f.blocks = blocks /\ f.addr = addr
      /\ f.i = e.i /\ f.j = e.j /\ f.k = e.k /\ f.z_store = e.z_store
  BY <1>6 DEF Plans
<1>8. Planned(f, "STORING") = blocks
  <2>1. Planned(f, "STORING") = [NoBlocks EXCEPT !["z"] = f.z_store.height]
    BY <1>7 DEF Planned, Storing, EngineType
  <2> QED BY <2>1, <1>7 DEF blocks
<1>9. RowAddress(f, "STORING", "z", 0) = base
  <2>1. Behind(f) = <<z_col_tiles - 1, z_row_tiles - 1>>
    BY <1>7 DEF Behind, PreviousTile
  <2> QED BY <2>1, <1>2 DEF RowAddress
<1>10. \A o \in Operands : f.blocks[o] > 0 => f.addr[o] = RowAddress(f, "STORING", o, 0)
  BY <1>3, <1>4, <1>7, <1>9
<1> QED BY <1>6, <1>7, <1>8, <1>10 DEF Begun

-----------------------------------------------------------------------------
(* From one state to the next. *)

\* From PRELOAD to the first iteration.
LEMMA PreloadToRoutine ==
  ASSUME TypeOK, NEW e, Holds(e, "PRELOAD"), Finished(e, "PRELOAD"),
         NEW f, f = IF compute_able # 0 THEN ForwardYZ(Routine(e)) ELSE Routine(e)
  PROVE  Holds(f, "ROUTINE") /\ f.blocks = Planned(f, "ROUTINE")
<1> DEFINE g == Routine(e)
<1>1. /\ e \in EngineType /\ e.i = 0 /\ e.j = 0 /\ e.k = 0
  BY DEF Holds, Iteration
<1>2. x_row_tiles \in Nat \ {0} /\ z_row_tiles \in Nat \ {0} /\ z_col_tiles \in Nat \ {0}
  BY Sizes
<1>3. InLoop(e)
  BY <1>1, <1>2 DEF InLoop
<1>4. Begun(g, "ROUTINE") /\ g \in EngineType /\ Plans(g, e, g.blocks, g.addr)
  BY <1>3, RoutineBegun
<1> HIDE DEF g
<1>5. /\ g.i = 0 /\ g.j = 0 /\ g.k = 0 /\ g.z_store = e.z_store
      /\ g.x_buffer = e.x_buffer /\ g.w_buffer = e.w_buffer /\ g.stored = e.stored
  BY <1>1, <1>4 DEF Plans
<1>6. CASE compute_able = 0
  <2>1. f = g /\ g.blocks = Planned(g, "ROUTINE")
    BY <1>4, <1>6 DEF g, Begun
  <2>2. Untouched(g) /\ g.stored = <<>>
    BY <1>5, <1>6 DEF Holds, Untouched
  <2>3. Iteration(g, "ROUTINE")
    BY <1>2, <1>5 DEF Iteration
  <2> QED BY <2>1, <2>2, <2>3, <1>4, <1>6 DEF Holds
<1>7. CASE compute_able # 0
  <2>1. Forwarded(f, g)
    <3>1. f = ForwardYZ(g)
      BY <1>7 DEF g
    <3>2. g.i \in 0 .. z_col_tiles - 1 /\ g.j \in 0 .. z_row_tiles - 1
      BY <1>2, <1>5
    <3> QED BY <3>1, <3>2, <1>4, Forwarding
  <2>2. /\ f \in EngineType /\ f.i = g.i /\ f.j = g.j /\ f.k = g.k
        /\ f.blocks = g.blocks /\ f.addr = g.addr
    BY <2>1 DEF Forwarded
  <2>3. Begun(f, "ROUTINE")
    <3>1. ~StoresPrevious(g)
      BY <1>5 DEF StoresPrevious
    <3> QED BY <3>1, <2>2, <1>4, SameRoutine DEF Begun
  <2>4. PICK contents \in {"zero", "garbage"} : Ready(f, contents)
    BY <2>1, <1>4, <1>7, PreloadReady
  <2>5. f.i # z_col_tiles
    BY <2>2, <1>2, <1>5
  <2>6. Holds(f, "ROUTINE")
    BY <2>3, <2>4, <2>5, <1>7, RoutineStart
  <2> QED BY <2>3, <2>6 DEF Begun
<1> QED BY <1>6, <1>7

\* The engine after an iteration, before it has planned what is next.
LEMMA IterationEnds ==
  ASSUME TypeOK, NEW e, Holds(e, "ROUTINE"), Finished(e, "ROUTINE"),
         NEW n, n = next_iteration(IF compute_able # 0 /\ e.k + 1 = x_row_tiles
                                   THEN ForwardYZ(e) ELSE e)
  PROVE  /\ n \in EngineType
         /\ n.i \in 0 .. z_col_tiles /\ n.j \in 0 .. z_row_tiles - 1
         /\ n.k \in 0 .. x_row_tiles - 1
         /\ n.i = z_col_tiles => n.j = 0 /\ n.k = 0
         /\ compute_able = 0 => Untouched(n) /\ n.stored = <<>>
         /\ compute_able # 0 => Ready(n, "zero")
<1>1. InLoop(e) /\ e.i \in Nat /\ e.j \in Nat /\ e.k \in Nat
  BY FieldTypes DEF Holds, Iteration, InLoop
<1>2. /\ x_row_tiles \in Nat \ {0} /\ z_row_tiles \in Nat \ {0} /\ z_col_tiles \in Nat \ {0}
  BY Sizes
<1>3. CASE compute_able = 0
  <2>1. n = next_iteration(e)
    BY <1>3
  <2>2. /\ n \in EngineType
        /\ n.i \in 0 .. z_col_tiles /\ n.j \in 0 .. z_row_tiles - 1
        /\ n.k \in 0 .. x_row_tiles - 1
        /\ e.k + 1 < x_row_tiles => n.i = e.i /\ n.j = e.j /\ n.k = e.k + 1
        /\ e.k + 1 = x_row_tiles /\ e.j + 1 < z_row_tiles =>
             n.i = e.i /\ n.j = e.j + 1 /\ n.k = 0
        /\ e.k + 1 = x_row_tiles /\ e.j + 1 = z_row_tiles =>
             n.i = e.i + 1 /\ n.j = 0 /\ n.k = 0
        /\ n.x_buffer = e.x_buffer /\ n.w_buffer = e.w_buffer /\ n.stored = e.stored
    BY <2>1, <1>1, NextIteration
  <2>3. n.i = z_col_tiles => n.j = 0 /\ n.k = 0
    BY <2>2, <1>1, <1>2 DEF InLoop
  <2>4. Untouched(n) /\ n.stored = <<>>
    BY <2>2, <1>3 DEF Holds, Untouched
  <2> QED BY <2>2, <2>3, <2>4, <1>3
<1>4. CASE compute_able # 0
  <2>1. n = next_iteration(IF e.k + 1 = x_row_tiles THEN ForwardYZ(e) ELSE e)
    BY <1>4
  <2>2. Ready(n, "zero")
    BY <2>1, <1>4, RoutineReady
  <2> QED BY <2>2, <1>4 DEF Ready
<1> QED BY <1>3, <1>4

\* From one iteration to the next.
LEMMA RoutineToRoutine ==
  ASSUME TypeOK, NEW e, Holds(e, "ROUTINE"), Finished(e, "ROUTINE"),
         NEW n, n = next_iteration(IF compute_able # 0 /\ e.k + 1 = x_row_tiles
                                   THEN ForwardYZ(e) ELSE e),
         n.i # z_col_tiles, NEW f, f = Routine(n)
  PROVE  Holds(f, "ROUTINE") /\ f.blocks = Planned(f, "ROUTINE")
<1>1. /\ n \in EngineType
      /\ n.i \in 0 .. z_col_tiles /\ n.j \in 0 .. z_row_tiles - 1
      /\ n.k \in 0 .. x_row_tiles - 1
      /\ compute_able = 0 => Untouched(n) /\ n.stored = <<>>
      /\ compute_able # 0 => Ready(n, "zero")
  BY IterationEnds
<1>2. /\ x_row_tiles \in Nat \ {0} /\ z_row_tiles \in Nat \ {0} /\ z_col_tiles \in Nat \ {0}
  BY Sizes
<1>3. InLoop(n)
  BY <1>1, <1>2 DEF InLoop
<1>4. Begun(f, "ROUTINE") /\ f \in EngineType /\ Plans(f, n, f.blocks, f.addr)
  BY <1>3, RoutineBegun
<1>5. /\ f.i = n.i /\ f.j = n.j /\ f.k = n.k
      /\ f.x_buffer = n.x_buffer /\ f.w_buffer = n.w_buffer /\ f.stored = n.stored
  BY <1>4 DEF Plans
<1>6. CASE compute_able = 0
  <2>1. Untouched(f) /\ f.stored = <<>>
    BY <1>1, <1>5, <1>6 DEF Untouched
  <2>2. Iteration(f, "ROUTINE")
    BY <1>3, <1>5 DEF Iteration, InLoop
  <2> QED BY <2>1, <2>2, <1>4, <1>6 DEF Holds, Begun
<1>7. CASE compute_able # 0
  <2>1. Ready(f, "zero")
    BY <1>1, <1>4, <1>7, ReadyPlanned
  <2>2. Holds(f, "ROUTINE")
    BY <2>1, <1>4, <1>5, <1>7, RoutineStart
  <2> QED BY <2>2, <1>4 DEF Begun
<1> QED BY <1>6, <1>7

\* From the last iteration to the last tile's stores.
LEMMA RoutineToStoring ==
  ASSUME TypeOK, NEW e, Holds(e, "ROUTINE"), Finished(e, "ROUTINE"),
         NEW n, n = next_iteration(IF compute_able # 0 /\ e.k + 1 = x_row_tiles
                                   THEN ForwardYZ(e) ELSE e),
         n.i = z_col_tiles, NEW f, f = Storing(n)
  PROVE  Holds(f, "STORING") /\ f.blocks = Planned(f, "STORING")
<1>1. /\ n \in EngineType /\ n.j = 0 /\ n.k = 0
      /\ compute_able = 0 => Untouched(n) /\ n.stored = <<>>
      /\ compute_able # 0 => Ready(n, "zero")
  BY IterationEnds
<1>4. Begun(f, "STORING") /\ f \in EngineType /\ Plans(f, n, f.blocks, f.addr)
  BY <1>1, StoringBegun
<1>5. /\ f.i = n.i /\ f.j = n.j /\ f.k = n.k
      /\ f.x_buffer = n.x_buffer /\ f.w_buffer = n.w_buffer /\ f.stored = n.stored
  BY <1>4 DEF Plans
<1>6. CASE compute_able = 0
  <2>1. Untouched(f) /\ f.stored = <<>>
    BY <1>1, <1>5, <1>6 DEF Untouched
  <2>2. Iteration(f, "STORING")
    BY <1>1, <1>5 DEF Iteration
  <2> QED BY <2>1, <2>2, <1>4, <1>6 DEF Holds, Begun
<1>7. CASE compute_able # 0
  <2>1. Ready(f, "zero")
    BY <1>1, <1>4, <1>7, ReadyPlanned
  <2>2. Holds(f, "STORING")
    BY <2>1, <1>4, <1>5, <1>7, StoringStart
  <2> QED BY <2>2, <1>4 DEF Begun
<1> QED BY <1>6, <1>7

\* The whole result is stored.
LEMMA StoringToFinished ==
  ASSUME TypeOK, NEW e, Holds(e, "STORING"), Finished(e, "STORING")
  PROVE  Holds(e, "FINISHED") /\ \A o \in Operands : e.blocks[o] = 0
<1> DEFINE st == "STORING"
           next == "FINISHED"
<1>1. /\ e \in EngineType /\ Iteration(e, st) /\ Iteration(e, next) /\ st \in Phases
      /\ \A o \in Operands : e.blocks[o] = 0
  BY DEF Holds, Iteration, Phases, Finished
<1>2. CASE compute_able = 0
  BY <1>1, <1>2 DEF Holds
<1>3. CASE compute_able # 0
  <2>1. Computes(e, st)
    BY <1>3 DEF Holds
  <2>2. \A o \in Operands : Sent(e, next, o) = 0
    BY <1>1 DEF Sent, Planned, NoBlocks
  <2>3. Sent(e, next, "x") = 0 /\ Sent(e, next, "y") = 0 /\ Sent(e, st, "x") = 0
    BY <2>2, <1>1, PlannedPhase DEF Operands, Finished
  <2>4. Addresses(e, next)
    <3>1. \A o \in Operands : e.row[o] = 0 /\ ~(e.blocks[o] > 0)
      BY <2>1, <1>1 DEF Computes, Addresses
    <3> QED BY <3>1, <1>1 DEF Addresses
  <2>5. Operand(e, next)
    <3>1. /\ XLoaded(e, st) = 0 /\ WLoaded(e, st) = 0 /\ XLoaded(e, next) = 0
          /\ WLoaded(e, next) = 0 /\ XTile(e, st) = XTile(e, next)
          /\ ~Uncleared(e, st)
      BY <2>3 DEF XLoaded, WLoaded, Multiplied, XTile, Ahead, Uncleared
    <3> QED BY <3>1, <2>1 DEF Computes, Operand, XBuffer, WBuffer
  <2>6. YBuffer(e, next)
    <3>1. \A r \in 0 .. ce_height - 1 : ~(r < 0)
      BY Sizes
    <3> QED BY <3>1, <2>3 DEF YBuffer
  <2>7. Computed(e, next) /\ Previous(e, next)
    BY DEF Computed, Previous, HasPrevious
  <2>8. Stored(e, next)
    <3>1. Done(e, st) = AllBefore(<<e.i, e.j>>)
      BY <2>1, <1>1, CompleteStored DEF Computes, Finished
    <3>2. Done(e, next) = AllBefore(<<e.i, e.j>>)
      <4>1. ~StoresNow(e, next)
        BY DEF StoresNow
      <4> QED BY <4>1, DoneSame
    <3> QED BY <3>1, <3>2, <2>1, StoredKept DEF Computes
  <2> QED BY <2>4, <2>5, <2>6, <2>7, <2>8, <1>1, <1>3 DEF Holds, Computes
<1> QED BY <1>1, <1>2, <1>3

LEMMA FinishedToAcknowledge ==
  ASSUME NEW e, Holds(e, "FINISHED")
  PROVE  Holds(e, "ACKNOWLEDGE")
<1>1. /\ \A o \in Operands : Sent(e, "ACKNOWLEDGE", o) = Sent(e, "FINISHED", o)
      /\ Sent(e, "ACKNOWLEDGE", "x") = Sent(e, "FINISHED", "x")
      /\ Sent(e, "ACKNOWLEDGE", "y") = Sent(e, "FINISHED", "y")
      /\ Sent(e, "ACKNOWLEDGE", "z") = Sent(e, "FINISHED", "z")
  BY DEF Sent, Planned
<1>2. Iteration(e, "FINISHED") => Iteration(e, "ACKNOWLEDGE")
  BY DEF Iteration
<1>3. /\ XLoaded(e, "ACKNOWLEDGE") = XLoaded(e, "FINISHED")
      /\ WLoaded(e, "ACKNOWLEDGE") = WLoaded(e, "FINISHED")
      /\ XTile(e, "ACKNOWLEDGE") = XTile(e, "FINISHED")
      /\ Ahead(e, "ACKNOWLEDGE") = Ahead(e, "FINISHED")
      /\ Uncleared(e, "ACKNOWLEDGE") <=> Uncleared(e, "FINISHED")
  BY <1>1 DEF XLoaded, WLoaded, XTile, Multiplied, Ahead, Uncleared
<1>4. \A o \in Operands : \A r :
        RowAddress(e, "ACKNOWLEDGE", o, r) = RowAddress(e, "FINISHED", o, r)
  BY <1>3 DEF RowAddress
<1>5. ASSUME Computes(e, "FINISHED") PROVE Computes(e, "ACKNOWLEDGE")
  <2>1. Addresses(e, "ACKNOWLEDGE")
    BY <1>1, <1>4, <1>5 DEF Computes, Addresses
  <2>2. Operand(e, "ACKNOWLEDGE")
    BY <1>3, <1>5 DEF Computes, Operand, XBuffer, WBuffer
  <2>3. YBuffer(e, "ACKNOWLEDGE")
    BY <1>1, <1>3, <1>5 DEF Computes, YBuffer
  <2>4. Computed(e, "ACKNOWLEDGE") /\ Previous(e, "ACKNOWLEDGE")
    BY DEF Computed, Previous, HasPrevious
  <2>5. Stored(e, "ACKNOWLEDGE")
    <3>1. ~StoresNow(e, "ACKNOWLEDGE") /\ ~StoresNow(e, "FINISHED")
      BY DEF StoresNow
    <3>2. Done(e, "ACKNOWLEDGE") = Done(e, "FINISHED")
      BY <3>1, DoneSame
    <3> QED BY <3>2, <1>5, StoredKept DEF Computes
  <2> QED BY <2>1, <2>2, <2>3, <2>4, <2>5 DEF Computes
<1> QED BY <1>2, <1>5 DEF Holds

\* The buffers are left as they were found, or cleared.
LEMMA AcknowledgeToIdle ==
  ASSUME TypeOK, NEW e, Holds(e, "ACKNOWLEDGE"), \A o \in Operands : e.blocks[o] = 0
  PROVE  Holds(e, "IDLE")
<1>1. e \in EngineType /\ Iteration(e, "IDLE")
  BY DEF Holds, Iteration
<1>2. CASE compute_able = 0
  BY <1>1, <1>2 DEF Holds
<1>3. CASE compute_able # 0
  <2>1. Sent(e, "ACKNOWLEDGE", "x") = 0
    BY DEF Sent, Planned, NoBlocks, Operands
  <2>2. XLoaded(e, "ACKNOWLEDGE") = 0 /\ WLoaded(e, "ACKNOWLEDGE") = 0
        /\ ~Uncleared(e, "ACKNOWLEDGE")
    BY <2>1 DEF XLoaded, WLoaded, Multiplied, Uncleared
  <2>3. /\ XBuffer(e, "ACKNOWLEDGE", "zero") /\ WBuffer(e, "ACKNOWLEDGE", "zero")
    BY <2>2, <1>3 DEF Holds, Computes, Operand
  <2>4. \A n \in Nat : \A r \in 0 .. n - 1 : ~(r < 0)
    OBVIOUS
  <2>5. ce_height \in Nat /\ bandwidth \in Nat
    BY Sizes
  <2>6. /\ \A r \in 0 .. ce_height - 1 : e.x_buffer[r] = NoRow("zero")
        /\ \A d \in 0 .. bandwidth - 1 : e.w_buffer[d] = NoRow("zero")
    BY <2>2, <2>3, <2>4, <2>5 DEF XBuffer, WBuffer
  <2>7. /\ e.x_buffer \in [0 .. ce_height - 1 -> Row]
        /\ e.w_buffer \in [0 .. bandwidth - 1 -> Row]
    BY <1>1, FieldTypes DEF Rows
  <2>8. /\ e.x_buffer = Buffer(ce_height, NoRow("zero"))
        /\ e.w_buffer = Buffer(bandwidth, NoRow("zero"))
    BY <2>6, <2>7 DEF Buffer
  <2> QED BY <2>8, <1>1 DEF Holds, Untouched
<1> QED BY <1>2, <1>3

\* The first tile of a matrix is where the matrix is.
LEMMA Origin ==
  ASSUME TypeOK, NEW base, NEW stride, NEW height, NEW width, NEW p,
         Begins(base, stride, height, width, 0, 0, p)
  PROVE  Location(base, stride, height, width, p, 0) = base
<1>1. /\ base \in Nat /\ stride \in Nat \ {0} /\ height \in Nat \ {0} /\ width \in Nat \ {0}
  BY DEF Begins
<1>2. calculate_tile_base_address(base, stride, height, width, 0, 0) = base
  <2>1. elem_size \in Nat /\ Tiles(stride, width) \in Nat
    BY <1>1, Sizes, TilesFacts
  <2>2. /\ 0 * Tiles(stride, width) + 0 = 0 /\ 0 * width = 0 /\ 0 * height = 0
        /\ 0 * stride = 0
    BY <1>1, <2>1
  <2>3. (IF fold_tiles_mapping THEN (0 * Tiles(stride, width) + 0) * width * height
                               ELSE 0 * height * stride + 0 * width) = 0
    BY <2>2
  <2>4. elem_size * 0 = 0 /\ base + 0 = base
    BY <1>1, <2>1
  <2> QED BY <2>3, <2>4 DEF calculate_tile_base_address
<1> QED BY <1>2, Beginning

\* An operation begins: an engine whose buffers nothing has been loaded into.
LEMMA PreloadFields ==
  ASSUME TypeOK, NEW e \in EngineType, NEW f, f = Preload(Meta(e))
  PROVE  /\ f \in EngineType
         /\ f.i = 0 /\ f.j = 0 /\ f.k = 0
         /\ f.blocks = Planned(f, "PRELOAD")
         /\ f.addr["x"] = X /\ f.addr["y"] = Y
         /\ \A o \in Operands : f.row[o] = 0
         /\ f.x_buffer = e.x_buffer /\ f.w_buffer = e.w_buffer
         /\ f.stored = <<>>
<1> DEFINE h == Least(shape.m, ce_height)
           blocks == [NoBlocks EXCEPT !["x"] = h, !["y"] = h]
           addr == [o \in Operands |-> CASE o = "x" -> X [] o = "w" -> W [] OTHER -> Y]
           row == [o \in Operands |-> 0]
<1>1. f = [i |-> 0, j |-> 0, k |-> 0, blocks |-> blocks, addr |-> addr, row |-> row,
           z_store |-> e.z_store, x_buffer |-> e.x_buffer,
           y_buffer_preload |-> e.y_buffer_preload, w_buffer |-> e.w_buffer,
           z_compute |-> e.z_compute, z_previos |-> e.z_previos, stored |-> <<>>]
  <2>1. e = Engine(e, e.y_buffer_preload, e.x_buffer, e.w_buffer, e.z_compute, e.stored)
    BY DEF Engine, EngineType
  <2>2. Meta(e) = [e EXCEPT !.i = 0, !.j = 0, !.k = 0, !.blocks = NoBlocks, !.addr = addr,
                            !.row = row, !.stored = <<>>]
    BY DEF Meta
  <2>3. f = [Meta(e) EXCEPT !.blocks = blocks]
    BY DEF Preload
  <2> HIDE DEF blocks, addr, row
  <2>4. Meta(e) = [Engine(e, e.y_buffer_preload, e.x_buffer, e.w_buffer, e.z_compute, e.stored)
                   EXCEPT !.i = 0, !.j = 0, !.k = 0, !.blocks = NoBlocks, !.addr = addr,
                          !.row = row, !.stored = <<>>]
    BY <2>1, <2>2
  <2>5. Meta(e) = [i |-> 0, j |-> 0, k |-> 0, blocks |-> NoBlocks, addr |-> addr, row |-> row,
           z_store |-> e.z_store, x_buffer |-> e.x_buffer,
           y_buffer_preload |-> e.y_buffer_preload, w_buffer |-> e.w_buffer,
           z_compute |-> e.z_compute, z_previos |-> e.z_previos, stored |-> <<>>]
    BY <2>4 DEF Engine
  <2> QED BY <2>3, <2>5
<1>2. /\ h \in Nat
      /\ blocks \in [Operands -> Nat] /\ addr \in [Operands -> Nat] /\ row \in [Operands -> Nat]
      /\ addr["x"] = X /\ addr["y"] = Y /\ \A o \in Operands : row[o] = 0
  <2>1. h \in Nat
    BY Sizes DEF Least
  <2>2. X \in Nat /\ W \in Nat /\ Y \in Nat
    BY Sizes
  <2> HIDE DEF h
  <2> QED BY <2>1, <2>2 DEF NoBlocks, Operands
<1>3. <<>> \in Seq(StoredRow)
  BY EmptySeq
<1> HIDE DEF blocks, addr, row
<1>4. f \in EngineType
  <2>1. /\ e.z_store \in [width : 0 .. TileWidth, height : 0 .. ce_height]
        /\ e.x_buffer \in Rows(ce_height) /\ e.y_buffer_preload \in Rows(ce_height)
        /\ e.w_buffer \in Rows(bandwidth)
        /\ e.z_compute \in Sum /\ e.z_previos \in Sum
    BY FieldTypes
  <2> QED BY <1>1, <1>2, <1>3, <2>1 DEF EngineType, Blocks
<1>5. f.blocks = Planned(f, "PRELOAD")
  <2>1. Planned(f, "PRELOAD") = blocks
    BY <1>4 DEF Planned, Preload, blocks, EngineType
  <2> QED BY <2>1, <1>1
<1> QED BY <1>1, <1>2, <1>4, <1>5

LEMMA IdleToPreload ==
  ASSUME TypeOK, NEW e \in EngineType, Untouched(e), NEW f, f = Preload(Meta(e))
  PROVE  Holds(f, "PRELOAD") /\ f.blocks = Planned(f, "PRELOAD")
<1> DEFINE st == "PRELOAD"
<1>1. /\ f \in EngineType
      /\ f.i = 0 /\ f.j = 0 /\ f.k = 0
      /\ f.blocks = Planned(f, st)
      /\ f.addr["x"] = X /\ f.addr["y"] = Y
      /\ \A o \in Operands : f.row[o] = 0
      /\ f.x_buffer = e.x_buffer /\ f.w_buffer = e.w_buffer
      /\ f.stored = <<>>
  BY PreloadFields
<1>2. Iteration(f, st) /\ st \in Phases
  BY <1>1 DEF Iteration, Phases
<1>3. Untouched(f)
  BY <1>1 DEF Untouched
<1>4. CASE compute_able = 0
  BY <1>1, <1>2, <1>3, <1>4 DEF Holds
<1>5. CASE compute_able # 0
  <2>1. Begun(f, st)
    <3>1. /\ ce_height \in Nat \ {0} /\ TileWidth \in Nat \ {0} /\ TileDepth \in Nat \ {0}
          /\ shape.n \in Nat \ {0} /\ shape.k \in Nat \ {0} /\ X \in Nat /\ Y \in Nat
      BY Sizes
    <3>2. RowAddress(f, st, "x", 0) = X
      <4>1. Begins(X, shape.n, ce_height, TileDepth, 0, 0, 0 * ce_height + 0)
        BY <3>1 DEF Begins
      <4>2. RowAddress(f, st, "x", 0)
              = Location(X, shape.n, ce_height, TileDepth, 0 * ce_height + 0, 0)
        BY <1>1 DEF RowAddress, Ahead
      <4> QED BY <4>1, <4>2, Origin
    <3>3. RowAddress(f, st, "y", 0) = Y
      <4>1. Begins(Y, shape.k, ce_height, TileWidth, 0, 0, 0 * ce_height + 0)
        BY <3>1 DEF Begins
      <4>2. RowAddress(f, st, "y", 0)
              = Location(Y, shape.k, ce_height, TileWidth, 0 * ce_height + 0, 0)
        BY <1>1 DEF RowAddress, Ahead
      <4> QED BY <4>1, <4>2, Origin
    <3>4. f.blocks["w"] = 0 /\ f.blocks["z"] = 0
      BY <1>1, <1>2, PlannedPhase
    <3>5. ASSUME NEW o \in Operands, f.blocks[o] > 0
          PROVE  f.addr[o] = RowAddress(f, st, o, 0)
      <4>1. o \in {"x", "y"}
        BY <3>4, <3>5 DEF Operands
      <4> QED BY <4>1, <3>2, <3>3, <1>1
    <3> QED BY <3>5, <1>1 DEF Begun
  <2>2. Addresses(f, st) /\ \A o \in Operands : Sent(f, st, o) = 0
    BY <2>1, <1>1, <1>2, BegunFacts
  <2>3. Sent(f, st, "x") = 0 /\ Sent(f, st, "y") = 0
    BY <2>2 DEF Operands
  <2>4. bandwidth \in Nat /\ ce_height \in Nat
    BY Sizes
  <2>5. \A n \in Nat : \A r \in 0 .. n - 1 : ~(r < 0)
    OBVIOUS
  <2>6. Operand(f, st)
    <3>1. PICK contents \in {"zero", "garbage"} :
            /\ f.x_buffer = Buffer(ce_height, NoRow(contents))
            /\ f.w_buffer = Buffer(bandwidth, NoRow(contents))
      BY <1>3 DEF Untouched
    <3>2. /\ \A r \in 0 .. ce_height - 1 : f.x_buffer[r] = NoRow(contents)
          /\ \A d \in 0 .. bandwidth - 1 : f.w_buffer[d] = NoRow(contents)
      BY <3>1 DEF Buffer
    <3>3. XLoaded(f, st) = 0 /\ WLoaded(f, st) = 0 /\ Uncleared(f, st)
      BY <2>3 DEF XLoaded, WLoaded, Multiplied, Uncleared
    <3>4. XBuffer(f, st, contents) /\ WBuffer(f, st, contents)
      BY <3>2, <3>3, <2>4, <2>5 DEF XBuffer, WBuffer
    <3> QED BY <3>3, <3>4 DEF Operand
  <2>7. YBuffer(f, st)
    BY <2>3, <2>4, <2>5 DEF YBuffer
  <2>8. Computed(f, st) /\ Previous(f, st)
    BY DEF Computed, Previous, HasPrevious
  <2>9. Stored(f, st)
    <3>1. Done(f, st) = {}
      BY <1>1, DoneNone
    <3>2. Len(f.stored) = 0 /\ DOMAIN f.stored = {}
      BY <1>1
    <3>3. Cardinality(Done(f, st)) = 0
      BY <3>1, FS_EmptySet
    <3> QED BY <3>1, <3>2, <3>3 DEF Stored
  <2> QED BY <2>2, <2>6, <2>7, <2>8, <2>9, <1>1, <1>2, <1>5 DEF Holds, Computes
<1> QED BY <1>4, <1>5

-----------------------------------------------------------------------------
(* What depends on the operation only stays while the operation does. *)

Same == UNCHANGED <<fold_tiles_mapping, shape, elem_size, compute_able>>

LEMMA SameSizes ==
  ASSUME Same
  PROVE  /\ fold_tiles_mapping' = fold_tiles_mapping /\ shape' = shape
         /\ elem_size' = elem_size /\ compute_able' = compute_able
         /\ TileDepth' = TileDepth /\ x_row_tiles' = x_row_tiles
         /\ z_row_tiles' = z_row_tiles /\ z_col_tiles' = z_col_tiles
  BY DEF Same, TileDepth, x_row_tiles, z_row_tiles, z_col_tiles

LEMMA SamePlans ==
  ASSUME Same, NEW e, NEW st
  PROVE  /\ Planned(e, st)' = Planned(e, st)
         /\ next_iteration(e)' = next_iteration(e)
         /\ Ahead(e, st)' = Ahead(e, st)
         /\ Behind(e)' = Behind(e)
         /\ \A o : Sent(e, st, o)' = Sent(e, st, o)
         /\ Iteration(e, st)' <=> Iteration(e, st)
<1>1. next_iteration(e)' = next_iteration(e)
  BY SameSizes DEF next_iteration, NextTile
<1>2. Ahead(e, st)' = Ahead(e, st) /\ Behind(e)' = Behind(e)
  BY <1>1, SameSizes DEF Ahead, Behind, PreviousTile
<1>3. Preload(e)' = Preload(e) /\ Storing(e)' = Storing(e)
  BY SameSizes DEF Preload, Storing, calculate_tile_base_address
<1>4. Routine(e)' = Routine(e)
  <2>1. WRows(e.k)' = WRows(e.k) /\ (StoresPrevious(e)' <=> StoresPrevious(e))
    BY SameSizes DEF WRows, StoresPrevious
  <2>2. PreviousTile(e.i, e.j)' = PreviousTile(e.i, e.j)
    BY SameSizes DEF PreviousTile
  <2>3. RoutineBlocks(e)' = RoutineBlocks(e)
    BY <1>1, <2>1, SameSizes DEF RoutineBlocks
  <2>4. RoutineAddr(e)' = RoutineAddr(e)
    BY <1>1, <2>1, <2>2, SameSizes DEF RoutineAddr, calculate_tile_base_address
  <2>5. Routine(e) = [e EXCEPT !.blocks = RoutineBlocks(e), !.addr = RoutineAddr(e)]
    BY DEF Routine, RoutineBlocks, RoutineAddr
  <2>6. Routine(e)' = [e EXCEPT !.blocks = RoutineBlocks(e)', !.addr = RoutineAddr(e)']
    BY DEF Routine, RoutineBlocks, RoutineAddr
  <2> QED BY <2>3, <2>4, <2>5, <2>6
<1>5. Planned(e, st)' = Planned(e, st)
  BY <1>3, <1>4 DEF Planned
<1>6. \A o : Sent(e, st, o)' = Sent(e, st, o)
  BY <1>5 DEF Sent
<1>7. Iteration(e, st)' <=> Iteration(e, st)
  BY SameSizes DEF Iteration
<1> QED BY <1>1, <1>2, <1>5, <1>6, <1>7

LEMMA SameRows ==
  ASSUME Same
  PROVE  /\ \A row, r, k : IsXRow(row, r, k)' <=> IsXRow(row, r, k)
         /\ \A row, r, j : IsYRow(row, r, j)' <=> IsYRow(row, r, j)
         /\ \A row, d, j, k : IsWRow(row, d, j, k)' <=> IsWRow(row, d, j, k)
         /\ \A t, r, j, k : IsTerm(t, r, j, k)' <=> IsTerm(t, r, j, k)
         /\ \A s, r, j : IsResult(s, r, j)' <=> IsResult(s, r, j)
         /\ \A s, i, j, n : IsSum(s, i, j, n)' <=> IsSum(s, i, j, n)
<1>1. \A row, r, k : IsXRow(row, r, k)' <=> IsXRow(row, r, k)
  BY SameSizes DEF IsXRow, Location
<1>2. \A row, r, j : IsYRow(row, r, j)' <=> IsYRow(row, r, j)
  BY SameSizes DEF IsYRow, Location
<1>3. \A row, d, j, k : IsWRow(row, d, j, k)' <=> IsWRow(row, d, j, k)
  BY SameSizes DEF IsWRow, Location
<1>4. \A t, r, j, k : IsTerm(t, r, j, k)' <=> IsTerm(t, r, j, k)
  BY <1>1, SameSizes DEF IsTerm, Location, RestIsZero
<1>5. \A s, r, j : IsResult(s, r, j)' <=> IsResult(s, r, j)
  BY <1>2, <1>4, SameSizes DEF IsResult
<1>6. \A s, i, j, n : IsSum(s, i, j, n)' <=> IsSum(s, i, j, n)
  BY <1>2, <1>4, SameSizes DEF IsSum
<1> QED BY <1>1, <1>2, <1>3, <1>4, <1>5, <1>6

LEMMA SameBuffers ==
  ASSUME Same, NEW e, NEW st
  PROVE  /\ Addresses(e, st)' <=> Addresses(e, st)
         /\ Operand(e, st)' <=> Operand(e, st)
         /\ YBuffer(e, st)' <=> YBuffer(e, st)
         /\ Computed(e, st)' <=> Computed(e, st)
         /\ Previous(e, st)' <=> Previous(e, st)
<1>1. ASSUME NEW o \in Operands, NEW r
      PROVE  RowAddress(e, st, o, r)' = RowAddress(e, st, o, r)
  <2>1. CASE o = "w"
    BY <2>1, SameSizes DEF RowAddress, Location
  <2>2. CASE o = "x"
    BY <2>2, SamePlans, SameSizes DEF RowAddress, Location
  <2>3. CASE o = "y"
    BY <2>3, SamePlans, SameSizes DEF RowAddress, Location
  <2>4. CASE o = "z"
    BY <2>4, SamePlans, SameSizes DEF RowAddress, Location
  <2> QED BY <2>1, <2>2, <2>3, <2>4 DEF Operands
<1>2. Addresses(e, st)' <=> Addresses(e, st)
  BY <1>1, SamePlans DEF Addresses
<1>3. /\ XLoaded(e, st)' = XLoaded(e, st) /\ XTile(e, st)' = XTile(e, st)
      /\ WLoaded(e, st)' = WLoaded(e, st)
  BY SamePlans, SameSizes DEF XLoaded, XTile, WLoaded, Multiplied
<1>4. ASSUME NEW c
      PROVE  /\ XBuffer(e, st, c)' <=> XBuffer(e, st, c)
             /\ WBuffer(e, st, c)' <=> WBuffer(e, st, c)
  <2>1. XBuffer(e, st, c)' <=> XBuffer(e, st, c)
    BY <1>3, SameSizes DEF XBuffer, IsXRow, Location
  <2>2. WBuffer(e, st, c)' <=> WBuffer(e, st, c)
    BY <1>3, SameSizes DEF WBuffer, IsWRow, Location
  <2> QED BY <2>1, <2>2
<1>5. Operand(e, st)' <=> Operand(e, st)
  BY <1>4 DEF Operand, Uncleared
<1>6. YBuffer(e, st)' <=> YBuffer(e, st)
  BY SamePlans, SameRows DEF YBuffer
<1>7. Computed(e, st)' <=> Computed(e, st)
  BY SameRows DEF Computed, Multiplied
<1>8. Previous(e, st)' <=> Previous(e, st)
  BY SamePlans, SameRows, SameSizes DEF Previous, HasPrevious
<1> QED BY <1>2, <1>5, <1>6, <1>7, <1>8

LEMMA SameHolds ==
  ASSUME Same, NEW e, NEW st
  PROVE  Holds(e, st)' <=> Holds(e, st)
<1>1. Done(e, st)' = Done(e, st)
  BY SamePlans, SameSizes DEF Done, StoresNow
<1>2. Stored(e, st)' <=> Stored(e, st)
  BY <1>1, SameRows DEF Stored
<1>3. Computes(e, st)' <=> Computes(e, st)
  BY <1>2, SameBuffers DEF Computes
<1>4. Iteration(e, st)' <=> Iteration(e, st)
  BY SamePlans
<1> QED BY <1>3, <1>4, SameSizes DEF Holds, Untouched

-----------------------------------------------------------------------------
(* Every step keeps the invariant. *)

LEMMA InvFacts ==
  ASSUME IInv
  PROVE  /\ TypeOK /\ DriverInv /\ PendingInv
         /\ EngineInv(engine, state, fsm_counter)
         /\ Holds(engine, state) /\ Progress(engine, state, fsm_counter)
  BY DEF IInv, EngineInv, Holds

LEMMA InvNext ==
  ASSUME NEW e, NEW st, NEW c, engine' = e, state' = st, fsm_counter' = c,
         Holds(e, st)', Progress(e, st, c)', TypeOK', DriverInv', PendingInv'
  PROVE  IInv'
<1>1. EngineInv(e, st, c)'
  BY DEF EngineInv, Holds
<1> QED BY <1>1 DEF IInv

\* The buffers of an engine, as TypeOK has them.
LEMMA BufferTypes ==
  ASSUME NEW e \in EngineType
  PROVE  /\ e.x_buffer \in Rows(ce_height) /\ e.y_buffer_preload \in Rows(ce_height)
         /\ e.w_buffer \in Rows(bandwidth)
         /\ e.z_compute.y \in Rows(ce_height) /\ e.z_previos.y \in Rows(ce_height)
  BY FieldTypes, SumFacts

\* A state begins with nothing sent.
LEMMA ProgressStarts ==
  ASSUME NEW e \in EngineType, NEW st, e.blocks = Planned(e, st)',
         tcdm_block_total' = Total(e.blocks)
  PROVE  Progress(e, st, 0)' /\ tcdm_block_total' \in Nat
<1>1. /\ e.blocks \in [Operands -> Nat]
      /\ e.blocks["y"] \in Nat /\ e.blocks["w"] \in Nat /\ e.blocks["x"] \in Nat
      /\ e.blocks["z"] \in Nat
  BY FieldTypes DEF Operands
<1>2. Total(e.blocks) \in Nat
  BY <1>1 DEF Total
<1>3. \A o \in Operands : Sent(e, st, o)' = 0
  BY <1>1 DEF Sent
<1>4. Sent(e, st, "w")' = 0 /\ Sent(e, st, "x")' = 0 /\ Sent(e, st, "z")' = 0
  BY <1>3 DEF Operands
<1>5. /\ tcdm_block_total' = Total(Planned(e, st)')
      /\ 0 = tcdm_block_total' - Total(e.blocks)
      /\ \A o \in Operands : e.blocks[o] <= Planned(e, st)'[o]
  BY <1>1, <1>2
<1> QED BY <1>2, <1>4, <1>5 DEF Progress

LEMMA SameProgress ==
  ASSUME Same, NEW e, NEW st, NEW c, Progress(e, st, c), tcdm_block_total' = tcdm_block_total
  PROVE  Progress(e, st, c)'
  BY SamePlans DEF Progress

LEMMA WorkingStep ==
  ASSUME IInv, NEW st \in Phases, Working(st),
         UNCHANGED <<fold_tiles_mapping, redmule_query, registers, driver, ops>>
  PROVE  IInv'
<1>1. /\ TypeOK /\ DriverInv /\ PendingInv /\ state = st
      /\ EngineInv(engine, st, fsm_counter)
  BY InvFacts DEF Working
<1>2. /\ EngineInv(accessed, st, counter)
      /\ counter \in 0 .. tcdm_block_total /\ counter \in Nat
      /\ issued \in 0 .. counter /\ issued \in 0 .. queue_depth + 1
      /\ issued \in Nat
  BY <1>1, Sending
<1>3. /\ pending' \in 0 .. issued /\ fsm_counter' = counter /\ engine' = accessed
      /\ state' = st /\ tcdm_block_total' = tcdm_block_total
  BY <1>1 DEF Working
<1>4. Same
  BY DEF Same, registers
<1>5. PICK e : e = accessed
  OBVIOUS
<1>6. PICK c : c = counter
  OBVIOUS
<1>7. EngineInv(e, st, c)
  BY <1>2, <1>5, <1>6
<1>8. Holds(e, st)' /\ Progress(e, st, c)' /\ e \in EngineType
  <2>1. Holds(e, st) /\ Progress(e, st, c) /\ e \in EngineType
    BY <1>7 DEF EngineInv, Holds
  <2> QED BY <2>1, <1>3, <1>4, SameHolds, SameProgress
<1>9. TypeOK'
  <2>1. pending' \in 0 .. queue_depth + 1 /\ fsm_counter' \in 0 .. tcdm_block_total'
    BY <1>2, <1>3, EngineAssumption
  <2>2. e \in EngineType /\ engine' = e
    BY <1>3, <1>5, <1>8
  <2> QED BY <2>1, <2>2, <1>1, <1>3, BufferTypes DEF TypeOK, registers
<1>10. DriverInv' /\ PendingInv'
  BY <1>1, <1>2, <1>3, EngineAssumption DEF DriverInv, PendingInv, Phases
<1> QED BY <1>3, <1>5, <1>6, <1>8, <1>9, <1>10, InvNext

\* A state is left for another, which begins with engine e.
LEMMA LeaveStep ==
  ASSUME IInv, NEW st \in Phases, NEW next \in Phases \cup {"FINISHED"},
         NEW e, Leave(st, next, e), Holds(e, next), e.blocks = Planned(e, next),
         UNCHANGED <<fold_tiles_mapping, redmule_query, registers, driver, ops>>
  PROVE  IInv'
<1>1. TypeOK /\ DriverInv /\ state = st
  BY InvFacts DEF Leave
<1>2. /\ state' = next /\ pending' = 0 /\ fsm_counter' = 0 /\ engine' = e
      /\ tcdm_block_total' = Total(e.blocks)
  BY DEF Leave
<1>3. Same
  BY DEF Same, registers
<1>4. Holds(e, next)' /\ e \in EngineType
  BY <1>3, SameHolds DEF Holds
<1>5. Planned(e, next)' = Planned(e, next)
  BY <1>3, SamePlans
<1>6. Progress(e, next, 0)' /\ tcdm_block_total' \in Nat
  BY <1>2, <1>4, <1>5, ProgressStarts
<1>7. TypeOK'
  <2>1. pending' \in 0 .. queue_depth + 1 /\ fsm_counter' \in 0 .. tcdm_block_total'
    BY <1>2, <1>6, EngineAssumption
  <2>2. state' \in States
    BY <1>2 DEF States, Phases
  <2> QED BY <2>1, <2>2, <1>1, <1>2, <1>4, BufferTypes DEF TypeOK, registers
<1>8. DriverInv' /\ PendingInv'
  BY <1>1, <1>2 DEF DriverInv, PendingInv, Phases
<1> QED BY <1>2, <1>4, <1>6, <1>7, <1>8, InvNext

\* The state that is left has sent everything.
LEMMA Leaving ==
  ASSUME IInv, NEW st \in Phases, NEW next, NEW e, Leave(st, next, e)
  PROVE  TypeOK /\ Holds(accessed, st) /\ Finished(accessed, st)
<1>1. /\ TypeOK /\ PendingInv /\ state = st /\ EngineInv(engine, st, fsm_counter)
      /\ counter >= tcdm_block_total
  BY InvFacts DEF Leave
<1>2. EngineInv(accessed, st, counter) /\ counter \in Nat
  BY <1>1, Sending
<1>3. \A o \in Operands : accessed.blocks[o] = 0 /\ Sent(accessed, st, o) = Planned(accessed, st)[o]
  BY <1>1, <1>2, Complete
<1> QED BY <1>1, <1>2, <1>3 DEF EngineInv, Holds, Finished

LEMMA PreloadDoneStep ==
  ASSUME IInv, PreloadDone,
         UNCHANGED <<fold_tiles_mapping, redmule_query, registers, driver, ops>>
  PROVE  IInv'
<1>1. PICK a : a = accessed
  OBVIOUS
<1>2. PICK f : f = IF compute_able # 0 THEN ForwardYZ(Routine(a)) ELSE Routine(a)
  OBVIOUS
<1>3. Leave("PRELOAD", "ROUTINE", f) /\ "PRELOAD" \in Phases
      /\ "ROUTINE" \in Phases \cup {"FINISHED"}
  BY <1>1, <1>2 DEF PreloadDone, Phases
<1>4. TypeOK /\ Holds(a, "PRELOAD") /\ Finished(a, "PRELOAD")
  BY <1>1, <1>3, Leaving
<1>5. Holds(f, "ROUTINE") /\ f.blocks = Planned(f, "ROUTINE")
  BY <1>2, <1>4, PreloadToRoutine
<1> QED BY <1>3, <1>5, LeaveStep

LEMMA RoutineDoneStep ==
  ASSUME IInv, RoutineDone,
         UNCHANGED <<fold_tiles_mapping, redmule_query, registers, driver, ops>>
  PROVE  IInv'
<1>1. PICK a : a = accessed
  OBVIOUS
<1>2. PICK n : n = next_iteration(IF compute_able # 0 /\ a.k + 1 = x_row_tiles
                                  THEN ForwardYZ(a) ELSE a)
  OBVIOUS
<1>3. n = Iterated
  BY <1>1, <1>2 DEF Iterated
<1>4. "ROUTINE" \in Phases /\ "ROUTINE" \in Phases \cup {"FINISHED"}
      /\ "STORING" \in Phases \cup {"FINISHED"}
  BY DEF Phases
<1>5. CASE n.i # z_col_tiles
  <2>1. PICK f : f = Routine(n)
    OBVIOUS
  <2>2. Leave("ROUTINE", "ROUTINE", f)
    BY <2>1, <1>3, <1>5 DEF RoutineDone
  <2>3. TypeOK /\ Holds(a, "ROUTINE") /\ Finished(a, "ROUTINE")
    BY <2>2, <1>1, <1>4, Leaving
  <2>4. Holds(f, "ROUTINE") /\ f.blocks = Planned(f, "ROUTINE")
    BY <2>1, <2>3, <1>2, <1>5, RoutineToRoutine
  <2> QED BY <2>2, <2>4, <1>4, LeaveStep
<1>6. CASE n.i = z_col_tiles
  <2>1. PICK f : f = Storing(n)
    OBVIOUS
  <2>2. Leave("ROUTINE", "STORING", f)
    BY <2>1, <1>3, <1>6 DEF RoutineDone
  <2>3. TypeOK /\ Holds(a, "ROUTINE") /\ Finished(a, "ROUTINE")
    BY <2>2, <1>1, <1>4, Leaving
  <2>4. Holds(f, "STORING") /\ f.blocks = Planned(f, "STORING")
    BY <2>1, <2>3, <1>2, <1>6, RoutineToStoring
  <2> QED BY <2>2, <2>4, <1>4, LeaveStep
<1> QED BY <1>5, <1>6

LEMMA StoringDoneStep ==
  ASSUME IInv, StoringDone,
         UNCHANGED <<fold_tiles_mapping, redmule_query, registers, driver, ops>>
  PROVE  IInv'
<1>1. PICK a : a = accessed
  OBVIOUS
<1>2. Leave("STORING", "FINISHED", a) /\ "STORING" \in Phases
      /\ "FINISHED" \in Phases \cup {"FINISHED"}
  BY <1>1 DEF StoringDone, Phases
<1>3. TypeOK /\ Holds(a, "STORING") /\ Finished(a, "STORING")
  BY <1>1, <1>2, Leaving
<1>4. Holds(a, "FINISHED") /\ \A o \in Operands : a.blocks[o] = 0
  BY <1>3, StoringToFinished
<1>5. a.blocks = Planned(a, "FINISHED")
  <2>1. a.blocks \in [Operands -> Nat]
    BY <1>3, FieldTypes DEF Holds
  <2>2. Planned(a, "FINISHED") = [o \in Operands |-> 0]
    BY DEF Planned, NoBlocks
  <2> QED BY <2>1, <2>2, <1>4
<1> QED BY <1>2, <1>4, <1>5, LeaveStep

LEMMA IdleStays ==
  ASSUME NEW e, NEW c, EngineInv(e, "IDLE", c), tcdm_block_total' = tcdm_block_total
  PROVE  Holds(e, "IDLE")' /\ Progress(e, "IDLE", c)'
<1>1. /\ e \in EngineType /\ Untouched(e) /\ Progress(e, "IDLE", c)
  BY DEF EngineInv
<1>2. Planned(e, "IDLE") = NoBlocks /\ Planned(e, "IDLE")' = NoBlocks
  BY DEF Planned
<1>3. Progress(e, "IDLE", c)'
  BY <1>1, <1>2 DEF Progress, Sent
<1> QED BY <1>1, <1>3 DEF Holds, Iteration, Untouched

\* Nothing is due in a state that sends nothing.
LEMMA NothingDue ==
  ASSUME IInv, state \notin Phases
  PROVE  tcdm_block_total = 0 /\ fsm_counter = 0 /\ pending = 0
<1>1. /\ fsm_counter \in 0 .. tcdm_block_total /\ pending \in 0 .. fsm_counter
      /\ Progress(engine, state, fsm_counter)
  BY InvFacts DEF TypeOK, PendingInv
<1>2. Planned(engine, state) = NoBlocks
  BY DEF Planned, Phases
<1>3. Total(NoBlocks) = 0
  BY DEF Total, NoBlocks, Operands
<1> QED BY <1>1, <1>2, <1>3 DEF Progress

LEMMA PolledStep ==
  ASSUME IInv, Polled,
         UNCHANGED <<fold_tiles_mapping, redmule_query, registers, driver, ops>>
  PROVE  IInv'
<1>1. /\ TypeOK /\ DriverInv /\ PendingInv
      /\ Holds(engine, "FINISHED") /\ Progress(engine, "FINISHED", fsm_counter)
  BY InvFacts DEF Polled
<1>2. PICK e : e = engine
  OBVIOUS
<1>3. PICK c : c = fsm_counter
  OBVIOUS
<1>4. /\ engine' = e /\ state' = "ACKNOWLEDGE" /\ fsm_counter' = c
      /\ tcdm_block_total' = tcdm_block_total /\ pending' = pending
      /\ state = "FINISHED" /\ redmule_query
  BY <1>2, <1>3 DEF Polled
<1>5. Same
  BY DEF Same, registers
<1>6. Holds(e, "ACKNOWLEDGE")' /\ e \in EngineType
  <2>1. Holds(e, "ACKNOWLEDGE") /\ e \in EngineType
    BY <1>1, <1>2, FinishedToAcknowledge DEF Holds
  <2> QED BY <2>1, <1>5, SameHolds
<1>7. Progress(e, "ACKNOWLEDGE", c)'
  <2>1. Planned(e, "FINISHED") = Planned(e, "ACKNOWLEDGE")
    BY DEF Planned
  <2>2. Progress(e, "ACKNOWLEDGE", c)
    BY <2>1, <1>1, <1>2, <1>3 DEF Progress, Sent
  <2> QED BY <2>2, <1>4, <1>5, SameProgress
<1>8. TypeOK'
  BY <1>1, <1>3, <1>4, <1>6, BufferTypes DEF TypeOK, registers, States
<1>9. DriverInv' /\ PendingInv'
  BY <1>1, <1>3, <1>4 DEF DriverInv, PendingInv
<1> QED BY <1>4, <1>6, <1>7, <1>8, <1>9, InvNext

LEMMA AcknowledgeStep ==
  ASSUME IInv, Acknowledge
  PROVE  IInv'
<1>1. /\ TypeOK /\ DriverInv /\ PendingInv
      /\ Holds(engine, "ACKNOWLEDGE") /\ Progress(engine, "ACKNOWLEDGE", fsm_counter)
  BY InvFacts DEF Acknowledge
<1>2. PICK e : e = engine
  OBVIOUS
<1>3. PICK c : c = fsm_counter
  OBVIOUS
<1>4. /\ engine' = e /\ state' = "IDLE" /\ fsm_counter' = c
      /\ tcdm_block_total' = tcdm_block_total /\ pending' = pending
      /\ redmule_query' = FALSE /\ driver' = "free" /\ state = "ACKNOWLEDGE"
      /\ UNCHANGED <<fold_tiles_mapping, registers, ops>>
  BY <1>2, <1>3 DEF Acknowledge
<1>5. Planned(e, "ACKNOWLEDGE") = NoBlocks /\ Planned(e, "IDLE") = NoBlocks
  BY DEF Planned
<1>6. e.blocks \in [Operands -> Nat] /\ \A o \in Operands : e.blocks[o] <= 0
  BY <1>1, <1>2, <1>5, FieldTypes DEF Progress, Holds, NoBlocks
<1>7. Holds(e, "IDLE")
  <2>1. \A o \in Operands : e.blocks[o] = 0
    BY <1>6
  <2> QED BY <2>1, <1>1, <1>2, AcknowledgeToIdle
<1>8. Progress(e, "IDLE", c)
  BY <1>1, <1>2, <1>3, <1>5 DEF Progress, Sent
<1>9. EngineInv(e, "IDLE", c) /\ e \in EngineType
  BY <1>7, <1>8 DEF EngineInv, Holds
<1>10. Holds(e, "IDLE")' /\ Progress(e, "IDLE", c)'
  BY <1>4, <1>9, IdleStays
<1>11. TypeOK'
  BY <1>1, <1>3, <1>4, <1>9, BufferTypes DEF TypeOK, registers, States
<1>12. DriverInv' /\ PendingInv'
  BY <1>1, <1>3, <1>4 DEF DriverInv, PendingInv
<1> QED BY <1>4, <1>10, <1>11, <1>12, InvNext

\* The driver's steps that leave the engine as it is.
LEMMA EngineStays ==
  ASSUME IInv, Same, UNCHANGED <<fsm, ops>>, DriverInv',
         redmule_query' \in BOOLEAN,
         driver' \in {"free", "configured", "running", "waiting"}
  PROVE  IInv'
<1>1. /\ TypeOK /\ PendingInv
      /\ Holds(engine, state) /\ Progress(engine, state, fsm_counter)
  BY InvFacts
<1>2. PICK e : e = engine
  OBVIOUS
<1>3. PICK st : st = state
  OBVIOUS
<1>4. PICK c : c = fsm_counter
  OBVIOUS
<1>5. /\ engine' = e /\ state' = st /\ fsm_counter' = c
      /\ tcdm_block_total' = tcdm_block_total /\ pending' = pending /\ ops' = ops
      /\ state' = state /\ fsm_counter' = fsm_counter /\ engine' = engine
  BY <1>2, <1>3, <1>4 DEF fsm
<1>6. Holds(e, st)' /\ Progress(e, st, c)' /\ e \in EngineType
  BY <1>1, <1>2, <1>3, <1>4, <1>5, SameHolds, SameProgress DEF Holds
<1>7. TypeOK'
  BY <1>1, <1>5 DEF TypeOK, Same
<1>8. PendingInv'
  BY <1>1, <1>5 DEF PendingInv
<1> QED BY <1>5, <1>6, <1>7, <1>8, InvNext

LEMMA WaitStep ==
  ASSUME IInv, Wait
  PROVE  IInv'
<1>1. TypeOK /\ DriverInv
  BY InvFacts
<1>2. Same /\ UNCHANGED <<fsm, ops>> /\ state' = state
  BY DEF Wait, Same, registers, fsm
<1>3. CASE state # "IDLE" /\ ~redmule_query
  <2>1. redmule_query' = TRUE /\ driver' = "waiting"
    BY <1>3 DEF Wait
  <2>2. DriverInv'
    BY <2>1, <1>2, <1>3 DEF DriverInv
  <2> QED BY <2>1, <2>2, <1>2, EngineStays
<1>4. CASE ~(state # "IDLE" /\ ~redmule_query)
  <2>1. redmule_query' = redmule_query /\ driver' = "free" /\ driver = "running"
    BY <1>4 DEF Wait
  <2>2. state # "IDLE" /\ ~redmule_query
    BY <2>1, <1>1 DEF DriverInv
  <2> QED BY <2>2, <1>4
<1> QED BY <1>3, <1>4

\* A running engine takes neither a configuration nor a trigger.
LEMMA BusyStays ==
  ASSUME IInv, driver = "running",
         Configure \/ AsyncTrigger \/ SyncTrigger \/ \E format \in Formats : Trigger(format)
  PROVE  UNCHANGED vars
<1>1. ~Accepts /\ state # "IDLE"
  BY InvFacts DEF DriverInv, Accepts
<1>2. CASE Configure
  BY <1>1, <1>2 DEF Configure, vars, registers
<1>3. ASSUME NEW format, Start(format)
      PROVE  UNCHANGED <<fsm, compute_able, ops, fold_tiles_mapping, shape>>
  BY <1>1, <1>3 DEF Start
<1>4. CASE AsyncTrigger
  BY <1>3, <1>4 DEF AsyncTrigger, vars, registers
<1>5. CASE SyncTrigger
  BY <1>1, <1>5 DEF SyncTrigger
<1>6. CASE \E format \in Formats : Trigger(format)
  BY <1>1, <1>3, <1>6 DEF Trigger, vars, registers
<1> QED BY <1>2, <1>4, <1>5, <1>6

LEMMA ConfigureStep ==
  ASSUME IInv, Configure, driver # "running"
  PROVE  IInv'
<1>1. /\ TypeOK /\ DriverInv /\ PendingInv /\ driver = "free" /\ ops < MaxOps
      /\ driver' = "configured"
      /\ EngineInv(engine, state, fsm_counter)
  BY InvFacts DEF Configure
<1>2. state = "IDLE" /\ ~redmule_query
  BY <1>1 DEF DriverInv
<1>3. PICK e : e = engine
  OBVIOUS
<1>4. PICK c : c = fsm_counter
  OBVIOUS
<1>5. /\ engine' = e /\ state' = "IDLE" /\ fsm_counter' = c
      /\ tcdm_block_total' = tcdm_block_total /\ pending' = pending
      /\ shape' \in Shapes /\ driver' = "configured" /\ redmule_query' = redmule_query
      /\ UNCHANGED <<fold_tiles_mapping, state, fsm_counter, engine, compute_able, elem_size, ops>>
  BY <1>1, <1>2, <1>3, <1>4 DEF Configure, Accepts, fsm
<1>6. Holds(e, "IDLE")' /\ Progress(e, "IDLE", c)'
  BY <1>1, <1>2, <1>3, <1>4, <1>5, IdleStays
<1>7. TypeOK'
  BY <1>1, <1>5 DEF TypeOK
<1>8. DriverInv' /\ PendingInv'
  BY <1>1, <1>2, <1>5 DEF DriverInv, PendingInv
<1> QED BY <1>5, <1>6, <1>7, <1>8, InvNext

Preloads ==
  \A e \in EngineType : \A f :
    Untouched(e) /\ f = Preload(Meta(e)) =>
      Holds(f, "PRELOAD") /\ f.blocks = Planned(f, "PRELOAD")

LEMMA PreloadBegins == TypeOK => Preloads
  BY IdleToPreload DEF Preloads

\* An operation begins, of any format.
LEMMA StartStep ==
  ASSUME IInv, NEW format \in Formats \cup {0}, Start(format),
         driver # "running", elem_size' \in {1, 2}, redmule_query' \in BOOLEAN,
         \/ driver' = "running" /\ ~redmule_query'
         \/ driver' = "waiting" /\ redmule_query'
  PROVE  IInv'
<1>1. /\ TypeOK /\ DriverInv /\ PendingInv /\ driver = "configured" /\ ops' = ops + 1
      /\ Holds(engine, state) /\ ops < MaxOps
  BY InvFacts DEF Start, DriverInv
<1>2. state = "IDLE"
  BY <1>1 DEF DriverInv
<1>3. tcdm_block_total = 0 /\ fsm_counter = 0 /\ pending = 0
  BY <1>2, NothingDue DEF Phases
<1>4. PICK e : e = engine
  OBVIOUS
<1>5. PICK f : f = Preload(Meta(e))
  OBVIOUS
<1>6. /\ engine' = f /\ state' = "PRELOAD" /\ fsm_counter' = 0 /\ pending' = pending
      /\ tcdm_block_total' = Total(f.blocks)
      /\ compute_able' = format /\ ops' = ops + 1
      /\ fold_tiles_mapping' = fold_tiles_mapping /\ shape' = shape
  BY <1>1, <1>2, <1>4, <1>5 DEF Start, Accepts
<1>7. e \in EngineType /\ Untouched(e)
  BY <1>1, <1>2, <1>4 DEF Holds
<1>8. f \in EngineType
  BY <1>1, <1>5, <1>7, PreloadFields
<1>9. tcdm_block_total' \in Nat
  <2>1. f.blocks \in [Operands -> Nat]
    BY <1>8, FieldTypes
  <2> QED BY <2>1, <1>6 DEF Total, Operands
<1>10. TypeOK'
  <2>1. pending' \in 0 .. queue_depth + 1 /\ fsm_counter' \in 0 .. tcdm_block_total'
        /\ ops' \in 0 .. MaxOps
    BY <1>1, <1>3, <1>6, <1>9, EngineAssumption DEF TypeOK
  <2>2. driver' \in {"free", "configured", "running", "waiting"} /\ state' \in States
    BY <1>6 DEF States
  <2>3. /\ fold_tiles_mapping' \in BOOLEAN /\ shape' \in Shapes
        /\ compute_able' \in Formats \cup {0}
    BY <1>1, <1>6 DEF TypeOK
  <2>4. /\ engine'.x_buffer \in Rows(ce_height) /\ engine'.y_buffer_preload \in Rows(ce_height)
        /\ engine'.w_buffer \in Rows(bandwidth)
        /\ engine'.z_compute.y \in Rows(ce_height) /\ engine'.z_previos.y \in Rows(ce_height)
    BY <1>6, <1>8, BufferTypes
  <2> QED BY <2>1, <2>2, <2>3, <2>4 DEF TypeOK
<1>11. Holds(f, "PRELOAD")' /\ f.blocks = Planned(f, "PRELOAD")'
  <2>1. Preloads'
    BY <1>10, PreloadBegins, PTL
  <2>2. Preload(Meta(e))' = Preload(Meta(e)) /\ (Untouched(e)' <=> Untouched(e))
    BY <1>6 DEF Preload, Meta, Untouched
  <2>3. Untouched(e)' /\ f = Preload(Meta(e))'
    BY <2>2, <1>5, <1>7
  <2> QED BY <2>1, <2>3, <1>7 DEF Preloads
<1>12. Progress(f, "PRELOAD", 0)'
  BY <1>6, <1>8, <1>11, ProgressStarts
<1>13. PendingInv'
  BY <1>3, <1>6 DEF PendingInv
<1>14. DriverInv'
  BY <1>6 DEF DriverInv
<1> QED BY <1>6, <1>10, <1>11, <1>12, <1>13, <1>14, InvNext

\* The engine after a reset.
LEMMA InitInv == Init => IInv
<1> SUFFICES ASSUME Init PROVE IInv
  OBVIOUS
<1>1. /\ fold_tiles_mapping \in BOOLEAN
      /\ state = "IDLE" /\ fsm_counter = 0 /\ tcdm_block_total = 0 /\ pending = 0
      /\ redmule_query = FALSE
      /\ shape \in Shapes /\ compute_able = 0 /\ elem_size = 2
      /\ driver = "free" /\ ops = 0
  BY DEF Init
<1>2. /\ ce_height \in Nat /\ bandwidth \in Nat /\ TileWidth \in Nat /\ queue_depth \in Nat
      /\ MaxOps \in Nat
  BY EngineAssumption
<1> DEFINE tile(contents) == Buffer(ce_height, NoRow(contents))
<1>3. PICK contents \in {"zero", "garbage"} :
        engine = [i |-> 0, j |-> 0, k |-> 0, blocks |-> NoBlocks,
                  addr |-> [o \in Operands |-> 0], row |-> [o \in Operands |-> 0],
                  z_store |-> [width |-> 0, height |-> 0],
                  x_buffer |-> tile(contents), y_buffer_preload |-> tile(contents),
                  w_buffer |-> Buffer(bandwidth, NoRow(contents)),
                  z_compute |-> [y |-> tile(contents), terms |-> <<>>],
                  z_previos |-> [y |-> tile(contents), terms |-> <<>>],
                  stored |-> <<>>]
  BY DEF Init
<1>4. /\ tile(contents) \in Rows(ce_height)
      /\ Buffer(bandwidth, NoRow(contents)) \in Rows(bandwidth)
  <2>1. NoRow(contents) \in Row
    BY <1>2 DEF NoRow, Row
  <2> QED BY <2>1 DEF Buffer, Rows
<1>5. Untouched(engine)
  BY <1>3 DEF Untouched
<1> HIDE DEF tile
<1>6. engine \in EngineType
  <2>1. [y |-> tile(contents), terms |-> <<>>] \in Sum
    <3>1. <<>> \in Seq([x : Rows(ce_height), w : Rows(bandwidth)])
      BY EmptySeq
    <3> QED BY <3>1, <1>4 DEF Sum
  <2>2. /\ NoBlocks \in Blocks /\ [o \in Operands |-> 0] \in Blocks
        /\ [width |-> 0, height |-> 0] \in [width : 0 .. TileWidth, height : 0 .. ce_height]
    BY <1>2 DEF NoBlocks, Blocks
  <2>3. <<>> \in Seq(StoredRow)
    BY EmptySeq
  <2> QED BY <1>3, <1>4, <2>1, <2>2, <2>3 DEF EngineType
<1>7. Progress(engine, "IDLE", 0)
  <2>1. Planned(engine, "IDLE") = NoBlocks /\ engine.blocks = NoBlocks
    BY <1>3 DEF Planned
  <2>2. Total(NoBlocks) = 0 /\ \A o \in Operands : NoBlocks[o] = 0
    BY DEF Total, NoBlocks, Operands
  <2>3. "y" \in Operands /\ "w" \in Operands /\ "x" \in Operands /\ "z" \in Operands
    BY DEF Operands
  <2> QED BY <2>1, <2>2, <2>3, <1>1 DEF Progress, Sent
<1>8. EngineInv(engine, state, fsm_counter)
  BY <1>1, <1>5, <1>6, <1>7 DEF EngineInv, Iteration
<1>9. TypeOK
  <2>1. /\ fsm_counter \in 0 .. tcdm_block_total /\ pending \in 0 .. queue_depth + 1
        /\ ops \in 0 .. MaxOps
    BY <1>1, <1>2
  <2>2. /\ state \in States /\ redmule_query \in BOOLEAN /\ elem_size \in {1, 2}
        /\ compute_able \in Formats \cup {0}
        /\ driver \in {"free", "configured", "running", "waiting"}
    BY <1>1 DEF States
  <2>3. /\ engine.x_buffer \in Rows(ce_height) /\ engine.y_buffer_preload \in Rows(ce_height)
        /\ engine.w_buffer \in Rows(bandwidth)
        /\ engine.z_compute.y \in Rows(ce_height) /\ engine.z_previos.y \in Rows(ce_height)
    BY <1>6, BufferTypes
  <2> QED BY <1>1, <2>1, <2>2, <2>3 DEF TypeOK
<1>10. MaxOps \in Nat /\ DriverInv /\ PendingInv
  BY <1>1, <1>2 DEF DriverInv, PendingInv
<1> QED BY <1>8, <1>9, <1>10 DEF IInv

LEMMA NextInv == IInv /\ [Next]_vars => IInv'
<1> SUFFICES ASSUME IInv, [Next]_vars PROVE IInv'
  OBVIOUS
<1>1. CASE Activate
  <2>1. UNCHANGED <<fold_tiles_mapping, redmule_query, registers, driver, ops>>
    BY <1>1 DEF Activate
  <2>2. CASE \E st \in Phases : Working(st)
    BY <2>1, <2>2, WorkingStep
  <2>3. CASE PreloadDone
    BY <2>1, <2>3, PreloadDoneStep
  <2>4. CASE RoutineDone
    BY <2>1, <2>4, RoutineDoneStep
  <2>5. CASE StoringDone
    BY <2>1, <2>5, StoringDoneStep
  <2>6. CASE Polled
    BY <2>1, <2>6, PolledStep
  <2> QED BY <2>2, <2>3, <2>4, <2>5, <2>6, <1>1 DEF Activate, Phases
<1>2. CASE Acknowledge
  BY <1>2, AcknowledgeStep
<1>3. CASE UNCHANGED vars
  <2>1. Same /\ UNCHANGED <<fsm, ops>> /\ UNCHANGED <<state, redmule_query, driver>>
    BY <1>3 DEF vars, Same, registers, fsm
  <2>2. DriverInv' /\ redmule_query' \in BOOLEAN
        /\ driver' \in {"free", "configured", "running", "waiting"}
    BY <2>1, InvFacts DEF DriverInv, TypeOK
  <2> QED BY <2>1, <2>2, EngineStays
<1>4. CASE driver = "running"
           /\ (Configure \/ AsyncTrigger \/ SyncTrigger \/ \E format \in Formats : Trigger(format))
  BY <1>3, <1>4, BusyStays
<1>5. CASE Configure /\ driver # "running"
  BY <1>5, ConfigureStep
<1>6. ASSUME NEW format \in Formats, Trigger(format), driver # "running" PROVE IInv'
  <2>1. /\ Start(format) /\ driver' = "running" /\ redmule_query' = redmule_query
        /\ elem_size' = IF ~Accepts THEN elem_size ELSE IF format < 4 THEN 2 ELSE 1
    BY <1>6 DEF Trigger
  <2>2. elem_size \in {1, 2} /\ redmule_query \in BOOLEAN /\ DriverInv /\ driver = "configured"
    BY <2>1, <1>6, InvFacts DEF TypeOK, Start
  <2>3. ~redmule_query
    BY <2>2 DEF DriverInv
  <2>4. elem_size' \in {1, 2} /\ redmule_query' \in BOOLEAN /\ ~redmule_query'
    BY <2>1, <2>2, <2>3
  <2> QED BY <2>1, <2>4, <1>6, StartStep
<1>7. CASE AsyncTrigger /\ driver # "running"
  <2>1. /\ Start(0) /\ driver' = "running" /\ redmule_query' = redmule_query
        /\ elem_size' = elem_size
    BY <1>7 DEF AsyncTrigger
  <2>2. elem_size \in {1, 2} /\ redmule_query \in BOOLEAN /\ DriverInv /\ driver = "configured"
    BY <2>1, <1>7, InvFacts DEF TypeOK, Start
  <2>3. ~redmule_query
    BY <2>2 DEF DriverInv
  <2>4. elem_size' \in {1, 2} /\ redmule_query' \in BOOLEAN /\ ~redmule_query'
    BY <2>1, <2>2, <2>3
  <2> QED BY <2>1, <2>4, <1>7, StartStep
<1>8. CASE SyncTrigger /\ driver # "running"
  <2>1. Start(0) /\ driver' = "waiting" /\ redmule_query' = TRUE /\ elem_size' = elem_size
    BY <1>8 DEF SyncTrigger
  <2>2. elem_size' \in {1, 2} /\ redmule_query' \in BOOLEAN /\ redmule_query'
    BY <2>1, InvFacts DEF TypeOK
  <2> QED BY <2>1, <2>2, <1>8, StartStep
<1>9. CASE Wait
  BY <1>9, WaitStep
<1> QED BY <1>1, <1>2, <1>3, <1>4, <1>5, <1>6, <1>7, <1>8, <1>9 DEF Next, Terminating

-----------------------------------------------------------------------------
(* The theorems. *)

\* Whatever the sizes of the engine, of the operation and of its tiles, the
\* buffers and address generators of the engine follow the iteration, through
\* any number of operations and any order of the memory's answers.
THEOREM Invariance == Spec => []IInv
  BY InitInv, NextInv, PTL DEF Spec

\* The variables have their types: among them, the requests outstanding are at
\* most one more than the depth of the queue.
THEOREM TypeCorrect == Spec => []TypeOK
<1>1. IInv => TypeOK
  BY DEF IInv
<1> QED BY <1>1, Invariance, PTL

\* When an iteration starts, nothing of the one before is outstanding, the X
\* tile and the sum with its Y tile are those of this iteration (process_iter
\* in light_redmule.cpp).
THEOREM PipelineCorrect == Spec => []PipelineInStep
<1>1. ASSUME IInv PROVE PipelineInStep
  <2> SUFFICES ASSUME state = "ROUTINE", fsm_counter = 0
               PROVE  /\ pending = 0
                      /\ compute_able # 0 =>
                           /\ Len(engine.z_compute.terms) = engine.k
                           /\ \A r \in 0 .. Cut(shape.m, ce_height, engine.i) - 1 :
                                /\ IsXRow(engine.x_buffer[r], engine.i * ce_height + r, engine.k)
                                /\ IsYRow(engine.z_compute.y[r], engine.i * ce_height + r, engine.j)
    BY DEF PipelineInStep
  <2>1. pending = 0
    BY <1>1, InvFacts DEF PendingInv
  <2>2. ASSUME compute_able # 0
        PROVE  /\ Len(engine.z_compute.terms) = engine.k
               /\ \A r \in 0 .. Cut(shape.m, ce_height, engine.i) - 1 :
                    /\ IsXRow(engine.x_buffer[r], engine.i * ce_height + r, engine.k)
                    /\ IsYRow(engine.z_compute.y[r], engine.i * ce_height + r, engine.j)
    <3> DEFINE e == engine
               st == "ROUTINE"
    <3>1. /\ TypeOK /\ e \in EngineType /\ Iteration(e, st) /\ Computes(e, st)
          /\ Progress(e, st, 0) /\ st \in Phases
      BY <1>1, <2>2, InvFacts DEF Holds, Phases
    <3> HIDE DEF e
    <3>2. /\ InLoop(e) /\ Planned(e, st) \in [Operands -> Nat]
          /\ Planned(e, st)["w"] \in 1 .. bandwidth /\ bandwidth \in Nat
      BY <3>1, PlannedPhase, PlannedRoutine, Sizes
    <3>3. e.blocks["w"] # 0
      <4> DEFINE P == Planned(e, st)
                 B == e.blocks
      <4>1. B \in [Operands -> Nat]
        BY <3>1, FieldTypes
      <4>2. /\ 0 = (P["y"] + P["w"] + P["x"] + P["z"]) - (B["y"] + B["w"] + B["x"] + B["z"])
            /\ B["y"] <= P["y"] /\ B["w"] <= P["w"] /\ B["x"] <= P["x"] /\ B["z"] <= P["z"]
        <5>1. /\ tcdm_block_total = Total(P) /\ 0 = tcdm_block_total - Total(B)
              /\ \A o \in Operands : B[o] <= P[o]
          BY <3>1 DEF Progress
        <5> HIDE DEF P, B
        <5> QED BY <5>1 DEF Total, Operands
      <4>3. /\ P["y"] \in Nat /\ P["w"] \in Nat /\ P["x"] \in Nat /\ P["z"] \in Nat
            /\ B["y"] \in Nat /\ B["w"] \in Nat /\ B["x"] \in Nat /\ B["z"] \in Nat
        BY <3>2, <4>1 DEF Operands
      <4>4. P["w"] \in 1 .. bandwidth
        BY <3>2
      <4> HIDE DEF P, B
      <4>5. B["w"] # 0
        BY <4>2, <4>3, <4>4, <3>2
      <4> QED BY <4>5 DEF B
    <3>4. ~Multiplied(e, st)
      BY <3>3 DEF Multiplied
    <3>5. IsSum(e.z_compute, e.i, e.j, e.k)
      BY <3>1, <3>4 DEF Computes, Computed
    <3>6. XTile(e, st) = e /\ XLoaded(e, st) = Cut(shape.m, ce_height, e.i)
      BY <3>4 DEF XTile, XLoaded
    <3>7. Cut(shape.m, ce_height, e.i) \in 1 .. ce_height /\ ce_height \in Nat
      <4>1. /\ e.i \in 0 .. z_col_tiles - 1 /\ shape.m \in Nat \ {0} /\ ce_height \in Nat \ {0}
        BY <3>1, <3>2, Sizes, FieldTypes DEF InLoop
      <4> QED BY <4>1, TilesFacts DEF z_col_tiles
    <3>8. PICK contents \in {"zero", "garbage"} : XBuffer(e, st, contents)
      BY <3>1 DEF Computes, Operand
    <3>9. ASSUME NEW r \in 0 .. Cut(shape.m, ce_height, e.i) - 1
          PROVE  IsXRow(e.x_buffer[r], e.i * ce_height + r, e.k)
      <4>1. r \in 0 .. ce_height - 1 /\ r < Cut(shape.m, ce_height, e.i)
        BY <3>7
      <4> QED BY <4>1, <3>6, <3>8 DEF XBuffer
    <3> QED BY <3>5, <3>9 DEF IsSum, e
  <2> QED BY <2>1, <2>2
<1> QED BY <1>1, Invariance, PTL

-----------------------------------------------------------------------------
(* The engine implements the abstract one. *)

\* The rows of the result, and those that a sequence of stored rows has.
AllRows == (0 .. shape.m - 1) \X (0 .. z_row_tiles - 1)
ResultsOf(stored) ==
  {rj \in AllRows : \E s \in DOMAIN stored : IsResult(stored[s], rj[1], rj[2])}

\* Each row is stored in a place of its own: as many are stored as are results.
LEMMA StoredResults ==
  ASSUME TypeOK, NEW e, NEW st, Stored(e, st)
  PROVE  ResultsOf(e.stored) = Done(e, st) /\ Len(e.stored) = Cardinality(Done(e, st))
<1>1. Done(e, st) \subseteq ResultsOf(e.stored)
  BY DEF Done, Stored, ResultsOf, AllRows
<1>2. ASSUME NEW q \in ResultsOf(e.stored) PROVE q \in Done(e, st)
  <2>1. PICK s \in DOMAIN e.stored : IsResult(e.stored[s], q[1], q[2])
    BY DEF ResultsOf
  <2>2. PICK rj \in Done(e, st) : IsResult(e.stored[s], rj[1], rj[2])
    BY DEF Stored
  <2>3. q \in AllRows /\ rj \in AllRows
    BY DEF ResultsOf, Done, AllRows
  <2>4. /\ q[1] \in Nat /\ rj[1] \in Nat
        /\ q[2] \in 0 .. z_row_tiles - 1 /\ rj[2] \in 0 .. z_row_tiles - 1
        /\ q = <<q[1], q[2]>> /\ rj = <<rj[1], rj[2]>>
    BY <2>3 DEF AllRows
  <2>5. Location(Y, shape.k, ce_height, TileWidth, q[1], q[2])
          = Location(Y, shape.k, ce_height, TileWidth, rj[1], rj[2])
    BY <2>1, <2>2 DEF IsResult, IsYRow
  <2>6. q[1] = rj[1] /\ q[2] = rj[2]
    BY <2>4, <2>5, ResultInjective
  <2> QED BY <2>4, <2>6
<1> QED BY <1>1, <1>2 DEF Stored

\* One more row of the result is stored.
StoresOne(old, new) ==
  \E rj \in AllRows : /\ rj \notin ResultsOf(old)
                      /\ ResultsOf(new) = ResultsOf(old) \cup {rj}
                      /\ Len(new) = Len(old) + 1

LEMMA StepStores ==
  ASSUME NEW e, NEW f, NEW st, NEW c, NEW o, Stepping(e, f, st, c, o)
  PROVE  f.stored = e.stored \/ StoresOne(e.stored, f.stored)
<1>0. Stepped(e, f, st, c, o)
  BY StepFacts
<1>1. /\ TypeOK /\ e \in EngineType /\ f \in EngineType /\ st \in Phases
      /\ Iteration(e, st) /\ Moves(e, f, o)
      /\ \A p \in Operands : Sent(f, st, p) = IF p = o THEN Sent(e, st, p) + 1
                                              ELSE Sent(e, st, p)
      /\ f.i = e.i /\ f.j = e.j /\ f.k = e.k
  BY <1>0 DEF Stepped
<1>2. o \in Operands /\ "z" \in Operands
  BY Choice DEF Operands, Stepping
<1>3. CASE o # "z"
  BY <1>1, <1>2, <1>3 DEF Moves
<1>4. CASE o = "z"
  <2> DEFINE new == StoredNext(e, Sent(e, st, "z"))
  <2>1. /\ HasPrevious(e, st) /\ StoresNow(e, st)
        /\ Sent(e, st, "z") \in 0 .. Cut(shape.m, ce_height, Behind(e)[1]) - 1
    BY <1>4, StoredRowIsResult
  <2>2. Sent(f, st, "z") = Sent(e, st, "z") + 1
    BY <1>1, <1>2, <1>4
  <2>3. Done(f, st) = Done(e, st) \cup {new} /\ new \notin Done(e, st)
    BY <2>1, <2>2, <1>1, DoneGrows
  <2>4. new \in AllRows
    BY <2>1, <1>1, StoredNextFacts DEF AllRows
  <2> HIDE DEF new
  <2>5. Stored(e, st) /\ Stored(f, st)
    BY StoredStep DEF Stepping, Computes
  <2>6. /\ ResultsOf(e.stored) = Done(e, st) /\ Len(e.stored) = Cardinality(Done(e, st))
        /\ ResultsOf(f.stored) = Done(f, st) /\ Len(f.stored) = Cardinality(Done(f, st))
    BY <2>5, <1>1, StoredResults
  <2>7. Cardinality(Done(f, st)) = Cardinality(Done(e, st)) + 1
    BY <2>3, <1>1, DoneFinite, FS_AddElement
  <2> QED BY <2>3, <2>4, <2>6, <2>7 DEF StoresOne
<1> QED BY <1>3, <1>4

LEMMA AccessStores ==
  ASSUME IInv, NEW st \in Phases, state = st
  PROVE  \/ accessed.stored = engine.stored
         \/ compute_able # 0 /\ StoresOne(engine.stored, accessed.stored)
<1>1. /\ TypeOK /\ PendingInv /\ EngineInv(engine, st, fsm_counter)
      /\ fsm_counter \in Nat
  BY InvFacts DEF PendingInv
<1>2. CASE ~Sends
  BY <1>2 DEF accessed
<1>3. CASE Sends
  <2> DEFINE o == NextOperand(engine)
  <2>1. accessed = Access(engine) /\ fsm_counter < tcdm_block_total
    BY <1>3 DEF accessed, Sends
  <2>2. /\ engine \in EngineType /\ Iteration(engine, st) /\ Progress(engine, st, fsm_counter)
        /\ compute_able = 0 => Untouched(engine)
        /\ compute_able # 0 => Computes(engine, st)
    BY <1>1 DEF EngineInv, Phases
  <2>3. Accessing(engine, st, fsm_counter, o)
    BY <1>1, <2>1, <2>2 DEF Accessing
  <2>4. CASE compute_able = 0
    BY <2>1, <2>2, <2>3, <2>4, UntouchedStep
  <2>5. CASE compute_able # 0
    <3>1. Stepping(engine, accessed, st, fsm_counter, o)
      BY <2>1, <2>2, <2>3, <2>5 DEF Stepping
    <3> QED BY <3>1, <2>5, StepStores
  <2> QED BY <2>4, <2>5
<1> QED BY <1>2, <1>3

\* What follows an iteration leaves the stored rows alone.
LEMMA StoredApart ==
  ASSUME NEW e, "stored" \in DOMAIN e
  PROVE  /\ "stored" \in DOMAIN Routine(e) /\ Routine(e).stored = e.stored
         /\ "stored" \in DOMAIN Storing(e) /\ Storing(e).stored = e.stored
         /\ "stored" \in DOMAIN ForwardYZ(e) /\ ForwardYZ(e).stored = e.stored
         /\ "stored" \in DOMAIN next_iteration(e) /\ next_iteration(e).stored = e.stored
<1>1. "stored" \in DOMAIN Routine(e) /\ Routine(e).stored = e.stored
  BY DEF Routine
<1>2. "stored" \in DOMAIN Storing(e) /\ Storing(e).stored = e.stored
  BY DEF Storing
<1>3. "stored" \in DOMAIN ForwardYZ(e) /\ ForwardYZ(e).stored = e.stored
  BY DEF ForwardYZ
<1>4. "stored" \in DOMAIN next_iteration(e) /\ next_iteration(e).stored = e.stored
  BY DEF next_iteration
<1> QED BY <1>1, <1>2, <1>3, <1>4

\* An activation stores what its access stores.
LEMMA ActivationStores ==
  ASSUME IInv, Activate
  PROVE  \/ engine'.stored = engine.stored
         \/ /\ state # "IDLE" /\ compute_able # 0
            /\ StoresOne(engine.stored, engine'.stored)
<1>1. ASSUME NEW st \in Phases, state = st, engine'.stored = accessed.stored
      PROVE  \/ engine'.stored = engine.stored
             \/ /\ state # "IDLE" /\ compute_able # 0
                /\ StoresOne(engine.stored, engine'.stored)
  <2>1. state # "IDLE"
    BY <1>1 DEF Phases
  <2>2. \/ accessed.stored = engine.stored
        \/ compute_able # 0 /\ StoresOne(engine.stored, accessed.stored)
    BY <1>1, AccessStores
  <2> QED BY <2>1, <2>2, <1>1
<1>2. "PRELOAD" \in Phases /\ "ROUTINE" \in Phases /\ "STORING" \in Phases
  BY DEF Phases
<1>3. CASE \E st \in Phases : Working(st)
  <2>1. PICK st \in Phases : state = st /\ engine' = accessed
    BY <1>3 DEF Working
  <2> QED BY <2>1, <1>1
<1>4. CASE PreloadDone
  <2>1. PICK a : a = accessed
    OBVIOUS
  <2>2. PICK f : f = IF compute_able # 0 THEN ForwardYZ(Routine(a)) ELSE Routine(a)
    OBVIOUS
  <2>3. Leave("PRELOAD", "ROUTINE", f)
    BY <2>1, <2>2, <1>4 DEF PreloadDone
  <2>4. "stored" \in DOMAIN a
    BY <2>1, <2>3, <1>2, Leaving DEF Holds, EngineType
  <2>5. f.stored = a.stored
    BY <2>2, <2>4, StoredApart
  <2>6. state = "PRELOAD" /\ engine' = f
    BY <2>3 DEF Leave
  <2> QED BY <2>1, <2>5, <2>6, <1>1, <1>2
<1>5. CASE RoutineDone
  <2>1. PICK a : a = accessed
    OBVIOUS
  <2>2. PICK n : n = next_iteration(IF compute_able # 0 /\ a.k + 1 = x_row_tiles
                                    THEN ForwardYZ(a) ELSE a)
    OBVIOUS
  <2>3. n = Iterated
    BY <2>1, <2>2 DEF Iterated
  <2>4. PICK next, f : Leave("ROUTINE", next, f) /\ f \in {Routine(n), Storing(n)}
    BY <2>3, <1>5 DEF RoutineDone
  <2>5. "stored" \in DOMAIN a
    BY <2>1, <2>4, <1>2, Leaving DEF Holds, EngineType
  <2>6. "stored" \in DOMAIN n /\ n.stored = a.stored
    BY <2>2, <2>5, StoredApart
  <2>7. f.stored = a.stored
    BY <2>4, <2>6, StoredApart
  <2>8. state = "ROUTINE" /\ engine' = f
    BY <2>4 DEF Leave
  <2> QED BY <2>1, <2>7, <2>8, <1>1, <1>2
<1>6. CASE StoringDone
  <2>1. state = "STORING" /\ engine' = accessed
    BY <1>6 DEF StoringDone, Leave
  <2> QED BY <2>1, <1>1, <1>2
<1>7. CASE Polled
  BY <1>7 DEF Polled
<1> QED BY <1>3, <1>4, <1>5, <1>6, <1>7 DEF Activate, Phases

\* The tiles of a row of the result.
LEMMA RowTiles ==
  ASSUME TypeOK
  PROVE  {j \in 0 .. shape.k - 1 : j * TileWidth < shape.k} = 0 .. z_row_tiles - 1
<1> DEFINE T == Tiles(shape.k, TileWidth)
           K == shape.k
<1>1. K \in Nat \ {0} /\ TileWidth \in Nat \ {0} /\ T \in Nat \ {0} /\ T = z_row_tiles
  BY Sizes DEF z_row_tiles
<1>2. ASSUME NEW j \in 0 .. T - 1 PROVE j \in 0 .. K - 1 /\ j * TileWidth < K
  <2>1. Cut(K, TileWidth, j) \in 1 .. TileWidth /\ j * TileWidth + Cut(K, TileWidth, j) <= K
    BY <1>1, TilesFacts
  <2>2. j \in Nat /\ j * TileWidth \in Nat /\ j <= j * TileWidth
    BY <1>1
  <2> HIDE DEF K, T
  <2>3. j * TileWidth < K
    <3> DEFINE p == j * TileWidth
               q == Cut(K, TileWidth, j)
    <3>1. p \in Nat /\ q \in Nat /\ q >= 1 /\ p + q <= K
      BY <1>1, <2>1, <2>2
    <3> HIDE DEF p, q
    <3>2. p < K
      BY <1>1, <3>1
    <3> QED BY <3>2 DEF p
  <2> QED BY <1>1, <2>2, <2>3
<1>3. ASSUME NEW j \in 0 .. K - 1, j * TileWidth < K PROVE j \in 0 .. T - 1
  <2>1. j \in Nat /\ j * TileWidth \in Nat
    BY <1>1
  <2>2. (j * TileWidth + 0) \div TileWidth = j /\ 0 \in 0 .. TileWidth - 1
    <3>1. 0 \in 0 .. TileWidth - 1
      BY <1>1
    <3> QED BY <3>1, <1>1, <2>1, DivMod
  <2>3. j * TileWidth \in 0 .. K - 1
    BY <2>1, <1>1, <1>3
  <2>4. (j * TileWidth) \div TileWidth \in 0 .. T - 1
    BY <2>3, <1>1, TileOfIndex
  <2>5. j * TileWidth + 0 = j * TileWidth
    BY <2>1
  <2> QED BY <2>2, <2>4, <2>5
<1> HIDE DEF T, K
<1>4. {j \in 0 .. K - 1 : j * TileWidth < K} = 0 .. T - 1
  BY <1>2, <1>3
<1> QED BY <1>1, <1>4 DEF K

\* When the wait is answered, every row is stored.
LEMMA ResultComplete ==
  ASSUME IInv, state = "ACKNOWLEDGE"
  PROVE  /\ Results = AbstractEngine!Product
         /\ Len(engine.stored) = Cardinality(AbstractEngine!Product)
<1>1. TypeOK /\ Holds(engine, "ACKNOWLEDGE")
  BY InvFacts
<1>2. Results = ResultsOf(engine.stored)
  BY DEF Results, ResultsOf, AllRows
<1>3. CASE compute_able = 0
  <2>1. engine.stored = <<>>
    BY <1>1, <1>3 DEF Holds
  <2>2. Results = {} /\ Len(engine.stored) = 0
    BY <2>1 DEF Results
  <2>3. AbstractEngine!Product = {}
    BY <1>3 DEF AbstractEngine!Product
  <2> QED BY <2>2, <2>3, FS_EmptySet
<1>4. CASE compute_able # 0
  <2> DEFINE e == engine
             st == "ACKNOWLEDGE"
  <2>1. Stored(e, st) /\ e.i = z_col_tiles /\ z_col_tiles \in Nat
    BY <1>1, <1>4, Sizes DEF Holds, Computes, Iteration
  <2>2. ResultsOf(e.stored) = Done(e, st) /\ Len(e.stored) = Cardinality(Done(e, st))
    BY <1>1, <2>1, StoredResults
  <2>3. Done(e, st) = AllBefore(<<e.i, e.j>>)
    BY DoneSame DEF StoresNow
  <2>4. AllBefore(<<e.i, e.j>>) = AllRows
    <3>1. ASSUME NEW q \in AllRows PROVE Before(TileOf(q), <<e.i, e.j>>)
      <4>1. TileOf(q)[1] \in 0 .. z_col_tiles - 1
        BY <1>1, TileOfFacts DEF AllRows
      <4> QED BY <4>1, <2>1 DEF Before
    <3> QED BY <3>1 DEF AllBefore, AllRows
  <2>5. AbstractEngine!Product = AllRows
    <3>1. {j \in 0 .. shape.k - 1 : j * TileWidth < shape.k} = 0 .. z_row_tiles - 1
      BY <1>1, RowTiles
    <3> QED BY <3>1, <1>4 DEF AbstractEngine!Product, AllRows
  <2> QED BY <1>2, <2>2, <2>3, <2>4, <2>5
<1> QED BY <1>3, <1>4

\* The abstract engine's variables.
Written == IF Running THEN Results ELSE {}
Stores == IF Running THEN Len(engine.stored) ELSE 0
AbstractVars == <<driver, shape, compute_able, Written, Stores>>

AbstractStep == [AbstractEngine!Next]_AbstractEngine!vars

LEMMA StutterImplements ==
  ASSUME UNCHANGED AbstractVars
  PROVE  AbstractStep
  BY DEF AbstractVars, Written, Stores, AbstractStep, AbstractEngine!vars

\* The same operation, and the same rows of the result.
LEMMA SameResults ==
  ASSUME Same
  PROVE  /\ AllRows' = AllRows
         /\ \A s : ResultsOf(s)' = ResultsOf(s)
         /\ \A s : engine'.stored = s => Results' = ResultsOf(s)
         /\ Results = ResultsOf(engine.stored)
<1>1. AllRows' = AllRows
  BY SameSizes DEF AllRows
<1>2. ASSUME NEW s PROVE ResultsOf(s)' = ResultsOf(s)
  BY <1>1, SameRows DEF ResultsOf
<1>3. ASSUME NEW s, engine'.stored = s PROVE Results' = ResultsOf(s)
  <2>1. Results' = ResultsOf(s)'
    BY <1>3 DEF Results, ResultsOf, AllRows
  <2> QED BY <2>1, <1>2
<1>4. Results = ResultsOf(engine.stored)
  BY DEF Results, ResultsOf, AllRows
<1> QED BY <1>1, <1>2, <1>3, <1>4

LEMMA ActivateImplements ==
  ASSUME IInv, Activate
  PROVE  AbstractStep
<1>1. /\ Same /\ driver' = driver /\ shape' = shape /\ compute_able' = compute_able
      /\ (Running' <=> Running)
  BY DEF Activate, Same, registers, Running
<1>2. PICK s : s = engine'.stored
  OBVIOUS
<1>3. Results' = ResultsOf(s) /\ Results = ResultsOf(engine.stored)
  BY <1>1, <1>2, SameResults
<1>4. CASE s = engine.stored
  <2>1. Written' = Written /\ Stores' = Stores
    BY <1>1, <1>2, <1>3, <1>4 DEF Written, Stores
  <2> QED BY <2>1, <1>1, StutterImplements DEF AbstractVars
<1>5. CASE s # engine.stored
  <2>1. state # "IDLE" /\ compute_able # 0 /\ StoresOne(engine.stored, s)
    BY <1>2, <1>5, ActivationStores
  <2>2. TypeOK /\ Running
    BY <2>1, InvFacts DEF DriverInv, TypeOK, Running
  <2>3. AbstractEngine!Product = AllRows
    <3>1. {j \in 0 .. shape.k - 1 : j * TileWidth < shape.k} = 0 .. z_row_tiles - 1
      BY <2>2, RowTiles
    <3> QED BY <3>1, <2>1 DEF AbstractEngine!Product, AllRows
  <2>4. PICK rj \in AllRows : /\ rj \notin ResultsOf(engine.stored)
                              /\ ResultsOf(s) = ResultsOf(engine.stored) \cup {rj}
                              /\ Len(s) = Len(engine.stored) + 1
    BY <2>1 DEF StoresOne
  <2>5. /\ Written = Results /\ Written' = Results' /\ Stores' = Stores + 1
    BY <1>1, <1>2, <2>2, <2>4 DEF Written, Stores
  <2>6. /\ rj \in AbstractEngine!Product \ Written
        /\ Written' = Written \cup {rj}
    BY <1>3, <2>3, <2>4, <2>5
  <2>7. AbstractEngine!Write
    BY <2>2, <2>5, <2>6, <1>1 DEF AbstractEngine!Write, Written, Stores, Running
  <2> QED BY <2>7 DEF AbstractStep, AbstractEngine!Next
<1> QED BY <1>4, <1>5

LEMMA AcknowledgeImplements ==
  ASSUME IInv, Acknowledge
  PROVE  AbstractStep
<1>1. /\ state = "ACKNOWLEDGE" /\ driver' = "free"
      /\ shape' = shape /\ compute_able' = compute_able
  BY DEF Acknowledge, registers
<1>2. driver = "waiting"
  BY <1>1, InvFacts DEF DriverInv
<1>3. /\ Written = AbstractEngine!Product
      /\ Stores = Cardinality(AbstractEngine!Product)
  BY <1>1, <1>2, ResultComplete DEF Written, Stores, Running
<1>4. Written' = {} /\ Stores' = 0
  BY <1>1 DEF Written, Stores, Running
<1>5. AbstractEngine!Cardinality(AbstractEngine!Product) = Cardinality(AbstractEngine!Product)
  BY DEF AbstractEngine!Cardinality, Cardinality
<1>6. AbstractEngine!Answer
  BY <1>1, <1>2, <1>3, <1>4, <1>5 DEF AbstractEngine!Answer, Written, Stores
<1> QED BY <1>6 DEF AbstractStep, AbstractEngine!Next

LEMMA ConfigureImplements ==
  ASSUME IInv, Configure, driver # "running"
  PROVE  AbstractStep
<1>1. driver = "free" /\ driver' = "configured" /\ compute_able' = compute_able
  BY DEF Configure
<1>2. state = "IDLE"
  BY <1>1, InvFacts DEF DriverInv
<1>3. shape' \in Shapes
  BY <1>2 DEF Configure, Accepts
<1>4. Written' = Written /\ Stores' = Stores
  BY <1>1 DEF Written, Stores, Running
<1>5. AbstractEngine!Configure
  BY <1>1, <1>3, <1>4 DEF AbstractEngine!Configure, Written, Stores
<1> QED BY <1>5 DEF AbstractStep, AbstractEngine!Next

LEMMA StartImplements ==
  ASSUME IInv, NEW format \in Formats \cup {0}, Start(format),
         driver # "running", driver' \in {"running", "waiting"}
  PROVE  AbstractStep
<1>1. driver = "configured"
  BY DEF Start
<1>2. state = "IDLE"
  BY <1>1, InvFacts DEF DriverInv
<1>3. /\ engine' = Preload(Meta(engine)) /\ compute_able' = format /\ shape' = shape
  BY <1>2 DEF Start, Accepts
<1>4. TypeOK /\ engine \in EngineType
  BY InvFacts DEF Holds
<1>5. engine'.stored = <<>>
  BY <1>3, <1>4, PreloadFields
<1>6. Results' = {} /\ Len(engine'.stored) = 0
  BY <1>5 DEF Results
<1>7. Written = {} /\ Stores = 0 /\ Written' = {} /\ Stores' = 0
  BY <1>1, <1>6 DEF Written, Stores, Running
<1>8. AbstractEngine!Trigger
  BY <1>1, <1>3, <1>7 DEF AbstractEngine!Trigger, Written, Stores
<1> QED BY <1>8 DEF AbstractStep, AbstractEngine!Next

LEMMA WaitImplements ==
  ASSUME IInv, Wait
  PROVE  AbstractStep
<1>1. /\ driver = "running" /\ Same /\ engine' = engine
      /\ shape' = shape /\ compute_able' = compute_able
  BY DEF Wait, Same, registers, fsm
<1>2. state # "IDLE" /\ ~redmule_query
  BY <1>1, InvFacts DEF DriverInv
<1>3. driver' = "waiting"
  BY <1>2 DEF Wait
<1>4. Results' = Results /\ engine'.stored = engine.stored
  BY <1>1, SameResults
<1>5. Written' = Written /\ Stores' = Stores
  BY <1>1, <1>3, <1>4 DEF Written, Stores, Running
<1>6. AbstractEngine!Wait
  BY <1>1, <1>3, <1>5 DEF AbstractEngine!Wait, Written, Stores
<1> QED BY <1>6 DEF AbstractStep, AbstractEngine!Next

\* The engine stores each row of the product once, at its place and with every
\* term of its sum, before the core that waits for it goes on, and nothing
\* between two operations (fsm_handler in light_redmule.cpp with flex_redmule.h
\* implements MatrixEngine, but for what happens eventually).
THEOREM EngineRefinement == Spec => AbstractEngine!SafeSpec
<1>1. Init => AbstractEngine!Init
  BY DEF Init, AbstractEngine!Init, Running
<1>2. IInv /\ [Next]_vars => AbstractStep
  <2> SUFFICES ASSUME IInv, [Next]_vars PROVE AbstractStep
    OBVIOUS
  <2>1. CASE Activate
    BY <2>1, ActivateImplements
  <2>2. CASE Acknowledge
    BY <2>2, AcknowledgeImplements
  <2>3. CASE UNCHANGED vars
    <3>1. Same /\ UNCHANGED <<driver, shape, compute_able, engine>>
      BY <2>3 DEF vars, fsm, registers, Same
    <3>2. Results' = Results
      BY <3>1, SameResults
    <3>3. Written' = Written /\ Stores' = Stores
      BY <3>1, <3>2 DEF Written, Stores, Running
    <3> QED BY <3>1, <3>3, StutterImplements DEF AbstractVars
  <2>4. CASE driver = "running"
             /\ (Configure \/ AsyncTrigger \/ SyncTrigger \/ \E format \in Formats : Trigger(format))
    BY <2>3, <2>4, BusyStays
  <2>5. CASE Configure /\ driver # "running"
    BY <2>5, ConfigureImplements
  <2>6. CASE /\ driver # "running"
             /\ AsyncTrigger \/ SyncTrigger \/ \E format \in Formats : Trigger(format)
    <3>1. PICK format \in Formats \cup {0} :
            Start(format) /\ driver' \in {"running", "waiting"}
      BY <2>6 DEF AsyncTrigger, SyncTrigger, Trigger
    <3> QED BY <2>6, <3>1, StartImplements
  <2>7. CASE Wait
    BY <2>7, WaitImplements
  <2> QED BY <2>1, <2>2, <2>3, <2>4, <2>5, <2>6, <2>7 DEF Next, Terminating
<1> QED BY <1>1, <1>2, Invariance, PTL DEF Spec, AbstractStep, AbstractEngine!SafeSpec
=============================================================================
