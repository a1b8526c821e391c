--------------------------- MODULE HiveDiskProofs ---------------------------
(***************************************************************************)
(* Proofs about the stable store and its copy in the primary file, on top  *)
(* of those about the allocator.  The types and the free lists, which a    *)
(* load makes anew, are right for all requests.  That the dirty bits cover *)
(* all changes to cell headers and to the contents of cells in use is      *)
(* proved for requests that fit into a bin of one block: the bits of a     *)
(* larger cell do not reach its second block, as the run                   *)
(* HiveDiskManyBlocks shows.                                               *)
(***************************************************************************)
EXTENDS HiveDisk, HiveCellsProofs

-----------------------------------------------------------------------------
(* The lists that a load makes *)

\* The first n offsets at which a free cell starts.
FreeBelow(d, n) == {o \in FreeCells(d) : o < n}

\* g gives the lists after a walk over the cells of each subset of T.
Walks(d, T, g) ==
  g = [s \in SUBSET T |->
        IF s = {} THEN EmptyDual.FreeDisplay
        ELSE HvpAddFree(g[s \ {Max(s)}], Max(s), d.Cell[Max(s)])]

\* The lists f hold the free cells of s, by class and each once.
Holds(d, s, f) ==
  /\ f \in ListsType
  /\ \A k \in Lists :
       /\ IsInjective(f[k])
       /\ Range(f[k]) = {o \in s : HvpComputeFreeListIndex(d.Cell[o]) = k}

\* A function gives the lists of each subset of T, and only right ones.
Walkable(d, T) ==
  /\ \E g : Walks(d, T, g)
  /\ \A g : Walks(d, T, g) => \A s \in SUBSET T : Holds(d, s, g[s])

\* The last cell of a set that reaches up to m is m.
LEMMA MaxIsLast ==
  ASSUME NEW s, NEW m \in s, s \subseteq Int, \A o \in s : o <= m
  PROVE  Max(s) = m
<1>1. m \in Int /\ \A y \in s : m >= y
  OBVIOUS
<1>2. \A x \in s : (\A y \in s : x >= y) => x = m
  BY <1>1
<1>3. QED
  BY <1>1, <1>2 DEF Max

\* The walk over no cells leaves the lists empty.
LEMMA WalkNothing ==
  ASSUME NEW d
  PROVE  Walkable(d, {})
<1>1. Walks(d, {}, [s \in SUBSET {} |-> EmptyDual.FreeDisplay])
  BY DEF Walks
<1>2. Holds(d, {}, EmptyDual.FreeDisplay)
  <2>1. DOMAIN << >> = {} /\ << >> \in Seq(Offsets)
    OBVIOUS
  <2>2. IsInjective(<< >>) /\ Range(<< >>) = {}
    BY <2>1 DEF IsInjective, Range
  <2>3. EmptyDual.FreeDisplay = [k \in Lists |-> << >>]
    BY DEF EmptyDual
  <2>4. QED
    BY <2>1, <2>2, <2>3 DEF Holds, ListsType
<1>3. ASSUME NEW g, Walks(d, {}, g) PROVE \A s \in SUBSET {} : Holds(d, s, g[s])
  <2>1. g[{}] = EmptyDual.FreeDisplay
    BY <1>3 DEF Walks
  <2>2. QED
    BY <2>1, <1>2
<1>4. QED
  BY <1>1, <1>3 DEF Walkable

\* One more cell, behind all others, is pushed last on the list of its class.
LEMMA WalkOn ==
  ASSUME NEW d, d.Cell \in [Offsets -> Int], NEW T \in SUBSET FreeCells(d), Walkable(d, T),
         NEW m \in FreeCells(d), \A o \in T : o < m
  PROVE  Walkable(d, T \cup {m})
<1>1. PICK g : Walks(d, T, g)
  BY DEF Walkable
<1>2. \A o \in FreeCells(d) : o \in Offsets /\ o \in Int /\ d.Cell[o] \in Nat \ {0}
  BY HBLOCKAssumption, MaxBlocksAssumption DEF FreeCells, Offsets
<1> DEFINE U == T \cup {m}
           h == [s \in SUBSET U |->
                  IF m \in s THEN HvpAddFree(g[s \ {m}], m, d.Cell[m]) ELSE g[s]]
<1>3. \A s \in SUBSET U : m \in s => Max(s) = m /\ s \ {m} \in SUBSET T
  <2> SUFFICES ASSUME NEW s \in SUBSET U, m \in s PROVE Max(s) = m /\ s \ {m} \in SUBSET T
    OBVIOUS
  <2>1. s \subseteq Int /\ \A o \in s : o <= m
    BY <1>2
  <2>2. QED
    BY <2>1, MaxIsLast
<1>4. m \notin T
  BY <1>2
<1>5. \A s \in SUBSET U : m \notin s => s \in SUBSET T /\ s \ {Max(s)} \in SUBSET T
  OBVIOUS
<1>6. /\ g[{}] = EmptyDual.FreeDisplay
      /\ \A s \in SUBSET T : s # {} =>
           g[s] = HvpAddFree(g[s \ {Max(s)}], Max(s), d.Cell[Max(s)])
  BY <1>1 DEF Walks
<1>7. /\ \A s \in SUBSET T : h[s] = g[s]
      /\ \A s \in SUBSET U : m \in s => h[s] = HvpAddFree(g[s \ {m}], m, d.Cell[m])
  BY <1>4
<1>8. Walks(d, U, h)
  <2>1. ASSUME NEW s \in SUBSET U
        PROVE  h[s] = IF s = {} THEN EmptyDual.FreeDisplay
                      ELSE HvpAddFree(h[s \ {Max(s)}], Max(s), d.Cell[Max(s)])
    <3> HIDE DEF h, U
    <3>1. CASE s = {}
      BY <3>1, <1>6, <1>7
    <3>2. CASE m \in s
      <4>1. h[s \ {m}] = g[s \ {m}] /\ Max(s) = m
        BY <3>2, <1>3, <1>7
      <4>2. h[s] = HvpAddFree(g[s \ {m}], m, d.Cell[m])
        BY <3>2, <1>7
      <4>3. s # {}
        BY <3>2
      <4>4. QED
        BY <4>1, <4>2, <4>3
    <3>3. CASE s # {} /\ m \notin s
      <4>1. s \in SUBSET T /\ s \ {Max(s)} \in SUBSET T
        BY <3>3, <1>5
      <4>2. h[s] = g[s] /\ h[s \ {Max(s)}] = g[s \ {Max(s)}]
        BY <4>1, <1>7
      <4>3. g[s] = HvpAddFree(g[s \ {Max(s)}], Max(s), d.Cell[Max(s)])
        BY <3>3, <4>1, <1>6
      <4>4. QED
        BY <3>3, <4>2, <4>3
    <3>4. QED
      BY <3>1, <3>2, <3>3
  <2>2. h = [s \in SUBSET U |-> h[s]]
    OBVIOUS
  <2> HIDE DEF h, U
  <2>3. h = [s \in SUBSET U |->
              IF s = {} THEN EmptyDual.FreeDisplay
              ELSE HvpAddFree(h[s \ {Max(s)}], Max(s), d.Cell[Max(s)])]
    BY <2>1, <2>2, Zenon
  <2>4. QED
    BY <2>3 DEF Walks
<1> HIDE DEF h
<1>9. ASSUME NEW w, Walks(d, U, w), NEW s \in SUBSET U
      PROVE  Holds(d, s, w[s])
  <2> DEFINE v == [r \in SUBSET T |-> w[r]]
  <2>1. \A r \in SUBSET U :
          w[r] = IF r = {} THEN EmptyDual.FreeDisplay
                 ELSE HvpAddFree(w[r \ {Max(r)}], Max(r), d.Cell[Max(r)])
    BY <1>9 DEF Walks
  <2>2. Walks(d, T, v)
    <3>1. \A r \in SUBSET T : r \in SUBSET U /\ r \ {Max(r)} \in SUBSET T
      OBVIOUS
    <3>2. \A r \in SUBSET T : v[r] = w[r]
      OBVIOUS
    <3>3. v = [r \in SUBSET T |-> v[r]]
      OBVIOUS
    <3> HIDE DEF v, U
    <3>4. \A r \in SUBSET T :
            v[r] = IF r = {} THEN EmptyDual.FreeDisplay
                   ELSE HvpAddFree(v[r \ {Max(r)}], Max(r), d.Cell[Max(r)])
      BY <2>1, <3>1, <3>2
    <3>5. v = [r \in SUBSET T |->
                IF r = {} THEN EmptyDual.FreeDisplay
                ELSE HvpAddFree(v[r \ {Max(r)}], Max(r), d.Cell[Max(r)])]
      BY <3>3, <3>4, Zenon
    <3>6. QED
      BY <3>5 DEF Walks
  <2>3. \A r \in SUBSET T : Holds(d, r, w[r])
    <3>1. \A r \in SUBSET T : v[r] = w[r]
      OBVIOUS
    <3> HIDE DEF v
    <3>2. QED
      BY <2>2, <3>1 DEF Walkable
  <2>4. CASE m \notin s
    BY <2>3, <2>4, <1>5
  <2>5. CASE m \in s
    <3> DEFINE t == s \ {m}
               f == w[t]
               z == d.Cell[m]
    <3>1. t \in SUBSET T /\ Holds(d, t, f)
      BY <2>3, <2>5, <1>3
    <3>2. w[s] = HvpAddFree(f, m, z)
      BY <2>1, <2>5, <1>3
    <3>3. m \notin t /\ s = t \cup {m} /\ z = d.Cell[m] /\ z \in Nat \ {0} /\ m \in Offsets
      BY <2>5, <1>2
    <3> HIDE DEF t, f, z
    <3>4. f \in ListsType /\ \A k \in Lists : IsInjective(f[k]) /\ m \notin Range(f[k])
      BY <3>1, <3>3 DEF Holds
    <3>5. /\ HvpAddFree(f, m, z) \in ListsType
          /\ \A k \in Lists :
               /\ IsInjective(HvpAddFree(f, m, z)[k])
               /\ Range(HvpAddFree(f, m, z)[k]) =
                    IF k = HvpComputeFreeListIndex(z) THEN Range(f[k]) \cup {m}
                    ELSE Range(f[k])
      BY <3>3, <3>4, AddFreeFacts
    <3>6. ASSUME NEW k \in Lists
          PROVE  Range(HvpAddFree(f, m, z)[k]) =
                   {o \in s : HvpComputeFreeListIndex(d.Cell[o]) = k}
      <4>1. Range(f[k]) = {o \in t : HvpComputeFreeListIndex(d.Cell[o]) = k}
        BY <3>1 DEF Holds
      <4>2. QED
        BY <3>3, <3>5, <4>1
    <3>7. QED
      BY <3>2, <3>5, <3>6 DEF Holds
  <2>6. QED
    BY <2>4, <2>5
<1> HIDE DEF U
<1>10. QED
  BY <1>8, <1>9 DEF Walkable, U

\* The walk over all free cells can be made, however many there are.
LEMMA WalkAll ==
  ASSUME NEW d, d.Cell \in [Offsets -> Int]
  PROVE  Walkable(d, FreeCells(d))
<1> DEFINE Bad == {n \in Nat : ~Walkable(d, FreeBelow(d, n))}
<1>1. Bad = {}
  <2> SUFFICES ASSUME Bad # {} PROVE FALSE
    OBVIOUS
  <2> DEFINE n == Min(Bad)
  <2>1. n \in Bad /\ \A i \in Bad : n <= i
    BY MinFacts
  <2> HIDE DEF n
  <2>2. n \in Nat /\ ~Walkable(d, FreeBelow(d, n))
    BY <2>1
  <2>3. \A o \in FreeCells(d) : o \in Nat
    BY HBLOCKAssumption, MaxBlocksAssumption DEF FreeCells, Offsets
  <2>4. n # 0
    <3>1. FreeBelow(d, 0) = {}
      BY <2>3 DEF FreeBelow
    <3>2. QED
      BY <2>2, <3>1, WalkNothing
  <2>5. n - 1 \in Nat /\ Walkable(d, FreeBelow(d, n - 1))
    BY <2>1, <2>2, <2>4
  <2>6. CASE n - 1 \in FreeCells(d)
    <3>1. FreeBelow(d, n) = FreeBelow(d, n - 1) \cup {n - 1}
      BY <2>2, <2>3, <2>6 DEF FreeBelow
    <3>2. /\ FreeBelow(d, n - 1) \in SUBSET FreeCells(d)
          /\ \A o \in FreeBelow(d, n - 1) : o < n - 1
      BY DEF FreeBelow
    <3>3. QED
      BY <2>2, <2>5, <2>6, <3>1, <3>2, WalkOn
  <2>7. CASE n - 1 \notin FreeCells(d)
    <3>1. FreeBelow(d, n) = FreeBelow(d, n - 1)
      BY <2>2, <2>3, <2>7 DEF FreeBelow
    <3>2. QED
      BY <2>2, <2>5, <3>1
  <2>8. QED
    BY <2>6, <2>7
<1>2. MaxBlocks * HBLOCK \in Nat
  BY HBLOCKAssumption, MaxBlocksAssumption
<1>3. FreeBelow(d, MaxBlocks * HBLOCK) = FreeCells(d)
  BY <1>2 DEF FreeBelow, FreeCells, Offsets
<1>4. QED
  BY <1>1, <1>2, <1>3

\* HvpCreateHiveFreeCellList puts every free cell on the list of its class.
LEMMA LoadedLists ==
  ASSUME NEW d, d.Cell \in [Offsets -> Int]
  PROVE  Holds(d, FreeCells(d), HvpCreateHiveFreeCellList(d))
<1> DEFINE F == FreeCells(d)
           g == CHOOSE g : Walks(d, F, g)
<1>1. HvpCreateHiveFreeCellList(d) = g[F]
  BY DEF HvpCreateHiveFreeCellList, MapThenFoldSet, Walks
<1>2. Walkable(d, F)
  BY WalkAll
<1>3. Walks(d, F, g)
  BY <1>2 DEF Walkable
<1> HIDE DEF g
<1>4. Holds(d, F, g[F])
  BY <1>2, <1>3 DEF Walkable
<1>5. QED
  BY <1>1, <1>4

-----------------------------------------------------------------------------
(* What an operation changes, and marks *)

\* Every block with a header that d does not share with c is dirty in d.
Marks(c, d) == c.Dirty \subseteq d.Dirty /\ NewHeaders(c, d) \subseteq d.Dirty

\* All bins are of one block.
OneBlockBins(d) == \A b \in Bins(d) : d.BinSize[b] = 1

\* One operation after the other marks what both change.
LEMMA MarksBoth ==
  ASSUME NEW c, NEW d, NEW e, Marks(c, d), Marks(d, e)
  PROVE  Marks(c, e)
<1> SUFFICES ASSUME NEW p \in Cells(e), e.Cell[p] # c.Cell[p]
             PROVE  HvGetCellBlock(p) \in e.Dirty
  BY DEF Marks, NewHeaders
<1>1. CASE e.Cell[p] # d.Cell[p]
  BY <1>1 DEF Marks, NewHeaders
<1>2. CASE e.Cell[p] = d.Cell[p]
  <2>1. p \in Cells(d) /\ d.Cell[p] # c.Cell[p]
    BY <1>2 DEF Cells
  <2>2. QED
    BY <2>1 DEF Marks, NewHeaders
<1>3. QED
  BY <1>1, <1>2

\* Stores with the same bins agree on whether these are of one block.
LEMMA SameBinsOneBlock ==
  ASSUME NEW d, NEW e, SameBins(d, e), OneBlockBins(d)
  PROVE  OneBlockBins(e)
BY SameBinsFacts DEF SameBins, OneBlockBins

\* The bits of a cell that does not start on a block boundary reach its block.
LEMMA DirtyReaches ==
  ASSUME NEW o \in Nat, NEW b \in Nat, b * HBLOCK < o, o < b * HBLOCK + HBLOCK
  PROVE  HvGetCellBlock(o) = b /\ b \in DirtyBits(o)
<1> DEFINE w == 16 * HBLOCK
           x == 16 * o + 16 * HBLOCK - 1
           q == x \div w
<1>1. HBLOCK \in Nat /\ HBLOCK > 3 /\ b * HBLOCK \in Nat
  BY HBLOCKAssumption
<1>2. HvGetCellBlock(o) = b
  <2>1. (b + 1) * HBLOCK = b * HBLOCK + HBLOCK
    BY <1>1
  <2>2. HvGetCellBlock(o) \in b .. (b + 1) - 1
    BY <1>1, <2>1, BlockBounds
  <2>3. QED
    BY <2>2
<1>3. x \in Nat /\ w \in Nat /\ w > 0 /\ x >= 16 * (b * HBLOCK) + w + 15
  BY <1>1
<1>4. q \in Nat /\ x < w * q + w
  <2> HIDE DEF w, x
  <2>1. QED
    BY <1>3
<1>5. b + 1 <= q
  <2> SUFFICES ASSUME q <= b PROVE FALSE
    BY <1>4
  <2>1. PICK n \in Nat : b = q + n
    <3>1. b - q \in Nat /\ b = q + (b - q)
      BY <1>4
    <3>2. QED
      BY <3>1
  <2> HIDE DEF q, x
  <2>2. w * b = w * q + w * n /\ w * n \in Nat
    BY <1>1, <1>4, <2>1
  <2>3. w * b = 16 * (b * HBLOCK)
    BY <1>1
  <2> HIDE DEF w
  <2>4. w * q \in Nat /\ w * b \in Nat
    BY <1>3, <1>4
  <2>5. QED
    BY <1>3, <1>4, <2>2, <2>3, <2>4
<1>6. b \in b .. q - 1
  BY <1>4, <1>5
<1>7. QED
  BY <1>2, <1>6, StableAssumption DEF DirtyBits

\* A cell of a one-block bin lies in one block, and its bits reach that block.
LEMMA CellInBlock ==
  ASSUME NEW d, Sound(d), OneBlockBins(d), NEW q \in Cells(d),
         NEW p \in Int, q <= p, p < CellEnd(d, q)
  PROVE  HvGetCellBlock(p) = HvGetCellBlock(q) /\ HvGetCellBlock(p) \in DirtyBits(p)
<1> DEFINE b == BinOf(d, q)
<1>1. d \in DualType /\ BinsTile(d) /\ CellsTile(d)
  BY DEF Sound
<1>2. /\ b \in Bins(d) /\ b * HBLOCK + HBIN <= q
      /\ q \in Nat /\ CellEnd(d, q) \in Nat /\ CellEnd(d, q) <= BinEnd(d, b)
  BY <1>1, CellBounds
<1>3. b \in Nat /\ b * HBLOCK \in Nat
  BY <1>1, <1>2, BinBounds
<1> HIDE DEF b
<1>4. BinEnd(d, b) = b * HBLOCK + HBLOCK
  <2>1. d.BinSize[b] = 1
    BY <1>2 DEF OneBlockBins
  <2>2. QED
    BY <2>1, <1>3, HBLOCKAssumption DEF BinEnd
<1>5. /\ p \in Nat /\ b * HBLOCK < p /\ p < b * HBLOCK + HBLOCK
      /\ b * HBLOCK < q /\ q < b * HBLOCK + HBLOCK
  BY <1>2, <1>3, <1>4, HBLOCKAssumption DEF HBIN
<1>6. QED
  BY <1>2, <1>3, <1>5, DirtyReaches

\* A cell and its bits.
LEMMA CellMarked ==
  ASSUME NEW d, Sound(d), OneBlockBins(d), NEW q \in Cells(d)
  PROVE  HvGetCellBlock(q) \in DirtyBits(q)
<1>1. q \in Int /\ q < CellEnd(d, q)
  BY CellBounds DEF Sound
<1>2. QED
  BY <1>1, CellInBlock

\* The contents of a cell in use lie in the block of its header.
LEMMA SpanInBlock ==
  ASSUME NEW d, Sound(d), OneBlockBins(d), NEW o \in AllocatedCells(d)
  PROVE  Span(o, -d.Cell[o]) = {HvGetCellBlock(o)}
<1>1. d.Cell[o] \in Int /\ d.Cell[o] < 0 /\ o \in Cells(d)
  BY DEF Sound, DualType, AllocatedCells, Cells
<1>2. CellEnd(d, o) = o + (-d.Cell[o])
  BY <1>1 DEF CellEnd, Abs
<1>3. o \in Nat /\ CellEnd(d, o) \in Nat /\ o < CellEnd(d, o)
  BY <1>1, CellBounds DEF Sound
<1>4. HvGetCellBlock(CellEnd(d, o) - 1) = HvGetCellBlock(o)
  BY <1>1, <1>3, CellInBlock
<1>5. o + (-d.Cell[o]) - 1 = CellEnd(d, o) - 1
  BY <1>1, <1>2, <1>3
<1>6. \A b \in Int : b .. b = {b}
  OBVIOUS
<1>7. HvGetCellBlock(o) \in Int
  BY <1>3, HBLOCKAssumption DEF HvGetCellBlock
<1>8. Span(o, -d.Cell[o]) = HvGetCellBlock(o) .. HvGetCellBlock(o)
  <2>1. Span(o, -d.Cell[o]) = HvGetCellBlock(o) .. HvGetCellBlock(o + (-d.Cell[o]) - 1)
    BY DEF Span
  <2>2. QED
    BY <1>4, <1>5, <2>1
<1>9. QED
  BY <1>6, <1>7, <1>8

\* Using a free cell marks it and what is split off.
LEMMA CarveMarks ==
  ASSUME NEW d, Sound(d), OneBlockBins(d), NEW o \in FreeCells(d),
         NEW s \in Nat \ {0}, s <= d.Cell[o]
  PROVE  /\ Marks(d, Carve(d, o, s)) /\ SameBins(d, Carve(d, o, s))
         /\ HvGetCellBlock(o) \in Carve(d, o, s).Dirty
<1> DEFINE e == Carve(d, o, s)
           size == d.Cell[o]
           r == o + s
<1>1. /\ d \in DualType /\ d.Cell \in [Offsets -> Int] /\ d.Dirty \subseteq Blocks
      /\ o \in Offsets /\ o \in Cells(d) /\ size \in Nat \ {0}
  BY DEF Sound, DualType, FreeCells, Cells
<1>2. CellEnd(d, o) = o + size /\ o \in Nat
  <2>1. Abs(size) = size
    BY <1>1 DEF Abs
  <2>2. QED
    BY <1>1, <2>1, CellBounds DEF CellEnd, Sound
<1>3. HvGetCellBlock(o) \in DirtyBits(o)
  BY <1>1, CellMarked
<1>4. CASE size > s + 1
  <2>1. /\ e.Dirty = d.Dirty \cup DirtyBits(r) \cup DirtyBits(o)
        /\ e.Cell = [d.Cell EXCEPT ![o] = -s, ![r] = size - s]
        /\ SameBins(d, e)
    BY <1>1, <1>4 DEF Carve, DualType, SameBins
  <2>2. HvGetCellBlock(r) \in DirtyBits(r)
    <3>1. r \in Int /\ o <= r /\ r < CellEnd(d, o)
      BY <1>1, <1>2, <1>4
    <3>2. QED
      BY <1>1, <3>1, CellInBlock
  <2>3. \A p \in Offsets : p # o /\ p # r => e.Cell[p] = d.Cell[p]
    BY <1>1, <2>1
  <2> HIDE DEF e, r
  <2>4. QED
    BY <1>3, <2>1, <2>2, <2>3 DEF Marks, NewHeaders, Cells, e
<1>5. CASE ~(size > s + 1)
  <2>1. /\ e.Dirty = d.Dirty \cup DirtyBits(o)
        /\ e.Cell = [d.Cell EXCEPT ![o] = -size]
        /\ SameBins(d, e)
    BY <1>1, <1>5 DEF Carve, DualType, SameBins
  <2>2. \A p \in Offsets : p # o => e.Cell[p] = d.Cell[p]
    BY <1>1, <2>1
  <2> HIDE DEF e
  <2>3. QED
    BY <1>3, <2>1, <2>2 DEF Marks, NewHeaders, Cells, e
<1>6. QED
  BY <1>4, <1>5

\* A new bin is marked, and of one block when the cell fits into that.
LEMMA AddBinMarks ==
  ASSUME NEW d, Sound(d), OneBlockBins(d), NEW s \in Nat \ {0}, Room(d, s),
         s + HBIN <= HBLOCK
  PROVE  LET e == HvpAddBin(d, s)
         IN  /\ Marks(d, e) /\ OneBlockBins(e)
             /\ e.Length = d.Length + 1 /\ d.Length \in e.Dirty
<1> DEFINE e   == HvpAddBin(d, s)
           b   == d.Length
           new == b * HBLOCK + HBIN
<1>1. /\ d \in DualType /\ d.Cell \in [Offsets -> Int] /\ d.Dirty \subseteq Blocks
      /\ b \in Nat /\ d.BinSize \in [Blocks -> 0 .. MaxBlocks]
  BY MaxBlocksAssumption DEF Sound, DualType
<1>2. BinBlocks(s) = 1
  <2>1. s + HBIN + HBLOCK - 1 >= HBLOCK /\ s + HBIN + HBLOCK - 1 < 2 * HBLOCK
    BY HBLOCKAssumption DEF HBIN
  <2>2. QED
    BY <2>1, HBLOCKAssumption DEF BinBlocks, HBIN
<1>3. b \in Blocks
  BY <1>1, <1>2, MaxBlocksAssumption DEF Room, Blocks
<1>4. /\ e.Length = b + 1 /\ e.Dirty = d.Dirty \cup b .. b + 1 - 1
      /\ e.BinSize = [d.BinSize EXCEPT ![b] = 1]
      /\ e.Cell = [d.Cell EXCEPT ![new] = 1 * HBLOCK - HBIN]
  BY <1>1, <1>2, StableAssumption DEF HvpAddBin, DualType
<1>5. b \in e.Dirty
  BY <1>1, <1>4
<1>6. HvGetCellBlock(new) = b
  BY <1>1, HBLOCKAssumption, DirtyReaches DEF HBIN
<1>7. \A p \in Offsets : p # new => e.Cell[p] = d.Cell[p]
  BY <1>1, <1>4
<1>8. \A i \in Blocks : e.BinSize[i] = IF i = b THEN 1 ELSE d.BinSize[i]
  BY <1>1, <1>3, <1>4
<1> HIDE DEF e, new
<1>9. Marks(d, e)
  BY <1>4, <1>5, <1>6, <1>7 DEF Marks, NewHeaders, Cells
<1>10. OneBlockBins(e)
  BY <1>8 DEF OneBlockBins, Bins
<1>11. QED
  BY <1>4, <1>5, <1>9, <1>10 DEF e

\* Taking a cell marks it, its contents, and the bin it was made from.
LEMMA AllocateMarks ==
  ASSUME NEW d, Inv(d), OneBlockBins(d), NEW Size \in Nat, NEW memory \in BOOLEAN,
         CellUnits(Size) + HBIN <= HBLOCK
  PROVE  LET r == HvAllocateCell(d, Size, memory)
         IN  /\ Marks(d, r.dual) /\ OneBlockBins(r.dual)
             /\ d.Length .. r.dual.Length - 1 \subseteq r.dual.Dirty
             /\ Taken(r) \subseteq r.dual.Dirty
<1> DEFINE r   == HvAllocateCell(d, Size, memory)
           s   == CellUnits(Size)
           o   == HvpFindFree(d, s)
           new == d.Length * HBLOCK + HBIN
<1>1. s \in Nat \ {0} /\ s + HBIN <= HBLOCK
  BY UnitsPositive
<1>2. /\ Sound(d) /\ ListsBut(d, {}) /\ d \in DualType /\ BinsTile(d) /\ CellsTile(d)
      /\ d.Length \in Nat
  BY MaxBlocksAssumption DEF Inv, Sound, DualType
<1>3. \A n \in Nat : n .. n - 1 = {} /\ n .. (n + 1) - 1 = {n}
  OBVIOUS
<1> HIDE DEF s
<1>4. ASSUME NEW x, NEW e, r = [index |-> x, dual |-> e], x # HCELL_NIL, Marks(d, e),
             OneBlockBins(e), d.Length .. e.Length - 1 \subseteq e.Dirty,
             HvGetCellBlock(x) \in e.Dirty
      PROVE  /\ Marks(d, r.dual) /\ OneBlockBins(r.dual)
             /\ d.Length .. r.dual.Length - 1 \subseteq r.dual.Dirty
             /\ Taken(r) \subseteq r.dual.Dirty
  <2>1. Inv(r.dual) /\ r.index \in AllocatedCells(r.dual)
    BY <1>4, AllocateKeepsInv
  <2>2. r.index = x /\ r.dual = e
    BY <1>4
  <2> HIDE DEF r
  <2>3. Span(x, -e.Cell[x]) = {HvGetCellBlock(x)}
    BY <1>4, <2>1, <2>2, SpanInBlock DEF Inv
  <2>4. Taken(r) \subseteq e.Dirty
    <3>1. {HvGetCellBlock(x)} \subseteq e.Dirty
      BY <1>4
    <3>2. Span(r.index, -r.dual.Cell[r.index]) \subseteq e.Dirty
      BY <2>2, <2>3, <3>1, Zenon
    <3>3. {} \subseteq e.Dirty
      OBVIOUS
    <3>4. Taken(r) = IF r.index = HCELL_NIL THEN {}
                     ELSE Span(r.index, -r.dual.Cell[r.index])
      BY DEF Taken
    <3>5. QED
      BY <3>2, <3>3, <3>4
  <2>5. QED
    BY <1>4, <2>2, <2>4
<1>5. CASE o # HCELL_NIL
  <2> DEFINE u == [d EXCEPT !.FreeDisplay = HvpRemoveFree(d.FreeDisplay, o, d.Cell[o])]
             e == Carve(u, o, s)
  <2>1. o \in FreeCells(d) /\ s <= d.Cell[o]
    BY <1>1, <1>2, <1>5, FindFreeFacts
  <2>2. HvpRemoveFree(d.FreeDisplay, o, d.Cell[o]) \in ListsType
    BY <1>2, <2>1, Unlist
  <2>3. r = [index |-> o, dual |-> e]
    BY <1>5 DEF HvAllocateCell, s
  <2> HIDE DEF o, r
  <2>4. u \in DualType /\ SameBins(d, u) /\ u.Cell = d.Cell /\ u.Dirty = d.Dirty
    BY <1>2, <2>2 DEF DualType, SameBins, ListsType
  <2> HIDE DEF u
  <2>5. Cells(u) = Cells(d) /\ FreeCells(u) = FreeCells(d) /\ \A q : CellEnd(u, q) = CellEnd(d, q)
    BY <2>4 DEF Cells, FreeCells, CellEnd
  <2>6. Sound(u)
    BY <1>2, <2>4, <2>5, SameBinsFacts DEF Sound, CellsTile, SameBins
  <2>7. OneBlockBins(u) /\ Marks(d, u)
    BY <2>4, SameBinsOneBlock DEF Marks, NewHeaders
  <2>8. /\ Marks(u, e) /\ SameBins(u, e) /\ HvGetCellBlock(o) \in e.Dirty
    BY <1>1, <2>1, <2>4, <2>5, <2>6, <2>7, CarveMarks
  <2> HIDE DEF e
  <2>9. Marks(d, e) /\ OneBlockBins(e)
    BY <2>7, <2>8, MarksBoth, SameBinsOneBlock
  <2>10. e.Length = d.Length
    BY <2>4, <2>8 DEF SameBins
  <2>11. d.Length .. e.Length - 1 \subseteq e.Dirty
    BY <1>2, <1>3, <2>10
  <2>12. QED
    BY <1>4, <1>5, <2>3, <2>8, <2>9, <2>11 DEF o, r
<1>6. CASE o = HCELL_NIL /\ memory /\ Room(d, s)
  <2> DEFINE a == HvpAddBin(d, s)
             e == Carve(a, new, s)
  <2>1. r = [index |-> new, dual |-> e]
    BY <1>6 DEF HvAllocateCell, s
  <2>2. /\ a \in DualType /\ BinsTile(a) /\ CellsTile(a)
        /\ new \in Offsets /\ a.Cell[new] \in Nat /\ a.Cell[new] >= s
    BY <1>1, <1>2, <1>6, AddBinTiles
  <2>3. Sound(a) /\ new \in FreeCells(a) /\ s <= a.Cell[new]
    BY <1>1, <2>2 DEF Sound, FreeCells
  <2>4. Marks(d, a) /\ OneBlockBins(a) /\ a.Length = d.Length + 1 /\ d.Length \in a.Dirty
    BY <1>1, <1>2, <1>6, AddBinMarks
  <2> HIDE DEF a, o, r
  <2>5. Marks(a, e) /\ SameBins(a, e) /\ HvGetCellBlock(new) \in e.Dirty
    BY <1>1, <2>3, <2>4, CarveMarks
  <2>6. new # HCELL_NIL
    BY <2>2, HBLOCKAssumption, MaxBlocksAssumption DEF Offsets, HCELL_NIL
  <2> HIDE DEF e, new
  <2>7. Marks(d, e) /\ OneBlockBins(e)
    BY <2>4, <2>5, MarksBoth, SameBinsOneBlock
  <2>8. e.Length = d.Length + 1 /\ d.Length \in e.Dirty
    BY <2>4, <2>5 DEF SameBins, Marks
  <2>9. d.Length .. e.Length - 1 \subseteq e.Dirty
    BY <1>2, <1>3, <2>8
  <2>10. QED
    BY <1>4, <2>1, <2>5, <2>6, <2>7, <2>9 DEF r
<1>7. CASE o = HCELL_NIL /\ ~(memory /\ Room(d, s))
  <2>1. r = [index |-> HCELL_NIL, dual |-> d]
    BY <1>7 DEF HvAllocateCell, s
  <2>2. r.index = HCELL_NIL /\ r.dual = d
    BY <2>1
  <2> HIDE DEF r
  <2>3. d.Length .. d.Length - 1 \subseteq d.Dirty
    BY <1>2, <1>3
  <2>4. QED
    BY <2>2, <2>3 DEF Marks, NewHeaders, Taken, r
<1>8. QED
  BY <1>5, <1>6, <1>7

\* Freeing a cell marks the free cell that it becomes or joins.
LEMMA FreeMarks ==
  ASSUME NEW d, Inv(d), OneBlockBins(d), NEW o \in AllocatedCells(d)
  PROVE  Marks(d, HvFreeCell(d, o)) /\ SameBins(d, HvFreeCell(d, o))
<1> DEFINE r == MergeRight(d, o)
           e == HvFreeCell(d, o)
<1>1. /\ d \in DualType /\ d.Cell \in [Offsets -> Int]
  BY DEF Inv, Sound, DualType
<1>2. Sound(r) /\ o \in FreeCells(r)
  BY MergeRightFacts
<1>3. /\ SameBins(d, r) /\ r.Dirty = d.Dirty
      /\ \A p \in Cells(r) : p # o => r.Cell[p] = d.Cell[p]
  <2> DEFINE next == o + (-d.Cell[o])
  <2>1. CASE next < BinEnd(d, BinOf(d, o)) /\ d.Cell[next] > 0
    <3> DEFINE c == [d.Cell EXCEPT ![o] = -d.Cell[o] + d.Cell[next], ![next] = 0]
    <3>1. r = [d EXCEPT !.Cell = c,
                        !.FreeDisplay = HvpRemoveFree(d.FreeDisplay, next, d.Cell[next])]
      BY <2>1 DEF MergeRight
    <3>2. \A p \in Offsets : c[p] # 0 /\ p # o => c[p] = d.Cell[p]
      BY <1>1
    <3> HIDE DEF c, next
    <3>3. r.Cell = c /\ SameBins(d, r) /\ r.Dirty = d.Dirty
      BY <1>1, <3>1 DEF DualType, SameBins
    <3>4. QED
      BY <3>2, <3>3 DEF Cells
  <2>2. CASE ~(next < BinEnd(d, BinOf(d, o)) /\ d.Cell[next] > 0)
    <3> DEFINE c == [d.Cell EXCEPT ![o] = -d.Cell[o]]
    <3>1. r = [d EXCEPT !.Cell = c]
      BY <2>2 DEF MergeRight
    <3>2. \A p \in Offsets : p # o => c[p] = d.Cell[p]
      BY <1>1
    <3> HIDE DEF c, next
    <3>3. r.Cell = c /\ SameBins(d, r) /\ r.Dirty = d.Dirty
      BY <1>1, <3>1 DEF DualType, SameBins
    <3>4. QED
      BY <3>2, <3>3 DEF Cells
  <2>3. QED
    BY <2>1, <2>2
<1>4. OneBlockBins(r)
  BY <1>3, SameBinsOneBlock
<1>5. /\ r \in DualType /\ r.Cell \in [Offsets -> Int]
      /\ FreeCells(r) \subseteq Cells(r) /\ Cells(r) \subseteq Offsets
  BY <1>2 DEF Sound, DualType, FreeCells, Cells
<1>6. CASE LeftNeighbours(r, o) # {}
  <2> DEFINE p == CHOOSE p \in LeftNeighbours(r, o) : TRUE
             c == [r.Cell EXCEPT ![p] = r.Cell[p] + r.Cell[o], ![o] = 0]
  <2>1. p \in LeftNeighbours(r, o)
    BY <1>6
  <2>2. e = MergeLeft(r, p, o)
    BY <1>6 DEF HvFreeCell
  <2> HIDE DEF e, r, p
  <2>3. p \in Cells(r)
    <3>1. r \in DualType /\ BinsTile(r) /\ CellsTile(r) /\ o \in Cells(r)
      BY <1>2, <1>5 DEF Sound
    <3>2. BinOf(r, o) \in Bins(r) /\ o \in Nat /\ o < BinEnd(r, BinOf(r, o))
      BY <3>1, CellBounds, BinBounds
    <3>3. /\ p \in BinOf(r, o) * HBLOCK + HBIN .. o - 1 /\ r.Cell[p] > 0
      BY <2>1 DEF LeftNeighbours
    <3>4. BinOf(r, o) * HBLOCK \in Nat /\ BinEnd(r, BinOf(r, o)) \in Nat
      BY <3>1, <3>2, BinBounds
    <3>5. p \in Int /\ BinOf(r, o) * HBLOCK <= p /\ p < BinEnd(r, BinOf(r, o))
      BY <3>2, <3>3, <3>4 DEF HBIN
    <3>6. p \in Offsets
      BY <3>1, <3>2, <3>5, SameBin
    <3>7. QED
      BY <3>3, <3>6 DEF Cells
  <2>4. HvGetCellBlock(p) \in DirtyBits(p)
    BY <1>2, <1>4, <2>3, CellMarked
  <2>5. e.Cell = c /\ e.Dirty = r.Dirty \cup DirtyBits(p) /\ SameBins(r, e)
    BY <1>5, <2>2 DEF MergeLeft, DualType, SameBins
  <2>6. \A q \in Offsets : c[q] # 0 => q # o /\ (q # p => c[q] = r.Cell[q])
    BY <1>2, <1>5
  <2> HIDE DEF c
  <2>7. Marks(d, e)
    <3>1. \A q \in Cells(e) : e.Cell[q] # d.Cell[q] => q = p
      BY <1>3, <2>5, <2>6 DEF Cells
    <3>2. QED
      BY <1>3, <2>4, <2>5, <3>1 DEF Marks, NewHeaders
  <2>8. SameBins(d, e)
    BY <1>3, <2>5 DEF SameBins
  <2>9. QED
    BY <2>7, <2>8 DEF e
<1>7. CASE LeftNeighbours(r, o) = {}
  <2>1. e = [r EXCEPT !.FreeDisplay = HvpAddFree(@, o, r.Cell[o]),
                      !.Dirty       = @ \cup DirtyBits(o)]
    BY <1>7 DEF HvFreeCell
  <2> HIDE DEF e, r
  <2>2. e.Cell = r.Cell /\ e.Dirty = r.Dirty \cup DirtyBits(o) /\ SameBins(r, e)
    BY <1>5, <2>1 DEF DualType, SameBins
  <2>3. HvGetCellBlock(o) \in DirtyBits(o)
    BY <1>2, <1>4, <1>5, CellMarked
  <2>4. Marks(d, e)
    <3>1. \A q \in Cells(e) : e.Cell[q] # d.Cell[q] => q = o
      BY <1>3, <2>2 DEF Cells
    <3>2. QED
      BY <1>3, <2>2, <2>3, <3>1 DEF Marks, NewHeaders
  <2>5. SameBins(d, e)
    BY <1>3, <2>2 DEF SameBins
  <2>6. QED
    BY <2>4, <2>5 DEF e
<1>8. QED
  BY <1>6, <1>7

\* Moving a cell marks the cell taken, with its contents, and the cell freed.
LEMMA ReallocateMarks ==
  ASSUME NEW d, Inv(d), OneBlockBins(d), NEW o \in AllocatedCells(d),
         NEW Size \in Nat, NEW memory \in BOOLEAN, CellUnits(Size) + HBIN <= HBLOCK
  PROVE  LET e == HvReallocateCell(d, o, Size, memory)
         IN  /\ Marks(d, e) /\ OneBlockBins(e)
             /\ d.Length .. e.Length - 1 \subseteq e.Dirty
             /\ Relocates(d, o, Size) =>
                  Taken(HvAllocateCell(d, Size, memory)) \subseteq e.Dirty
<1> DEFINE e == HvReallocateCell(d, o, Size, memory)
           r == HvAllocateCell(d, Size, memory)
<1>1. CASE Relocates(d, o, Size) /\ r.index # HCELL_NIL
  <2>1. /\ Marks(d, r.dual) /\ OneBlockBins(r.dual)
        /\ d.Length .. r.dual.Length - 1 \subseteq r.dual.Dirty
        /\ Taken(r) \subseteq r.dual.Dirty
    BY AllocateMarks
  <2>2. Inv(r.dual) /\ o \in AllocatedCells(r.dual)
    BY <1>1, AllocateKeepsInv
  <2>3. e = HvFreeCell(r.dual, o)
    BY <1>1 DEF HvReallocateCell
  <2> DEFINE m == r.dual
  <2>4. Inv(m) /\ o \in AllocatedCells(m) /\ OneBlockBins(m) /\ e = HvFreeCell(m, o)
    BY <2>1, <2>2, <2>3
  <2>5. Marks(d, m) /\ d.Length .. m.Length - 1 \subseteq m.Dirty /\ Taken(r) \subseteq m.Dirty
    BY <2>1
  <2> HIDE DEF m, e, r
  <2>6. Marks(m, e) /\ SameBins(m, e)
    BY <2>4, FreeMarks
  <2>7. Marks(d, e) /\ OneBlockBins(e)
    BY <2>4, <2>5, <2>6, MarksBoth, SameBinsOneBlock
  <2>8. e.Length = m.Length /\ m.Dirty \subseteq e.Dirty
    BY <2>6 DEF SameBins, Marks
  <2>9. QED
    BY <2>5, <2>7, <2>8 DEF e, r
<1>2. CASE ~(Relocates(d, o, Size) /\ r.index # HCELL_NIL)
  <2>1. e = d
    BY <1>2 DEF HvReallocateCell
  <2>2. Marks(d, d)
    BY DEF Marks, NewHeaders
  <2>3. d.Length .. d.Length - 1 = {}
    <3>1. \A n \in Nat : n .. n - 1 = {}
      OBVIOUS
    <3>2. d.Length \in Nat
      BY MaxBlocksAssumption DEF Inv, Sound, DualType
    <3>3. QED
      BY <3>1, <3>2
  <2>4. Relocates(d, o, Size) => Taken(r) = {}
    BY <1>2 DEF Taken
  <2> HIDE DEF e, r
  <2>5. QED
    BY <2>1, <2>2, <2>3, <2>4 DEF e, r
<1>3. QED
  BY <1>1, <1>2

-----------------------------------------------------------------------------
(* The invariants of the specification *)

\* Loading makes lists that are exact again and changes nothing else.
LEMMA LoadKeepsInv ==
  ASSUME NEW d, Inv(d)
  PROVE  LET e == [d EXCEPT !.FreeDisplay = HvpCreateHiveFreeCellList(d)]
         IN  Inv(e) /\ SameBins(d, e) /\ e.Cell = d.Cell /\ e.Dirty = d.Dirty
<1> DEFINE f == HvpCreateHiveFreeCellList(d)
           e == [d EXCEPT !.FreeDisplay = f]
<1>1. /\ d \in DualType /\ BinsTile(d) /\ CellsTile(d) /\ Coalesced(d)
      /\ d.Cell \in [Offsets -> Int]
  BY DEF Inv, Sound, DualType
<1>2. Holds(d, FreeCells(d), f)
  BY <1>1, LoadedLists
<1> HIDE DEF f
<1>3. f \in [Lists -> Seq(Offsets)]
  BY <1>2 DEF Holds, ListsType
<1>4. /\ e \in DualType /\ SameBins(d, e) /\ e.Cell = d.Cell
      /\ e.Dirty = d.Dirty /\ e.FreeDisplay = f
  BY <1>1, <1>3 DEF DualType, SameBins
<1> HIDE DEF e
<1>5. /\ FreeCells(e) = FreeCells(d) /\ Cells(e) = Cells(d)
      /\ \A q : CellEnd(e, q) = CellEnd(d, q)
  BY <1>4 DEF FreeCells, Cells, CellEnd
<1>6. BinsTile(e) /\ CellsTile(e)
  BY <1>1, <1>4, <1>5, SameBinsFacts DEF CellsTile, SameBins
<1>7. Coalesced(e)
  BY <1>1, <1>4, <1>5, SameBinsFacts DEF Coalesced
<1>8. ListsBut(e, {})
  <2>1. FreeCells(d) \ {} = FreeCells(d)
    OBVIOUS
  <2>2. QED
    BY <1>2, <1>4, <1>5, <2>1 DEF ListsBut, Holds
<1>9. QED
  BY <1>4, <1>6, <1>7, <1>8 DEF Inv, Sound, e, f

\* The blocks of offsets are blocks of the store.
LEMMA BlocksOfOffsets ==
  ASSUME NEW o \in Offsets
  PROVE  HvGetCellBlock(o) \in Blocks
<1>1. o \in Nat /\ o < MaxBlocks * HBLOCK /\ 0 * HBLOCK <= o
  BY HBLOCKAssumption, MaxBlocksAssumption DEF Offsets
<1>2. QED
  BY <1>1, BlockBounds, MaxBlocksAssumption DEF Blocks

\* Headers, and the contents of a cell in use, lie in blocks of the store.
LEMMA SpansInBlocks ==
  ASSUME NEW c, NEW d, Sound(d)
  PROVE  /\ NewHeaders(c, d) \subseteq Blocks
         /\ \A o \in AllocatedCells(d) : Span(o, -d.Cell[o]) \subseteq Blocks
<1>1. NewHeaders(c, d) \subseteq Blocks
  BY BlocksOfOffsets DEF NewHeaders, Cells
<1>2. ASSUME NEW o \in AllocatedCells(d)
      PROVE  Span(o, -d.Cell[o]) \subseteq Blocks
  <2>1. d \in DualType /\ BinsTile(d) /\ CellsTile(d)
    BY DEF Sound
  <2>2. d.Cell[o] \in Int /\ d.Cell[o] < 0 /\ o \in Cells(d)
    BY <2>1 DEF DualType, AllocatedCells, Cells
  <2>3. CellEnd(d, o) = o + (-d.Cell[o])
    BY <2>2 DEF CellEnd, Abs
  <2>4. /\ o \in Nat /\ CellEnd(d, o) \in Nat /\ o < CellEnd(d, o)
        /\ CellEnd(d, o) <= BinEnd(d, BinOf(d, o))
        /\ BinEnd(d, BinOf(d, o)) \in Nat
    BY <2>1, <2>2, CellFacts
  <2>5. /\ CellEnd(d, o) - 1 \in Int /\ o <= CellEnd(d, o) - 1
        /\ CellEnd(d, o) - 1 < BinEnd(d, BinOf(d, o))
    BY <2>4
  <2>6. CellEnd(d, o) - 1 \in Offsets /\ o \in Offsets
    BY <2>1, <2>2, <2>5, InsideCell DEF Cells
  <2>7. HvGetCellBlock(o) \in Blocks /\ HvGetCellBlock(CellEnd(d, o) - 1) \in Blocks
    BY <2>6, BlocksOfOffsets
  <2>8. \A a, b \in Blocks : a .. b \subseteq Blocks
    BY MaxBlocksAssumption DEF Blocks
  <2>9. o + (-d.Cell[o]) - 1 = CellEnd(d, o) - 1
    BY <2>2, <2>3, <2>4
  <2>10. Span(o, -d.Cell[o]) = HvGetCellBlock(o) .. HvGetCellBlock(o + (-d.Cell[o]) - 1)
    BY DEF Span
  <2>11. QED
    BY <2>7, <2>8, <2>9, <2>10
<1>3. QED
  BY <1>1, <1>2

\* The contents of the cell taken for a request lie in blocks of the store.
LEMMA TakenInBlocks ==
  ASSUME NEW d, Inv(d), NEW Size \in Nat, NEW memory \in BOOLEAN
  PROVE  Taken(HvAllocateCell(d, Size, memory)) \subseteq Blocks
<1> DEFINE r == HvAllocateCell(d, Size, memory)
<1>1. Inv(r.dual) /\ (r.index # HCELL_NIL => r.index \in AllocatedCells(r.dual))
  BY AllocateKeepsInv
<1> HIDE DEF r
<1>2. r.index # HCELL_NIL => Span(r.index, -r.dual.Cell[r.index]) \subseteq Blocks
  BY <1>1, SpansInBlocks DEF Inv
<1>3. QED
  BY <1>2 DEF Taken, r

DiskInv == Inv(dual) /\ stale \subseteq Blocks

\* Every step keeps the store sound and the blocks of the file those of the store.
LEMMA DiskNextInv == DiskInv /\ [DiskNext]_<<dual, stale>> => DiskInv'
<1> SUFFICES ASSUME DiskInv, [DiskNext]_<<dual, stale>> PROVE DiskInv'
  OBVIOUS
<1>0. Inv(dual) /\ stale \subseteq Blocks /\ dual.Length \in Nat
  BY MaxBlocksAssumption DEF DiskInv, Inv, Sound, DualType
<1>1. ASSUME NEW more, more \subseteq Blocks, Inv(dual'), Relinked(more)
      PROVE  DiskInv'
  <2>1. NewHeaders(dual, dual') \subseteq Blocks
    BY <1>1, SpansInBlocks DEF Inv
  <2>2. QED
    BY <1>0, <1>1, <2>1 DEF Relinked, DiskInv
<1>2. ASSUME Inv(dual') PROVE Added \subseteq Blocks
  BY <1>0, <1>2, MaxBlocksAssumption DEF Added, Blocks, Inv, Sound, DualType
<1>3. ASSUME NEW Size \in Requests, NEW memory \in BOOLEAN, AllocateAndZero(Size, memory)
      PROVE  DiskInv'
  <2>1. Size \in Nat
    BY RequestsAssumption
  <2>2. Inv(dual')
    BY <1>0, <1>3, <2>1, AllocateKeepsInv DEF AllocateAndZero, AllocateCell
  <2>3. Taken(HvAllocateCell(dual, Size, memory)) \subseteq Blocks
    BY <1>0, <2>1, TakenInBlocks
  <2>4. QED
    BY <1>1, <1>2, <1>3, <2>2, <2>3 DEF AllocateAndZero
<1>4. ASSUME NEW o \in AllocatedCells(dual), NEW Size \in Requests, NEW memory \in BOOLEAN,
             ReallocateAndCopy(o, Size, memory)
      PROVE  DiskInv'
  <2>1. Size \in Nat
    BY RequestsAssumption
  <2>2. Inv(dual')
    BY <1>0, <1>4, <2>1, ReallocateKeepsInv DEF ReallocateAndCopy, ReallocateCell
  <2>3. Taken(HvAllocateCell(dual, Size, memory)) \subseteq Blocks
    BY <1>0, <2>1, TakenInBlocks
  <2> DEFINE more == IF Relocates(dual, o, Size)
                     THEN Taken(HvAllocateCell(dual, Size, memory)) ELSE {}
  <2>4. more \subseteq Blocks
    BY <2>3
  <2>5. Relinked(Added \cup more)
    BY <1>4 DEF ReallocateAndCopy
  <2> HIDE DEF more
  <2>6. QED
    BY <1>1, <1>2, <2>2, <2>4, <2>5
<1>5. ASSUME NEW o \in AllocatedCells(dual), Free(o) PROVE DiskInv'
  <2>1. Inv(dual')
    BY <1>0, <1>5, FreeKeepsInv DEF Free, FreeCell
  <2>2. QED
    BY <1>1, <1>5, <2>1 DEF Free
<1>6. ASSUME NEW o \in AllocatedCells(dual), WriteCell(o) PROVE DiskInv'
  <2>1. Inv(dual')
    BY <1>0, <1>6, MarkDirtyKeepsInv DEF WriteCell, MarkCellDirty
  <2>2. Span(o, -dual.Cell[o]) \subseteq Blocks
    BY <1>0, SpansInBlocks DEF Inv
  <2>3. QED
    BY <1>1, <1>6, <2>1, <2>2 DEF WriteCell
<1>7. CASE HvSyncHive
  <2>1. Inv(dual')
    <3> DEFINE e == [dual EXCEPT !.Dirty = {}]
    <3>1. dual \in DualType /\ Sound(dual) /\ ListsBut(dual, {}) /\ Coalesced(dual)
      BY <1>0 DEF Inv, Sound
    <3>2. {} \in SUBSET Blocks
      OBVIOUS
    <3>3. /\ e \in DualType /\ SameBins(dual, e) /\ e.Cell = dual.Cell
          /\ e.FreeDisplay = dual.FreeDisplay
      BY <3>1, <3>2 DEF DualType, SameBins
    <3> HIDE DEF e
    <3>4. /\ FreeCells(e) = FreeCells(dual) /\ Cells(e) = Cells(dual)
          /\ \A q : CellEnd(e, q) = CellEnd(dual, q)
      BY <3>3 DEF FreeCells, Cells, CellEnd
    <3>5. Sound(e)
      BY <3>1, <3>3, <3>4, SameBinsFacts DEF Sound, CellsTile, SameBins
    <3>6. ListsBut(e, {}) /\ Coalesced(e)
      BY <3>1, <3>3, <3>4, SameBinsFacts DEF ListsBut, Coalesced
    <3>7. dual' = e
      BY <1>7 DEF HvSyncHive, e
    <3>8. QED
      BY <3>5, <3>6, <3>7 DEF Inv
  <2>2. QED
    BY <1>0, <1>7, <2>1 DEF HvSyncHive, DiskInv
<1>8. CASE HvpInitializeFileHive
  <2>1. Inv(dual')
    BY <1>0, <1>8, LoadKeepsInv DEF HvpInitializeFileHive
  <2>2. QED
    BY <1>0, <1>8, <2>1 DEF HvpInitializeFileHive, DiskInv
<1>9. CASE UNCHANGED <<dual, stale>>
  BY <1>0, <1>9 DEF DiskInv
<1>10. QED
  BY <1>3, <1>4, <1>5, <1>6, <1>7, <1>8, <1>9 DEF DiskNext

\* The store is sound in every reachable state, loads included.
LEMMA DiskInvAlways == DiskSpec => []DiskInv
<1>1. DiskInit => DiskInv
  BY InitInv DEF DiskInit, DiskInv
<1>2. QED
  BY <1>1, DiskNextInv, PTL DEF DiskSpec

(***************************************************************************)
(* The variables have their types, whatever the requests.                  *)
(***************************************************************************)
THEOREM DiskTypeCorrect == DiskSpec => []DiskTypeOK
<1>1. DiskInv => DiskTypeOK
  BY DEF DiskInv, Inv, Sound, DiskTypeOK, TypeOK
<1>2. QED
  BY <1>1, DiskInvAlways, PTL

(***************************************************************************)
(* The free lists are exact, also those that HvpCreateHiveFreeCellList     *)
(* makes when a hive is loaded.                                            *)
(***************************************************************************)
THEOREM LoadedListsCorrect == DiskSpec => []FreeListsExact
<1>1. DiskInv => FreeListsExact
  <2> SUFFICES ASSUME ListsBut(dual, {}) PROVE ListsExact(dual)
    BY DEF DiskInv, Inv, FreeListsExact
  <2>1. FreeCells(dual) \ {} = FreeCells(dual)
    OBVIOUS
  <2>2. QED
    BY <2>1 DEF ListsBut, ListsExact
<1>2. QED
  BY <1>1, DiskInvAlways, PTL

\* Every request fits into a bin of one block.
OneBlockRequests == \A Size \in Requests : CellUnits(Size) + HBIN <= HBLOCK

CleanInv == DiskInv /\ OneBlockBins(dual) /\ StaleBlocksAreDirty

\* Every step marks the blocks that it changes.
LEMMA CleanNextInv ==
  ASSUME OneBlockRequests
  PROVE  CleanInv /\ [DiskNext]_<<dual, stale>> => CleanInv'
<1> SUFFICES ASSUME CleanInv, [DiskNext]_<<dual, stale>> PROVE CleanInv'
  OBVIOUS
<1>0. Inv(dual) /\ OneBlockBins(dual) /\ stale \subseteq dual.Dirty
  BY DEF CleanInv, DiskInv, StaleBlocksAreDirty
<1>2. DiskInv'
  BY DiskNextInv DEF CleanInv
<1>1. ASSUME NEW more, more \subseteq dual'.Dirty, Relinked(more),
             Marks(dual, dual'), OneBlockBins(dual')
      PROVE  CleanInv'
  BY <1>0, <1>2, <1>1 DEF Relinked, CleanInv, StaleBlocksAreDirty, Marks
<1>3. ASSUME NEW Size \in Requests, NEW memory \in BOOLEAN, AllocateAndZero(Size, memory)
      PROVE  CleanInv'
  <2>1. Size \in Nat /\ CellUnits(Size) + HBIN <= HBLOCK
    BY RequestsAssumption DEF OneBlockRequests
  <2> DEFINE r == HvAllocateCell(dual, Size, memory)
  <2>2. /\ Marks(dual, r.dual) /\ OneBlockBins(r.dual)
        /\ dual.Length .. r.dual.Length - 1 \subseteq r.dual.Dirty
        /\ Taken(r) \subseteq r.dual.Dirty
    BY <1>0, <2>1, AllocateMarks
  <2>3. dual' = r.dual /\ Relinked(Added \cup Taken(r))
    BY <1>3 DEF AllocateAndZero, AllocateCell
  <2> HIDE DEF r
  <2>4. Added \cup Taken(r) \subseteq dual'.Dirty
    BY <2>2, <2>3 DEF Added
  <2>5. QED
    BY <1>1, <2>2, <2>3, <2>4
<1>4. ASSUME NEW o \in AllocatedCells(dual), NEW Size \in Requests, NEW memory \in BOOLEAN,
             ReallocateAndCopy(o, Size, memory)
      PROVE  CleanInv'
  <2>1. Size \in Nat /\ CellUnits(Size) + HBIN <= HBLOCK
    BY RequestsAssumption DEF OneBlockRequests
  <2> DEFINE e == HvReallocateCell(dual, o, Size, memory)
             t == Taken(HvAllocateCell(dual, Size, memory))
             more == IF Relocates(dual, o, Size) THEN t ELSE {}
  <2>2. /\ Marks(dual, e) /\ OneBlockBins(e)
        /\ dual.Length .. e.Length - 1 \subseteq e.Dirty
        /\ Relocates(dual, o, Size) => t \subseteq e.Dirty
    BY <1>0, <2>1, ReallocateMarks
  <2>3. dual' = e /\ Relinked(Added \cup more)
    BY <1>4 DEF ReallocateAndCopy, ReallocateCell
  <2> HIDE DEF e, t
  <2>4. more \subseteq e.Dirty
    BY <2>2
  <2> HIDE DEF more
  <2>5. Added \cup more \subseteq dual'.Dirty
    BY <2>2, <2>3, <2>4 DEF Added
  <2>6. QED
    BY <1>1, <2>2, <2>3, <2>5
<1>5. ASSUME NEW o \in AllocatedCells(dual), Free(o) PROVE CleanInv'
  <2>1. dual' = HvFreeCell(dual, o) /\ Relinked({})
    BY <1>5 DEF Free, FreeCell
  <2>2. Marks(dual, dual') /\ SameBins(dual, dual')
    BY <1>0, <2>1, FreeMarks
  <2>3. OneBlockBins(dual')
    BY <1>0, <2>2, SameBinsOneBlock
  <2>4. {} \subseteq dual'.Dirty
    OBVIOUS
  <2>5. QED
    BY <1>1, <2>1, <2>2, <2>3, <2>4
<1>6. ASSUME NEW o \in AllocatedCells(dual), WriteCell(o) PROVE CleanInv'
  <2>1. dual' = HvMarkCellDirty(dual, o) /\ Relinked(Span(o, -dual.Cell[o]))
    BY <1>6 DEF WriteCell, MarkCellDirty
  <2>2. dual \in DualType /\ o \in Cells(dual)
    BY <1>0 DEF Inv, Sound, DualType, AllocatedCells, Cells
  <2>3. /\ dual'.Cell = dual.Cell /\ dual'.Dirty = dual.Dirty \cup DirtyBits(o)
        /\ SameBins(dual, dual')
    BY <2>1, <2>2 DEF HvMarkCellDirty, DualType, SameBins
  <2>4. Span(o, -dual.Cell[o]) = {HvGetCellBlock(o)}
    BY <1>0, SpanInBlock DEF Inv
  <2>5. HvGetCellBlock(o) \in DirtyBits(o)
    BY <1>0, <2>2, CellMarked DEF Inv
  <2>6. Marks(dual, dual') /\ OneBlockBins(dual')
    BY <1>0, <2>3, SameBinsOneBlock DEF Marks, NewHeaders
  <2>7. QED
    BY <1>1, <2>1, <2>3, <2>4, <2>5, <2>6
<1>7. CASE HvSyncHive
  <2>1. dual' = [dual EXCEPT !.Dirty = {}] /\ stale' = stale \ dual.Dirty
    BY <1>7 DEF HvSyncHive
  <2>2. stale' = {}
    BY <1>0, <2>1
  <2>3. dual \in DualType
    BY <1>0 DEF Inv, Sound
  <2>4. SameBins(dual, dual')
    BY <2>1, <2>3 DEF DualType, SameBins
  <2>5. QED
    BY <1>0, <1>2, <2>2, <2>4, SameBinsOneBlock DEF CleanInv, StaleBlocksAreDirty
<1>8. CASE HvpInitializeFileHive
  <2>1. /\ dual' = [dual EXCEPT !.FreeDisplay = HvpCreateHiveFreeCellList(dual)]
        /\ stale' = stale
    BY <1>8 DEF HvpInitializeFileHive
  <2>2. SameBins(dual, dual') /\ dual'.Dirty = dual.Dirty
    BY <1>0, <2>1, LoadKeepsInv
  <2>3. QED
    BY <1>0, <1>2, <2>1, <2>2, SameBinsOneBlock DEF CleanInv, StaleBlocksAreDirty
<1>9. CASE UNCHANGED <<dual, stale>>
  BY <1>9 DEF CleanInv, StaleBlocksAreDirty, DiskInv
<1>10. QED
  BY <1>3, <1>4, <1>5, <1>6, <1>7, <1>8, <1>9 DEF DiskNext

(***************************************************************************)
(* As long as every request fits into a bin of one block, a block that is  *)
(* not dirty has the same cell headers, and the same contents of cells in  *)
(* use, in memory and in the file: whatever is allocated, moved, freed or  *)
(* written, and in whatever order, the next flush writes every such change *)
(* (the links in free cells, which no load reads, are not spoken of).      *)
(***************************************************************************)
THEOREM DirtyBitsComplete == OneBlockRequests /\ DiskSpec => []StaleBlocksAreDirty
<1> SUFFICES ASSUME OneBlockRequests PROVE DiskSpec => []StaleBlocksAreDirty
  OBVIOUS
<1>1. DiskInit => CleanInv
  <2> SUFFICES ASSUME DiskInit PROVE CleanInv
    OBVIOUS
  <2>1. DiskInv
    BY InitInv DEF DiskInit, DiskInv
  <2>2. dual = EmptyDual /\ stale = {}
    BY DEF DiskInit, Init
  <2>3. Bins(dual) = {}
    BY <2>2 DEF Bins, EmptyDual
  <2>4. QED
    BY <2>1, <2>2, <2>3 DEF CleanInv, OneBlockBins, StaleBlocksAreDirty
<1>2. CleanInv /\ [DiskNext]_<<dual, stale>> => CleanInv'
  BY CleanNextInv
<1>3. CleanInv => StaleBlocksAreDirty
  BY DEF CleanInv
<1>4. QED
  BY <1>1, <1>2, <1>3, PTL DEF DiskSpec
=============================================================================
