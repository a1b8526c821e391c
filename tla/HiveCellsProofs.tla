-------------------------- MODULE HiveCellsProofs --------------------------
(***************************************************************************)
(* Proofs about the cell allocator, for all block sizes, all bounds on the *)
(* store and all sets of requests.  In order:                              *)
(*   - size classes, and what pushing and unlinking do to a list;          *)
(*   - the tiling of the store by bins and of the bins by cells, and its   *)
(*     preservation by the four ways in which cells change: a change of    *)
(*     sign, a split, a join and a new bin;                                *)
(*   - the invariant, and one lemma for each operation of the allocator;   *)
(*   - the theorems.                                                       *)
(***************************************************************************)
EXTENDS HiveCells, SequenceTheorems, WellFoundedInduction, TLAPS

\* A request is rounded up to a positive number of units.
LEMMA UnitsPositive ==
  ASSUME NEW Size \in Nat
  PROVE  CellUnits(Size) \in Nat \ {0}
BY SMT DEF CellUnits

\* Every cell has one of the 24 lists.
LEMMA ClassInLists ==
  ASSUME NEW s \in Nat \ {0}
  PROVE  HvpComputeFreeListIndex(s) \in Lists
<1>1. 2 * s - 1 \in Nat
  OBVIOUS
<1>2. QED
  BY <1>1 DEF HvpComputeFreeListIndex, Lists

\* The class of a cell does not decrease with its size.
LEMMA ClassMonotonic ==
  ASSUME NEW a \in Nat \ {0}, NEW b \in Nat \ {0}, a <= b
  PROVE  HvpComputeFreeListIndex(a) <= HvpComputeFreeListIndex(b)
BY DEF HvpComputeFreeListIndex

\* The smallest number of a non-empty set of natural numbers.
LEMMA MinFacts ==
  ASSUME NEW T \in SUBSET Nat, T # {}
  PROVE  Min(T) \in T /\ \A n \in T : Min(T) <= n
<1> DEFINE R == OpToRel(<, Nat)
<1>1. IsWellFoundedOn(R, Nat)
  BY NatLessThanWellFounded
<1>2. R = {ss \in Nat \X Nat : ss[1] < ss[2]}
  BY Zenon DEF OpToRel
<1> HIDE DEF R
<1>3. PICK x \in T : \A y \in T : <<y, x>> \notin R
  BY <1>1, WFMin
<1>4. \A y \in T : x <= y
  <2> SUFFICES ASSUME NEW y \in T, ~(x <= y) PROVE <<y, x>> \in R
    BY <1>3
  <2>1. x \in Nat /\ y \in Nat /\ y < x
    OBVIOUS
  <2>2. <<y, x>> \in Nat \X Nat /\ <<y, x>>[1] = y /\ <<y, x>>[2] = x
    BY <2>1
  <2>3. QED
    BY <2>1, <2>2, <1>2
<1>5. QED
  BY <1>3, <1>4 DEF Min

\* What pushing an element does to a list.
LEMMA PushFacts ==
  ASSUME NEW S, NEW l \in Seq(S), NEW o \in S
  PROVE  /\ <<o>> \o l \in Seq(S)
         /\ Range(<<o>> \o l) = Range(l) \cup {o}
         /\ IsInjective(l) /\ o \notin Range(l) => IsInjective(<<o>> \o l)
<1> DEFINE m == <<o>> \o l
<1>1. /\ m \in Seq(S)
      /\ Len(m) = 1 + Len(l)
      /\ \A i \in 1 .. 1 + Len(l) : m[i] = IF i <= 1 THEN o ELSE l[i - 1]
  BY ConcatProperties
<1>2. DOMAIN m = 1 .. 1 + Len(l) /\ DOMAIN l = 1 .. Len(l) /\ Len(l) \in Nat
  BY <1>1, LenProperties
<1> HIDE DEF m
<1>3. Range(m) = Range(l) \cup {o}
  <2>1. \A i \in DOMAIN l : i + 1 \in DOMAIN m /\ m[i + 1] = l[i]
    BY <1>1, <1>2
  <2>2. 1 \in DOMAIN m /\ m[1] = o
    BY <1>1, <1>2
  <2>3. \A i \in DOMAIN m : i = 1 \/ (i - 1 \in DOMAIN l /\ m[i] = l[i - 1])
    BY <1>1, <1>2
  <2>4. QED
    BY <2>1, <2>2, <2>3 DEF Range
<1>4. IsInjective(l) /\ o \notin Range(l) => IsInjective(m)
  <2> SUFFICES ASSUME IsInjective(l), o \notin Range(l),
                      NEW i \in DOMAIN m, NEW j \in DOMAIN m, m[i] = m[j]
               PROVE  i = j
    BY DEF IsInjective
  <2>1. CASE i = 1 /\ j = 1
    BY <2>1
  <2>2. CASE i = 1 /\ j # 1
    <3>1. j - 1 \in DOMAIN l /\ m[j] = l[j - 1] /\ m[i] = o
      BY <1>1, <1>2, <2>2
    <3>2. QED
      BY <3>1 DEF Range
  <2>3. CASE i # 1 /\ j = 1
    <3>1. i - 1 \in DOMAIN l /\ m[i] = l[i - 1] /\ m[j] = o
      BY <1>1, <1>2, <2>3
    <3>2. QED
      BY <3>1 DEF Range
  <2>4. CASE i # 1 /\ j # 1
    <3>1. /\ i - 1 \in DOMAIN l /\ m[i] = l[i - 1]
          /\ j - 1 \in DOMAIN l /\ m[j] = l[j - 1]
      BY <1>1, <1>2, <2>4
    <3>2. i - 1 = j - 1
      BY <3>1 DEF IsInjective
    <3>3. QED
      BY <1>2, <3>2
  <2>5. QED
    BY <2>1, <2>2, <2>3, <2>4
<1>5. QED
  BY <1>1, <1>3, <1>4 DEF m

\* What removing one element does to a list without duplicates.
LEMMA RemoveAtFacts ==
  ASSUME NEW S, NEW l \in Seq(S), NEW i \in DOMAIN l
  PROVE  /\ RemoveAt(l, i) \in Seq(S)
         /\ Len(RemoveAt(l, i)) = Len(l) - 1
         /\ \A j \in 1 .. Len(l) - 1 :
              RemoveAt(l, i)[j] = IF j < i THEN l[j] ELSE l[j + 1]
<1> DEFINE a == SubSeq(l, 1, i - 1)
           b == SubSeq(l, i + 1, Len(l))
<1>1. DOMAIN l = 1 .. Len(l) /\ Len(l) \in Nat /\ \A j \in 1 .. Len(l) : l[j] \in S
  BY LenProperties, ElementOfSeq
<1>2. /\ a \in Seq(S) /\ Len(a) = i - 1
      /\ \A j \in 1 .. i - 1 : a[j] = l[j]
  <2>1. \A j \in 1 .. i - 1 : l[j] \in S
    BY <1>1
  <2>2. /\ a \in Seq(S) /\ Len(a) = IF 1 <= i - 1 THEN i - 1 - 1 + 1 ELSE 0
        /\ \A j \in 1 .. i - 1 - 1 + 1 : a[j] = l[1 + j - 1]
    BY <1>1, <2>1, SubSeqProperties
  <2>3. QED
    BY <1>1, <2>2
<1>3. /\ b \in Seq(S) /\ Len(b) = Len(l) - i
      /\ \A j \in 1 .. Len(l) - i : b[j] = l[i + j]
  <2>1. \A j \in i + 1 .. Len(l) : l[j] \in S
    BY <1>1
  <2>2. /\ b \in Seq(S) /\ Len(b) = IF i + 1 <= Len(l) THEN Len(l) - (i + 1) + 1 ELSE 0
        /\ \A j \in 1 .. Len(l) - (i + 1) + 1 : b[j] = l[i + 1 + j - 1]
    BY <1>1, <2>1, SubSeqProperties
  <2> HIDE DEF b
  <2>3. Len(b) = Len(l) - i
    BY <1>1, <2>2
  <2>4. ASSUME NEW j \in 1 .. Len(l) - i PROVE b[j] = l[i + j]
    <3>1. j \in 1 .. Len(l) - (i + 1) + 1 /\ i + 1 + j - 1 = i + j
      BY <1>1
    <3>2. QED
      BY <2>2, <3>1
  <2>5. QED
    BY <2>2, <2>3, <2>4
<1> HIDE DEF a, b
<1>4. /\ a \o b \in Seq(S)
      /\ Len(a \o b) = Len(a) + Len(b)
      /\ \A j \in 1 .. Len(a) + Len(b) :
           (a \o b)[j] = IF j <= Len(a) THEN a[j] ELSE b[j - Len(a)]
  BY <1>2, <1>3, ConcatProperties
<1>5. RemoveAt(l, i) = a \o b
  BY DEF RemoveAt, a, b
<1>6. Len(a) + Len(b) = Len(l) - 1 /\ Len(a) = i - 1
  BY <1>1, <1>2, <1>3
<1>7. ASSUME NEW j \in 1 .. Len(l) - 1
      PROVE  (a \o b)[j] = IF j < i THEN l[j] ELSE l[j + 1]
  <2>1. (a \o b)[j] = IF j <= i - 1 THEN a[j] ELSE b[j - (i - 1)]
    BY <1>4, <1>6
  <2>2. CASE j < i
    <3>1. j \in 1 .. i - 1 /\ j <= i - 1
      BY <1>1, <2>2
    <3>2. QED
      BY <1>2, <2>1, <2>2, <3>1
  <2>3. CASE ~(j < i)
    <3>1. ~(j <= i - 1) /\ j - (i - 1) \in 1 .. Len(l) - i /\ i + (j - (i - 1)) = j + 1
      BY <1>1, <2>3
    <3>2. QED
      BY <1>3, <2>1, <2>3, <3>1
  <2>4. QED
    BY <2>2, <2>3
<1>8. QED
  BY <1>4, <1>5, <1>6, <1>7

-----------------------------------------------------------------------------
(* Free lists *)

ListsType == [Lists -> Seq(Offsets)]

\* HvpAddFree adds the cell to the list of its class and to no other.
LEMMA AddFreeFacts ==
  ASSUME NEW fd \in ListsType, NEW o \in Offsets, NEW s \in Nat \ {0},
         \A k \in Lists : IsInjective(fd[k]) /\ o \notin Range(fd[k])
  PROVE  /\ HvpAddFree(fd, o, s) \in ListsType
         /\ \A k \in Lists :
              /\ IsInjective(HvpAddFree(fd, o, s)[k])
              /\ Range(HvpAddFree(fd, o, s)[k]) =
                   IF k = HvpComputeFreeListIndex(s) THEN Range(fd[k]) \cup {o}
                   ELSE Range(fd[k])
<1> DEFINE c == HvpComputeFreeListIndex(s)
<1>1. c \in Lists
  BY ClassInLists
<1>2. HvpAddFree(fd, o, s) = [fd EXCEPT ![c] = <<o>> \o fd[c]]
  BY DEF HvpAddFree
<1>3. fd[c] \in Seq(Offsets)
  BY <1>1 DEF ListsType
<1>4. /\ <<o>> \o fd[c] \in Seq(Offsets)
      /\ Range(<<o>> \o fd[c]) = Range(fd[c]) \cup {o}
      /\ IsInjective(<<o>> \o fd[c])
  BY <1>1, <1>3, PushFacts
<1> HIDE DEF c
<1>5. HvpAddFree(fd, o, s) \in ListsType
  BY <1>1, <1>2, <1>4 DEF ListsType
<1>6. \A k \in Lists : HvpAddFree(fd, o, s)[k] = IF k = c THEN <<o>> \o fd[c] ELSE fd[k]
  BY <1>1, <1>2 DEF ListsType
<1>7. QED
  BY <1>4, <1>5, <1>6 DEF c

\* Removing a place of a list without duplicates removes just its element.
LEMMA UnlinkFacts ==
  ASSUME NEW S, NEW l \in Seq(S), IsInjective(l), NEW i \in DOMAIN l
  PROVE  /\ IsInjective(RemoveAt(l, i))
         /\ Range(RemoveAt(l, i)) = Range(l) \ {l[i]}
<1> DEFINE m == RemoveAt(l, i)
<1>1. /\ m \in Seq(S) /\ Len(m) = Len(l) - 1
      /\ \A j \in 1 .. Len(l) - 1 : m[j] = IF j < i THEN l[j] ELSE l[j + 1]
  BY RemoveAtFacts
<1>2. DOMAIN m = 1 .. Len(l) - 1 /\ DOMAIN l = 1 .. Len(l) /\ Len(l) \in Nat
  BY <1>1, LenProperties
<1> HIDE DEF m
<1> DEFINE at(j) == IF j < i THEN j ELSE j + 1
<1>3. \A j \in DOMAIN m : at(j) \in DOMAIN l /\ at(j) # i /\ m[j] = l[at(j)]
  BY <1>1, <1>2
<1>4. \A j \in DOMAIN l : j # i => \E n \in DOMAIN m : at(n) = j
  <2> SUFFICES ASSUME NEW j \in DOMAIN l, j # i PROVE \E n \in DOMAIN m : at(n) = j
    OBVIOUS
  <2>1. CASE j < i
    <3>1. j \in DOMAIN m /\ at(j) = j
      BY <1>2, <2>1
    <3>2. QED
      BY <3>1
  <2>2. CASE ~(j < i)
    <3>1. j - 1 \in DOMAIN m /\ at(j - 1) = j
      BY <1>2, <2>2
    <3>2. QED
      BY <3>1
  <2>3. QED
    BY <2>1, <2>2
<1>5. \A j, n \in DOMAIN m : at(j) = at(n) => j = n
  BY <1>2
<1> HIDE DEF at
<1>6. IsInjective(m)
  BY <1>3, <1>5 DEF IsInjective
<1>7. Range(m) = Range(l) \ {l[i]}
  BY <1>3, <1>4 DEF Range, IsInjective
<1>8. QED
  BY <1>6, <1>7 DEF m

\* The lists fd are duplicate-free; f is fd with o taken off list c.
NoDuplicates(fd) == \A k \in Lists : IsInjective(fd[k])

Unlinks(f, fd, o, c) ==
  /\ f \in ListsType
  /\ \A k \in Lists :
       /\ IsInjective(f[k])
       /\ Range(f[k]) = IF k = c THEN Range(fd[k]) \ {o} ELSE Range(fd[k])

\* HvpRemoveFree takes a listed cell off its list and touches nothing else.
LEMMA RemoveFreeFacts ==
  ASSUME NEW fd \in ListsType, NEW o \in Offsets, NEW s \in Nat \ {0}, NoDuplicates(fd)
  PROVE  Unlinks(HvpRemoveFree(fd, o, s), fd, o, HvpComputeFreeListIndex(s))
<1> USE DEF NoDuplicates, Unlinks
<1> DEFINE c == HvpComputeFreeListIndex(s)
<1>1. c \in Lists /\ fd[c] \in Seq(Offsets)
  BY ClassInLists DEF ListsType
<1>2. CASE \E i \in DOMAIN fd[c] : fd[c][i] = o
  <2> DEFINE i == CHOOSE i \in DOMAIN fd[c] : fd[c][i] = o
  <2>1. i \in DOMAIN fd[c] /\ fd[c][i] = o
    BY <1>2
  <2>2. HvpRemoveFree(fd, o, s) = [fd EXCEPT ![c] = RemoveAt(fd[c], i)]
    BY <1>2 DEF HvpRemoveFree
  <2> HIDE DEF i, c
  <2>3. /\ RemoveAt(fd[c], i) \in Seq(Offsets)
        /\ IsInjective(RemoveAt(fd[c], i))
        /\ Range(RemoveAt(fd[c], i)) = Range(fd[c]) \ {o}
    BY <1>1, <2>1, RemoveAtFacts, UnlinkFacts
  <2>4. HvpRemoveFree(fd, o, s) \in ListsType
    BY <1>1, <2>2, <2>3 DEF ListsType
  <2>5. \A k \in Lists :
          HvpRemoveFree(fd, o, s)[k] = IF k = c THEN RemoveAt(fd[c], i) ELSE fd[k]
    BY <1>1, <2>2 DEF ListsType
  <2>6. QED
    BY <2>3, <2>4, <2>5 DEF c
<1>3. CASE ~ \E i \in DOMAIN fd[c] : fd[c][i] = o
  <2>1. HvpRemoveFree(fd, o, s) = fd
    BY <1>3 DEF HvpRemoveFree
  <2>2. Range(fd[c]) \ {o} = Range(fd[c])
    BY <1>3 DEF Range
  <2>3. QED
    BY <2>1, <2>2
<1>4. QED
  BY <1>2, <1>3

-----------------------------------------------------------------------------
(* Blocks, bins and offsets *)

\* Multiplication by the block size is monotonic.
LEMMA TimesMonotonic ==
  ASSUME NEW a \in Nat, NEW b \in Nat, a <= b
  PROVE  a * HBLOCK <= b * HBLOCK
<1>1. PICK n \in Nat : b = a + n
  <2>1. b - a \in Nat /\ b = a + (b - a)
    OBVIOUS
  <2>2. QED
    BY <2>1
<1>2. (a + n) * HBLOCK = a * HBLOCK + n * HBLOCK
  BY HBLOCKAssumption
<1>3. a * HBLOCK \in Nat /\ n * HBLOCK \in Nat
  BY HBLOCKAssumption
<1>4. QED
  BY <1>1, <1>2, <1>3

\* An offset between the starts of two blocks lies in a block between them.
LEMMA BlockBounds ==
  ASSUME NEW o \in Nat, NEW a \in Nat, NEW b \in Nat,
         a * HBLOCK <= o, o < b * HBLOCK
  PROVE  HvGetCellBlock(o) \in a .. b - 1
<1> DEFINE q == HvGetCellBlock(o)
<1>1. q \in Nat /\ q * HBLOCK <= o /\ o < (q + 1) * HBLOCK
  BY HBLOCKAssumption DEF HvGetCellBlock
<1> HIDE DEF q
<1>2. a < q + 1
  <2>1. ASSUME q + 1 <= a PROVE FALSE
    BY <1>1, <2>1, TimesMonotonic, HBLOCKAssumption
  <2>2. QED
    BY <1>1, <2>1
<1>3. q < b
  <2>1. ASSUME b <= q PROVE FALSE
    BY <1>1, <2>1, TimesMonotonic, HBLOCKAssumption
  <2>2. QED
    BY <1>1, <2>1
<1>4. QED
  BY <1>1, <1>2, <1>3 DEF q

\* The blocks of a bin, as offsets, lie inside the store.
LEMMA BinBounds ==
  ASSUME NEW d \in DualType, BinsTile(d), NEW b \in Bins(d)
  PROVE  /\ b \in Nat /\ d.BinSize[b] \in Nat \ {0}
         /\ b * HBLOCK \in Nat /\ BinEnd(d, b) \in Nat
         /\ b * HBLOCK + HBLOCK <= BinEnd(d, b)
         /\ BinEnd(d, b) <= d.Length * HBLOCK
         /\ d.Length * HBLOCK <= MaxBlocks * HBLOCK
<1>1. /\ b \in Nat /\ d.BinSize[b] \in Nat \ {0}
      /\ d.Length \in Nat /\ d.Length <= MaxBlocks /\ b + d.BinSize[b] <= d.Length
  BY MaxBlocksAssumption DEF DualType, Bins, Blocks, BinsTile
<1>2. b * HBLOCK \in Nat /\ BinEnd(d, b) \in Nat
  BY <1>1, HBLOCKAssumption DEF BinEnd
<1>3. b * HBLOCK + HBLOCK <= BinEnd(d, b)
  <2>1. (b + 1) * HBLOCK = b * HBLOCK + HBLOCK
    BY <1>1, HBLOCKAssumption
  <2>2. b + 1 \in Nat /\ b + d.BinSize[b] \in Nat /\ b + 1 <= b + d.BinSize[b]
    BY <1>1
  <2>3. (b + 1) * HBLOCK <= (b + d.BinSize[b]) * HBLOCK
    BY <2>2, TimesMonotonic
  <2>4. QED
    BY <2>1, <2>3 DEF BinEnd
<1>4. BinEnd(d, b) <= d.Length * HBLOCK
  BY <1>1, TimesMonotonic DEF BinEnd
<1>5. d.Length * HBLOCK <= MaxBlocks * HBLOCK
  BY <1>1, TimesMonotonic, MaxBlocksAssumption
<1>6. QED
  BY <1>1, <1>2, <1>3, <1>4, <1>5

\* The block list gives the bin for every offset inside it.
LEMMA SameBin ==
  ASSUME NEW d \in DualType, BinsTile(d), NEW b \in Bins(d),
         NEW o \in Int, b * HBLOCK <= o, o < BinEnd(d, b)
  PROVE  /\ o \in Offsets /\ HvGetCellBlock(o) < d.Length
         /\ BinOf(d, o) = b
<1>1. o \in Nat /\ o \in Offsets
  <2>1. MaxBlocks * HBLOCK \in Nat /\ d.Length * HBLOCK \in Nat
    BY HBLOCKAssumption, MaxBlocksAssumption DEF DualType
  <2>2. QED
    BY <2>1, BinBounds DEF Offsets
<1>2. b + d.BinSize[b] \in Nat /\ b + d.BinSize[b] <= d.Length /\ d.Length \in Nat
  <2>1. d.Length \in Nat
    BY MaxBlocksAssumption DEF DualType
  <2>2. b + d.BinSize[b] <= d.Length
    BY DEF BinsTile
  <2>3. QED
    BY <2>1, <2>2, BinBounds
<1>3. HvGetCellBlock(o) \in b .. b + d.BinSize[b] - 1
  BY <1>1, <1>2, BinBounds, BlockBounds DEF BinEnd
<1>4. QED
  BY <1>1, <1>2, <1>3, BinBounds DEF BinsTile, BinOf

\* Every cell lies in a bin.
LEMMA CellBounds ==
  ASSUME NEW d \in DualType, BinsTile(d), CellsTile(d), NEW o \in Cells(d)
  PROVE  /\ BinOf(d, o) \in Bins(d)
         /\ BinOf(d, o) * HBLOCK + HBIN <= o
         /\ o \in Nat /\ CellEnd(d, o) \in Nat /\ o < CellEnd(d, o)
         /\ CellEnd(d, o) <= BinEnd(d, BinOf(d, o))
<1>1. o \in Nat /\ d.Cell[o] \in Int /\ d.Cell[o] # 0
  BY HBLOCKAssumption, MaxBlocksAssumption DEF Cells, Offsets, DualType
<1>2. HvGetCellBlock(o) < d.Length /\ HvGetCellBlock(o) \in Blocks
  <2>1. HvGetCellBlock(o) \in Nat
    BY <1>1, HBLOCKAssumption DEF HvGetCellBlock
  <2>2. HvGetCellBlock(o) < d.Length
    BY DEF CellsTile
  <2>3. d.Length \in 0 .. MaxBlocks
    BY DEF DualType
  <2>4. QED
    BY <2>1, <2>2, <2>3, MaxBlocksAssumption DEF Blocks
<1>3. BinOf(d, o) \in Bins(d)
  BY <1>2 DEF BinsTile, BinOf
<1>4. o < CellEnd(d, o) /\ CellEnd(d, o) \in Nat
  BY <1>1 DEF CellEnd, Abs
<1>5. QED
  BY <1>1, <1>3, <1>4 DEF CellsTile

\* Only the length, the bins and the headers decide how a store is tiled.
SameBins(d, e) ==
  e.Length = d.Length /\ e.BlockList = d.BlockList /\ e.BinSize = d.BinSize

\* Stores with the same length and bins agree on what depends on these only.
LEMMA SameBinsFacts ==
  ASSUME NEW d, NEW e, SameBins(d, e)
  PROVE  /\ Bins(e) = Bins(d)
         /\ BinsTile(e) <=> BinsTile(d)
         /\ \A o : BinOf(e, o) = BinOf(d, o)
         /\ \A b : BinEnd(e, b) = BinEnd(d, b)
BY DEF SameBins, Bins, BinsTile, BinOf, BinEnd

\* What follows a cell, up to the end of its bin, lies in the same bin.
LEMMA InsideCell ==
  ASSUME NEW d \in DualType, BinsTile(d), CellsTile(d), NEW o \in Cells(d),
         NEW p \in Int, o <= p, p < BinEnd(d, BinOf(d, o))
  PROVE  /\ p \in Offsets /\ HvGetCellBlock(p) < d.Length
         /\ BinOf(d, p) = BinOf(d, o)
<1>1. BinOf(d, o) \in Bins(d) /\ BinOf(d, o) * HBLOCK <= p
  BY CellBounds, BinBounds, HBLOCKAssumption DEF HBIN
<1>2. QED
  BY <1>1, SameBin

\* The place of the first cell of a bin lies in that bin.
LEMMA FirstCell ==
  ASSUME NEW d \in DualType, BinsTile(d), NEW b \in Bins(d)
  PROVE  /\ b * HBLOCK + HBIN \in Offsets
         /\ BinOf(d, b * HBLOCK + HBIN) = b
         /\ HvGetCellBlock(b * HBLOCK + HBIN) < d.Length
<1>1. /\ b * HBLOCK + HBIN \in Int /\ b * HBLOCK <= b * HBLOCK + HBIN
      /\ b * HBLOCK + HBIN < BinEnd(d, b)
  BY BinBounds, HBLOCKAssumption DEF HBIN
<1>2. QED
  BY <1>1, SameBin

\* Two distinct cells do not overlap.
LEMMA CellsApart ==
  ASSUME NEW d \in DualType, BinsTile(d), CellsTile(d),
         NEW o \in Cells(d), NEW p \in Cells(d), o < p
  PROVE  CellEnd(d, o) <= p
<1>1. o \in Nat /\ p \in Nat /\ CellEnd(d, o) \in Nat /\ d.Cell[p] # 0
  BY CellBounds DEF Cells
<1>2. p \notin o + 1 .. CellEnd(d, o) - 1
  BY <1>1 DEF CellsTile
<1>3. QED
  BY <1>1, <1>2

\* What the tiling says of one cell, and that what it talks of are offsets.
LEMMA CellFacts ==
  ASSUME NEW d \in DualType, BinsTile(d), CellsTile(d), NEW q \in Cells(d)
  PROVE  /\ HvGetCellBlock(q) < d.Length
         /\ BinOf(d, q) * HBLOCK + HBIN <= q
         /\ q \in Nat /\ CellEnd(d, q) \in Nat /\ q < CellEnd(d, q)
         /\ CellEnd(d, q) <= BinEnd(d, BinOf(d, q)) /\ BinEnd(d, BinOf(d, q)) \in Nat
         /\ CellEnd(d, q) < BinEnd(d, BinOf(d, q)) =>
              /\ d.Cell[CellEnd(d, q)] # 0 /\ CellEnd(d, q) \in Offsets
              /\ BinOf(d, CellEnd(d, q)) = BinOf(d, q)
         /\ \A n \in q + 1 .. CellEnd(d, q) - 1 : d.Cell[n] = 0 /\ n \in Offsets
<1>1. /\ q \in Nat /\ CellEnd(d, q) \in Nat /\ q < CellEnd(d, q)
      /\ CellEnd(d, q) <= BinEnd(d, BinOf(d, q)) /\ BinEnd(d, BinOf(d, q)) \in Nat
  BY CellBounds, BinBounds
<1>2. CellEnd(d, q) < BinEnd(d, BinOf(d, q)) =>
        CellEnd(d, q) \in Offsets /\ BinOf(d, CellEnd(d, q)) = BinOf(d, q)
  BY <1>1, InsideCell
<1>3. \A n \in q + 1 .. CellEnd(d, q) - 1 : n \in Offsets
  BY <1>1, InsideCell
<1>4. QED
  BY <1>1, <1>2, <1>3 DEF CellsTile

\* Turning a free cell into one in use, or back, keeps the bins tiled.
LEMMA ResignTiles ==
  ASSUME NEW d \in DualType, NEW e \in DualType, SameBins(d, e),
         BinsTile(d), CellsTile(d),
         NEW o \in Cells(d), NEW x \in Int, Abs(x) = Abs(d.Cell[o]),
         e.Cell = [d.Cell EXCEPT ![o] = x]
  PROVE  BinsTile(e) /\ CellsTile(e)
<1>1. BinsTile(e)
  BY SameBinsFacts
<1>2. d.Cell \in [Offsets -> Int] /\ o \in Offsets /\ d.Cell[o] # 0
  BY DEF DualType, Cells
<1>3. \A p \in Offsets : Abs(e.Cell[p]) = Abs(d.Cell[p]) /\ (e.Cell[p] = 0 <=> d.Cell[p] = 0)
  BY <1>2 DEF Abs
<1>4. Cells(e) = Cells(d) /\ \A p \in Cells(d) : CellEnd(e, p) = CellEnd(d, p)
  BY <1>3 DEF Cells, CellEnd
<1>5. \A b \in Bins(e) : e.Cell[b * HBLOCK + HBIN] # 0
  BY <1>3, SameBinsFacts, FirstCell DEF CellsTile
<1>6. ASSUME NEW p \in Cells(d)
      PROVE  /\ HvGetCellBlock(p) < e.Length
             /\ BinOf(e, p) * HBLOCK + HBIN <= p
             /\ CellEnd(d, p) <= BinEnd(e, BinOf(e, p))
             /\ CellEnd(d, p) < BinEnd(e, BinOf(e, p)) => e.Cell[CellEnd(d, p)] # 0
             /\ \A q \in p + 1 .. CellEnd(d, p) - 1 : e.Cell[q] = 0
  <2>1. /\ HvGetCellBlock(p) < d.Length
        /\ BinOf(d, p) * HBLOCK + HBIN <= p
        /\ CellEnd(d, p) <= BinEnd(d, BinOf(d, p))
        /\ CellEnd(d, p) < BinEnd(d, BinOf(d, p)) => d.Cell[CellEnd(d, p)] # 0
        /\ \A q \in p + 1 .. CellEnd(d, p) - 1 : d.Cell[q] = 0
    BY DEF CellsTile
  <2>2. p \in Nat /\ CellEnd(d, p) \in Nat /\ p < CellEnd(d, p)
    BY CellBounds
  <2>3. BinEnd(d, BinOf(d, p)) \in Nat
    BY CellBounds, BinBounds
  <2>4. CellEnd(d, p) < BinEnd(d, BinOf(d, p)) => CellEnd(d, p) \in Offsets
    BY <2>2, InsideCell
  <2>5. \A q \in p + 1 .. CellEnd(d, p) - 1 : q \in Offsets
    BY <2>1, <2>2, <2>3, InsideCell
  <2>6. QED
    BY <2>1, <2>4, <2>5, <1>3, SameBinsFacts DEF SameBins
<1>7. QED
  BY <1>1, <1>4, <1>5, <1>6 DEF CellsTile

\* Cutting a cell in two keeps the bins tiled.
LEMMA SplitTiles ==
  ASSUME NEW d \in DualType, NEW e \in DualType, SameBins(d, e),
         BinsTile(d), CellsTile(d),
         NEW o \in Cells(d), NEW s \in Nat \ {0}, s < Abs(d.Cell[o]),
         NEW x \in Int, NEW y \in Int, Abs(x) = s, Abs(y) = Abs(d.Cell[o]) - s,
         e.Cell = [d.Cell EXCEPT ![o] = x, ![o + s] = y]
  PROVE  /\ BinsTile(e) /\ CellsTile(e)
         /\ o + s \in Offsets /\ d.Cell[o + s] = 0
         /\ Cells(e) = Cells(d) \cup {o + s}
         /\ \A p \in Cells(d) : p # o => CellEnd(e, p) = CellEnd(d, p)
         /\ CellEnd(e, o) = o + s
         /\ CellEnd(e, o + s) = CellEnd(d, o)
<1> DEFINE r == o + s
<1>1. BinsTile(e)
  BY SameBinsFacts
<1>2. /\ d.Cell \in [Offsets -> Int] /\ o \in Offsets /\ d.Cell[o] \in Int /\ d.Cell[o] # 0
      /\ o \in Nat /\ CellEnd(d, o) \in Nat
      /\ CellEnd(d, o) = o + Abs(d.Cell[o]) /\ Abs(d.Cell[o]) \in Nat
      /\ CellEnd(d, o) <= BinEnd(d, BinOf(d, o)) /\ BinEnd(d, BinOf(d, o)) \in Nat
  <2>1. d.Cell \in [Offsets -> Int] /\ o \in Offsets /\ d.Cell[o] # 0
    BY DEF DualType, Cells
  <2>2. d.Cell[o] \in Int /\ Abs(d.Cell[o]) \in Nat
    BY <2>1 DEF Abs
  <2>3. CellEnd(d, o) = o + Abs(d.Cell[o])
    BY DEF CellEnd
  <2>4. BinEnd(d, BinOf(d, o)) \in Nat
    BY CellBounds, BinBounds
  <2>5. QED
    BY <2>1, <2>2, <2>3, <2>4, CellBounds
<1>3. r \in Nat /\ o < r /\ r < CellEnd(d, o) /\ r < BinEnd(d, BinOf(d, o))
  BY <1>2
<1>4. r \in Offsets /\ HvGetCellBlock(r) < d.Length /\ BinOf(d, r) = BinOf(d, o)
  BY <1>2, <1>3, InsideCell
<1>5. d.Cell[r] = 0
  BY <1>2, <1>3 DEF CellsTile
<1>6. /\ \A p \in Offsets : p # o /\ p # r => e.Cell[p] = d.Cell[p]
      /\ e.Cell[o] = x /\ e.Cell[r] = y
  BY <1>2, <1>3, <1>4
<1>7. x # 0 /\ y # 0
  BY <1>2 DEF Abs
<1>8. Cells(e) = Cells(d) \cup {r}
  BY <1>2, <1>4, <1>6, <1>7 DEF Cells
<1>9. /\ \A p \in Cells(d) : p # o => CellEnd(e, p) = CellEnd(d, p)
      /\ CellEnd(e, o) = r
      /\ CellEnd(e, r) = CellEnd(d, o)
  BY <1>2, <1>3, <1>5, <1>6 DEF CellEnd, Cells
<1> HIDE DEF r
<1>10. \A b \in Bins(e) : e.Cell[b * HBLOCK + HBIN] # 0
  BY <1>6, <1>7, SameBinsFacts, FirstCell DEF CellsTile
<1>11. ASSUME NEW p \in Cells(e)
       PROVE  /\ HvGetCellBlock(p) < e.Length
              /\ BinOf(e, p) * HBLOCK + HBIN <= p
              /\ CellEnd(e, p) <= BinEnd(e, BinOf(e, p))
              /\ CellEnd(e, p) < BinEnd(e, BinOf(e, p)) => e.Cell[CellEnd(e, p)] # 0
              /\ \A q \in p + 1 .. CellEnd(e, p) - 1 : e.Cell[q] = 0
  <2>1. \A q \in Cells(d) :
          /\ HvGetCellBlock(q) < d.Length
          /\ BinOf(d, q) * HBLOCK + HBIN <= q
          /\ q \in Nat /\ CellEnd(d, q) \in Nat /\ q < CellEnd(d, q)
          /\ CellEnd(d, q) <= BinEnd(d, BinOf(d, q)) /\ BinEnd(d, BinOf(d, q)) \in Nat
          /\ CellEnd(d, q) < BinEnd(d, BinOf(d, q)) =>
               d.Cell[CellEnd(d, q)] # 0 /\ CellEnd(d, q) \in Offsets
          /\ \A n \in q + 1 .. CellEnd(d, q) - 1 : d.Cell[n] = 0 /\ n \in Offsets
    BY CellFacts
  <2>2. CASE p = r
    <3>1. /\ HvGetCellBlock(r) < d.Length
          /\ BinOf(d, r) * HBLOCK + HBIN <= r
      <4>1. BinOf(d, o) * HBLOCK + HBIN \in Int
        BY CellBounds, BinBounds DEF HBIN
      <4>2. QED
        BY <4>1, <2>1, <1>2, <1>3, <1>4
    <3>2. /\ CellEnd(d, o) <= BinEnd(d, BinOf(d, r))
          /\ CellEnd(d, o) < BinEnd(d, BinOf(d, r)) => e.Cell[CellEnd(d, o)] # 0
      BY <2>1, <1>2, <1>3, <1>4, <1>6
    <3>3. \A q \in r + 1 .. CellEnd(d, o) - 1 : e.Cell[q] = 0
      <4>1. \A q \in r + 1 .. CellEnd(d, o) - 1 :
              q \in o + 1 .. CellEnd(d, o) - 1 /\ q # o /\ q # r
        BY <1>2, <1>3
      <4>2. QED
        BY <4>1, <2>1, <1>6
    <3>4. QED
      BY <2>2, <3>1, <3>2, <3>3, <1>9, SameBinsFacts DEF SameBins
  <2>3. CASE p = o
    BY <2>3, <2>1, <1>2, <1>3, <1>4, <1>6, <1>7, <1>9, SameBinsFacts DEF SameBins
  <2>4. CASE p # o /\ p # r
    <3>1. p \in Cells(d) /\ CellEnd(e, p) = CellEnd(d, p)
      BY <2>4, <1>8, <1>9
    <3>2. \A q \in p + 1 .. CellEnd(d, p) - 1 : q # o
      BY <3>1, <2>1 DEF Cells
    <3>3. \A q \in p + 1 .. CellEnd(d, p) - 1 : q # r
      <4> SUFFICES ASSUME p < r, r < CellEnd(d, p) PROVE FALSE
        BY <3>1, <2>1, <1>3
      <4>1. CASE p < o
        BY <4>1, <3>1, <2>1, <1>3, CellsApart
      <4>2. CASE o < p
        BY <4>2, <3>1, <2>1, <1>3, CellsApart
      <4>3. QED
        BY <4>1, <4>2, <3>1, <2>1, <2>4, <1>2
    <3>4. QED
      BY <3>1, <3>2, <3>3, <2>1, <1>6, <1>7, SameBinsFacts DEF SameBins
  <2>5. QED
    BY <2>2, <2>3, <2>4
<1>12. CellsTile(e)
  BY <1>10, <1>11 DEF CellsTile
<1>13. QED
  BY <1>1, <1>4, <1>5, <1>8, <1>9, <1>12 DEF r

\* Joining a cell to the one that follows it keeps the bins tiled.
LEMMA JoinTiles ==
  ASSUME NEW d \in DualType, NEW e \in DualType, SameBins(d, e),
         BinsTile(d), CellsTile(d),
         NEW p \in Cells(d), NEW o \in Cells(d), CellEnd(d, p) = o,
         BinOf(d, p) = BinOf(d, o),
         NEW z \in Int, Abs(z) = Abs(d.Cell[p]) + Abs(d.Cell[o]),
         e.Cell = [d.Cell EXCEPT ![p] = z, ![o] = 0]
  PROVE  /\ BinsTile(e) /\ CellsTile(e)
         /\ Cells(e) = Cells(d) \ {o}
         /\ \A q \in Cells(d) : q # p /\ q # o => CellEnd(e, q) = CellEnd(d, q)
         /\ CellEnd(e, p) = CellEnd(d, o)
<1>1. BinsTile(e)
  BY SameBinsFacts
<1>2. /\ d.Cell \in [Offsets -> Int]
      /\ p \in Offsets /\ d.Cell[p] # 0 /\ o \in Offsets /\ d.Cell[o] # 0
  BY DEF DualType, Cells
<1>3. /\ p \in Nat /\ o \in Nat /\ p < o
      /\ CellEnd(d, o) \in Nat /\ o < CellEnd(d, o)
  BY CellFacts
<1>4. /\ \A q \in Offsets : q # p /\ q # o => e.Cell[q] = d.Cell[q]
      /\ e.Cell[p] = z /\ e.Cell[o] = 0
  BY <1>2, <1>3
<1>5. /\ Abs(d.Cell[p]) \in Nat /\ Abs(d.Cell[o]) \in Nat \ {0}
      /\ o = p + Abs(d.Cell[p]) /\ CellEnd(d, o) = o + Abs(d.Cell[o])
      /\ CellEnd(e, p) = p + Abs(z) /\ z # 0
  <2>1. Abs(d.Cell[p]) \in Nat /\ Abs(d.Cell[o]) \in Nat \ {0}
    BY <1>2 DEF Abs
  <2>2. o = p + Abs(d.Cell[p]) /\ CellEnd(d, o) = o + Abs(d.Cell[o])
    BY DEF CellEnd
  <2>3. CellEnd(e, p) = p + Abs(z)
    BY <1>4 DEF CellEnd
  <2>4. z # 0
    BY <2>1 DEF Abs
  <2>5. QED
    BY <2>1, <2>2, <2>3, <2>4
<1>6. CellEnd(e, p) = CellEnd(d, o)
  BY <1>3, <1>5
<1>7. Cells(e) = Cells(d) \ {o}
  BY <1>2, <1>3, <1>4, <1>5 DEF Cells
<1>8. \A q \in Cells(d) : q # p /\ q # o => CellEnd(e, q) = CellEnd(d, q)
  BY <1>4 DEF CellEnd, Cells
<1>9. \A b \in Bins(e) : e.Cell[b * HBLOCK + HBIN] # 0
  <2> SUFFICES ASSUME NEW b \in Bins(d), b * HBLOCK + HBIN = o PROVE FALSE
    BY <1>4, <1>5, SameBinsFacts, FirstCell DEF CellsTile
  <2>1. BinOf(d, p) = b
    BY FirstCell
  <2>2. b * HBLOCK + HBIN <= p
    BY <2>1, CellFacts
  <2>3. QED
    BY <1>3, <2>2
<1>10. ASSUME NEW q \in Cells(e)
       PROVE  /\ HvGetCellBlock(q) < e.Length
              /\ BinOf(e, q) * HBLOCK + HBIN <= q
              /\ CellEnd(e, q) <= BinEnd(e, BinOf(e, q))
              /\ CellEnd(e, q) < BinEnd(e, BinOf(e, q)) => e.Cell[CellEnd(e, q)] # 0
              /\ \A n \in q + 1 .. CellEnd(e, q) - 1 : e.Cell[n] = 0
  <2>1. /\ q \in Cells(d) /\ q # o /\ q \in Nat /\ CellEnd(d, q) \in Nat
        /\ HvGetCellBlock(q) < d.Length /\ BinOf(d, q) * HBLOCK + HBIN <= q
        /\ q < CellEnd(d, q)
    BY <1>7, CellFacts
  <2>2. CASE q = p
    <3>1. /\ CellEnd(d, o) <= BinEnd(d, BinOf(d, p))
          /\ CellEnd(d, o) < BinEnd(d, BinOf(d, p)) =>
               d.Cell[CellEnd(d, o)] # 0 /\ CellEnd(d, o) \in Offsets
      BY CellFacts
    <3>2. CellEnd(d, o) < BinEnd(d, BinOf(d, p)) => e.Cell[CellEnd(d, o)] # 0
      BY <3>1, <1>3, <1>4
    <3>3. ASSUME NEW n \in p + 1 .. CellEnd(d, o) - 1 PROVE e.Cell[n] = 0
      <4>1. CASE n < o
        <5>1. n \in p + 1 .. CellEnd(d, p) - 1
          BY <4>1, <1>3
        <5>2. d.Cell[n] = 0 /\ n \in Offsets /\ n # p /\ n # o
          BY <5>1, <4>1, <1>3, CellFacts
        <5>3. QED
          BY <5>2, <1>4
      <4>2. CASE n = o
        BY <4>2, <1>4
      <4>3. CASE o < n
        <5>1. n \in o + 1 .. CellEnd(d, o) - 1
          BY <4>3, <1>3
        <5>2. d.Cell[n] = 0 /\ n \in Offsets /\ n # p /\ n # o
          BY <5>1, <4>3, <1>3, CellFacts
        <5>3. QED
          BY <5>2, <1>4
      <4>4. QED
        BY <4>1, <4>2, <4>3, <1>3
    <3>4. QED
      BY <2>1, <2>2, <3>1, <3>2, <3>3, <1>6, SameBinsFacts DEF SameBins
  <2>3. CASE q # p
    <3>1. CellEnd(e, q) = CellEnd(d, q)
      BY <2>1, <2>3, <1>8
    <3>2. CellEnd(d, q) # o
      <4>1. CASE q < p
        BY <4>1, <2>1, <1>3, CellsApart
      <4>2. CASE p < q
        <5>1. o <= q
          BY <4>2, <2>1, CellsApart
        <5>2. QED
          BY <5>1, <2>1, <1>3
      <4>3. QED
        BY <4>1, <4>2, <2>1, <2>3, <1>3
    <3>3. /\ CellEnd(d, q) <= BinEnd(d, BinOf(d, q))
          /\ CellEnd(d, q) < BinEnd(d, BinOf(d, q)) =>
               d.Cell[CellEnd(d, q)] # 0 /\ CellEnd(d, q) \in Offsets
          /\ \A n \in q + 1 .. CellEnd(d, q) - 1 : d.Cell[n] = 0 /\ n \in Offsets
      BY <2>1, CellFacts
    <3>4. \A n \in q + 1 .. CellEnd(d, q) - 1 : n # p /\ n # o
      BY <3>3, <1>2
    <3>5. QED
      BY <2>1, <3>1, <3>2, <3>3, <3>4, <1>4, <1>5, SameBinsFacts DEF SameBins
  <2>4. QED
    BY <2>2, <2>3
<1>11. CellsTile(e)
  BY <1>9, <1>10 DEF CellsTile
<1>12. QED
  BY <1>1, <1>6, <1>7, <1>8, <1>11

\* A new bin of one free cell keeps the bins tiled; the cell is large enough.
LEMMA AddBinTiles ==
  ASSUME NEW d \in DualType, BinsTile(d), CellsTile(d),
         NEW s \in Nat \ {0}, Room(d, s)
  PROVE  LET e   == HvpAddBin(d, s)
             new == d.Length * HBLOCK + HBIN
         IN  /\ e \in DualType /\ BinsTile(e) /\ CellsTile(e)
             /\ new \in Offsets /\ new \notin Cells(d)
             /\ e.Cell = [d.Cell EXCEPT ![new] = e.Cell[new]]
             /\ e.Cell[new] \in Nat /\ e.Cell[new] >= s
             /\ CellEnd(e, new) = BinEnd(e, BinOf(e, new))
             /\ e.FreeDisplay = d.FreeDisplay
             /\ \A q \in Cells(d) : /\ BinOf(e, q) = BinOf(d, q)
                                   /\ BinEnd(e, BinOf(e, q)) = BinEnd(d, BinOf(d, q))
<1> DEFINE e   == HvpAddBin(d, s)
           new == d.Length * HBLOCK + HBIN
           n   == BinBlocks(s)
           b   == d.Length
           u   == n * HBLOCK - HBIN
<1>1. b \in Nat /\ b <= MaxBlocks /\ MaxBlocks \in Nat /\ HBLOCK \in Nat /\ HBLOCK > 3
  BY MaxBlocksAssumption, HBLOCKAssumption DEF DualType
<1>2. n \in Nat \ {0} /\ n * HBLOCK \in Nat /\ n * HBLOCK >= s + HBIN
  <2>1. /\ n \in Nat
        /\ HBLOCK * n <= s + HBIN + HBLOCK - 1
        /\ s + HBIN + HBLOCK - 1 < HBLOCK * n + HBLOCK
    BY <1>1 DEF BinBlocks, HBIN
  <2>2. HBLOCK * n = n * HBLOCK
    BY <1>1, <2>1
  <2>3. n * HBLOCK >= s + HBIN
    BY <1>1, <2>1, <2>2 DEF HBIN
  <2>4. QED
    BY <1>1, <2>1, <2>3 DEF HBIN
<1>3. b + n <= MaxBlocks
  BY DEF Room
<1>4. /\ u \in Nat /\ u >= s /\ b * HBLOCK \in Nat /\ new = b * HBLOCK + 2 /\ new \in Nat
      /\ (b + n) * HBLOCK = b * HBLOCK + n * HBLOCK
      /\ (b + n) * HBLOCK <= MaxBlocks * HBLOCK /\ MaxBlocks * HBLOCK \in Nat
  BY <1>1, <1>2, <1>3, TimesMonotonic DEF HBIN
<1>5. new \in Offsets
  BY <1>2, <1>4 DEF Offsets, HBIN
<1>6. /\ e.Length = b + n
      /\ e.BlockList = [i \in Blocks |-> IF i \in b .. b + n - 1 THEN b ELSE d.BlockList[i]]
      /\ e.BinSize = [d.BinSize EXCEPT ![b] = n]
      /\ e.Cell = [d.Cell EXCEPT ![new] = u]
      /\ e.FreeDisplay = d.FreeDisplay
      /\ e.Dirty = d.Dirty \cup (IF Storage = "Stable" THEN b .. b + n - 1 ELSE {})
  BY DEF HvpAddBin, DualType
<1>7. e \in DualType
  <2>1. e = [d EXCEPT !.Length = e.Length, !.BlockList = e.BlockList, !.BinSize = e.BinSize,
                      !.Cell = e.Cell, !.Dirty = e.Dirty]
    BY <1>6 DEF HvpAddBin
  <2>2. b \in Blocks /\ b .. b + n - 1 \subseteq Blocks
    BY <1>1, <1>2, <1>3 DEF Blocks
  <2>3. e.Length \in 0 .. MaxBlocks /\ n \in 0 .. MaxBlocks
    BY <1>1, <1>2, <1>3, <1>6
  <2>4. e.BlockList \in [Blocks -> Blocks \cup {HCELL_NIL}]
    BY <1>6, <2>2 DEF DualType
  <2>5. e.BinSize \in [Blocks -> 0 .. MaxBlocks]
    BY <1>6, <2>2, <2>3 DEF DualType
  <2>6. e.Cell \in [Offsets -> Int]
    BY <1>4, <1>5, <1>6 DEF DualType
  <2>7. e.FreeDisplay \in [Lists -> Seq(Offsets)] /\ e.Dirty \in SUBSET Blocks
    BY <1>6, <2>2 DEF DualType
  <2> HIDE DEF e
  <2>8. QED
    BY <2>1, <2>3, <2>4, <2>5, <2>6, <2>7 DEF DualType
<1> HIDE DEF e, n, u
<1>8. /\ d.BlockList \in [Blocks -> Blocks \cup {HCELL_NIL}]
      /\ d.BinSize \in [Blocks -> 0 .. MaxBlocks] /\ d.Cell \in [Offsets -> Int]
      /\ b \in Blocks
  BY <1>1, <1>2, <1>3 DEF DualType, Blocks
<1>9. /\ \A c \in Bins(d) : c \in Nat /\ c + d.BinSize[c] \in Nat /\ c + d.BinSize[c] <= b
                          /\ d.BinSize[c] \in Nat \ {0}
      /\ b \notin Bins(d)
  BY <1>1, BinBounds DEF BinsTile
<1>10. Bins(e) = Bins(d) \cup {b} /\ \A c \in Bins(d) : e.BinSize[c] = d.BinSize[c]
  <2>1. \A c \in Blocks : e.BinSize[c] = IF c = b THEN n ELSE d.BinSize[c]
    BY <1>6, <1>8
  <2>2. QED
    BY <2>1, <1>2, <1>8, <1>9 DEF Bins
<1>11. e.BinSize[b] = n
  BY <1>6, <1>8
<1>12. \A i \in Blocks : e.BlockList[i] = IF i \in b .. b + n - 1 THEN b ELSE d.BlockList[i]
  BY <1>6
<1>13. BinsTile(e)
  <2>1. ASSUME NEW i \in Blocks, i < b + n
        PROVE  /\ e.BlockList[i] \in Bins(e) /\ e.BlockList[i] <= i
               /\ i < e.BlockList[i] + e.BinSize[e.BlockList[i]]
    <3>1. CASE i < b
      <4>1. e.BlockList[i] = d.BlockList[i]
        BY <3>1, <1>1, <1>12 DEF Blocks
      <4>2. /\ d.BlockList[i] \in Bins(d) /\ d.BlockList[i] <= i
            /\ i < d.BlockList[i] + d.BinSize[d.BlockList[i]]
        BY <3>1 DEF BinsTile
      <4>3. QED
        BY <4>1, <4>2, <1>10
    <3>2. CASE ~(i < b)
      <4>1. e.BlockList[i] = b /\ b <= i
        BY <3>2, <2>1, <1>1, <1>2, <1>12 DEF Blocks
      <4>2. QED
        BY <4>1, <2>1, <1>10, <1>11
    <3>3. QED
      BY <3>1, <3>2
  <2>2. ASSUME NEW c \in Bins(e)
        PROVE  /\ c + e.BinSize[c] <= b + n
               /\ \A i \in c .. c + e.BinSize[c] - 1 : e.BlockList[i] = c
    <3>1. CASE c = b
      BY <3>1, <1>1, <1>2, <1>3, <1>11, <1>12 DEF Blocks
    <3>2. CASE c \in Bins(d)
      <4>1. c + d.BinSize[c] <= b /\ \A i \in c .. c + d.BinSize[c] - 1 : d.BlockList[i] = c
        BY <3>2 DEF BinsTile
      <4>2. \A i \in c .. c + d.BinSize[c] - 1 : i \in Blocks /\ i < b
        BY <3>2, <1>1, <1>9 DEF Blocks
      <4>3. QED
        BY <3>2, <4>1, <4>2, <1>1, <1>2, <1>9, <1>10, <1>12
    <3>3. QED
      BY <3>1, <3>2, <1>10
  <2>3. QED
    BY <2>1, <2>2, <1>6 DEF BinsTile
<1>14. \A q \in Cells(d) : /\ HvGetCellBlock(q) \in Blocks /\ HvGetCellBlock(q) < b
                          /\ BinOf(e, q) = BinOf(d, q)
                          /\ BinEnd(e, BinOf(e, q)) = BinEnd(d, BinOf(d, q))
                          /\ BinEnd(d, BinOf(d, q)) <= b * HBLOCK
  <2> SUFFICES ASSUME NEW q \in Cells(d)
               PROVE  /\ HvGetCellBlock(q) \in Blocks /\ HvGetCellBlock(q) < b
                      /\ BinOf(e, q) = BinOf(d, q)
                      /\ BinEnd(e, BinOf(e, q)) = BinEnd(d, BinOf(d, q))
                      /\ BinEnd(d, BinOf(d, q)) <= b * HBLOCK
    OBVIOUS
  <2>1. HvGetCellBlock(q) < b /\ q \in Nat /\ BinOf(d, q) \in Bins(d)
    BY CellFacts, CellBounds
  <2>2. HvGetCellBlock(q) \in Nat
    BY <2>1, <1>1 DEF HvGetCellBlock
  <2>3. HvGetCellBlock(q) \in Blocks
    BY <2>1, <2>2, <1>1 DEF Blocks
  <2>4. BinOf(e, q) = BinOf(d, q)
    BY <2>1, <2>2, <2>3, <1>1, <1>12 DEF BinOf
  <2>5. BinEnd(e, BinOf(e, q)) = BinEnd(d, BinOf(d, q))
    BY <2>1, <2>4, <1>10 DEF BinEnd
  <2>6. QED
    BY <2>1, <2>3, <2>4, <2>5, BinBounds
<1>15. new \notin Cells(d)
  BY <1>4, <1>14, CellFacts
<1>16. /\ \A q \in Offsets : q # new => e.Cell[q] = d.Cell[q]
       /\ e.Cell[new] = u
  BY <1>5, <1>6, <1>8
<1>17. Cells(e) = Cells(d) \cup {new} /\ \A q \in Cells(d) : CellEnd(e, q) = CellEnd(d, q)
  <2>1. u # 0
    BY <1>4
  <2>2. QED
    BY <2>1, <1>5, <1>15, <1>16 DEF Cells, CellEnd
<1>18. BinOf(e, new) = b /\ HvGetCellBlock(new) < e.Length
  BY <1>7, <1>10, <1>13, FirstCell
<1>19. /\ BinEnd(e, b) = (b + n) * HBLOCK
       /\ CellEnd(e, new) = (b + n) * HBLOCK
  <2>1. CellEnd(e, new) = new + u
    BY <1>4, <1>16 DEF CellEnd, Abs
  <2>2. QED
    BY <2>1, <1>2, <1>4, <1>11 DEF BinEnd, u, HBIN
<1>20. \A c \in Bins(e) : e.Cell[c * HBLOCK + HBIN] # 0
  <2>1. ASSUME NEW c \in Bins(d) PROVE e.Cell[c * HBLOCK + HBIN] # 0
    <3>1. c * HBLOCK + HBIN \in Offsets /\ d.Cell[c * HBLOCK + HBIN] # 0
      BY FirstCell DEF CellsTile
    <3>2. QED
      BY <3>1, <1>4, <1>16
  <2>2. QED
    BY <2>1, <1>4, <1>10, <1>16
<1>21. ASSUME NEW q \in Cells(e)
       PROVE  /\ HvGetCellBlock(q) < e.Length
              /\ BinOf(e, q) * HBLOCK + HBIN <= q
              /\ CellEnd(e, q) <= BinEnd(e, BinOf(e, q))
              /\ CellEnd(e, q) < BinEnd(e, BinOf(e, q)) => e.Cell[CellEnd(e, q)] # 0
              /\ \A i \in q + 1 .. CellEnd(e, q) - 1 : e.Cell[i] = 0
  <2>1. CASE q = new
    <3>1. \A i \in new + 1 .. CellEnd(e, new) - 1 : i \in Offsets /\ i # new /\ i \notin Cells(d)
      <4> SUFFICES ASSUME NEW i \in new + 1 .. CellEnd(e, new) - 1
                   PROVE  i \in Offsets /\ i # new /\ i \notin Cells(d)
        OBVIOUS
      <4>1. i \in Nat /\ i > new /\ i < (b + n) * HBLOCK
        BY <1>4, <1>2, <1>19
      <4>2. i \in Offsets
        BY <4>1, <1>4, <1>2 DEF Offsets
      <4>3. i \notin Cells(d)
        BY <4>1, <1>4, <1>14, CellFacts
      <4>4. QED
        BY <4>1, <4>2, <4>3, <1>4
    <3>2. \A i \in new + 1 .. CellEnd(e, new) - 1 : e.Cell[i] = 0
      BY <3>1, <1>16 DEF Cells
    <3>3. QED
      BY <2>1, <3>2, <1>2, <1>4, <1>18, <1>19
  <2>2. CASE q \in Cells(d)
    <3>1. /\ BinOf(d, q) * HBLOCK + HBIN <= q
          /\ q \in Nat /\ CellEnd(d, q) \in Nat
          /\ CellEnd(d, q) <= BinEnd(d, BinOf(d, q)) /\ BinEnd(d, BinOf(d, q)) \in Nat
          /\ CellEnd(d, q) < BinEnd(d, BinOf(d, q)) =>
               d.Cell[CellEnd(d, q)] # 0 /\ CellEnd(d, q) \in Offsets
          /\ \A i \in q + 1 .. CellEnd(d, q) - 1 : d.Cell[i] = 0 /\ i \in Offsets
      BY <2>2, CellFacts
    <3>2. /\ BinOf(e, q) = BinOf(d, q) /\ BinEnd(e, BinOf(e, q)) = BinEnd(d, BinOf(d, q))
          /\ BinEnd(d, BinOf(d, q)) <= b * HBLOCK /\ CellEnd(e, q) = CellEnd(d, q)
      BY <2>2, <1>14, <1>17
    <3>3. HvGetCellBlock(q) < e.Length
      <4>1. HvGetCellBlock(q) < b /\ HvGetCellBlock(q) \in Int
        BY <2>2, <1>14 DEF Blocks
      <4>2. QED
        BY <4>1, <1>1, <1>2, <1>6
    <3>4. \A i \in q + 1 .. CellEnd(d, q) - 1 : i # new
      BY <3>1, <3>2, <1>4
    <3>5. CellEnd(d, q) < BinEnd(d, BinOf(d, q)) => CellEnd(d, q) # new
      BY <3>1, <3>2, <1>4
    <3>6. QED
      BY <3>1, <3>2, <3>3, <3>4, <3>5, <1>16
  <2>3. QED
    BY <2>1, <2>2, <1>17
<1>22. CellsTile(e)
  BY <1>20, <1>21 DEF CellsTile
<1>23. QED
  BY <1>4, <1>5, <1>6, <1>7, <1>13, <1>14, <1>15, <1>16, <1>18, <1>19, <1>22 DEF e

-----------------------------------------------------------------------------
(* The inductive invariant and the intermediate states of an operation *)

Sound(d) == d \in DualType /\ BinsTile(d) /\ CellsTile(d)

\* The lists are exact but for the cells of X, which hang on none.
ListsBut(d, X) ==
  \A k \in Lists :
    /\ IsInjective(d.FreeDisplay[k])
    /\ Range(d.FreeDisplay[k]) =
         {o \in FreeCells(d) \ X : HvpComputeFreeListIndex(d.Cell[o]) = k}

\* No two free cells are neighbours, o and the one before it perhaps.
CoalescedBut(d, o) ==
  \A q \in FreeCells(d) :
    CellEnd(d, q) < BinEnd(d, BinOf(d, q)) =>
      d.Cell[CellEnd(d, q)] < 0 \/ CellEnd(d, q) = o

Inv(d) == Sound(d) /\ ListsBut(d, {}) /\ Coalesced(d)

\* The dirty bits of a cell are bits of blocks.
LEMMA DirtyInBlocks ==
  ASSUME NEW o \in Offsets
  PROVE  DirtyBits(o) \subseteq Blocks
<1> DEFINE w == 16 * HBLOCK
           q == (16 * o + 16 * HBLOCK - 1) \div w
<1>1. o \in Nat /\ HBLOCK \in Nat /\ HBLOCK > 3 /\ MaxBlocks \in Nat
      /\ MaxBlocks * HBLOCK \in Nat /\ o < MaxBlocks * HBLOCK
  BY HBLOCKAssumption, MaxBlocksAssumption DEF Offsets
<1>2. q \in Int /\ w * q <= 16 * o + w - 1
  BY <1>1
<1>3. HvGetCellBlock(o) \in Nat
  BY <1>1 DEF HvGetCellBlock
<1>4. q <= MaxBlocks
  <2> SUFFICES ASSUME MaxBlocks + 1 <= q PROVE FALSE
    BY <1>1, <1>2
  <2>1. PICK n \in Nat : q = MaxBlocks + 1 + n
    <3>1. q - (MaxBlocks + 1) \in Nat /\ q = MaxBlocks + 1 + (q - (MaxBlocks + 1))
      BY <1>1, <1>2
    <3>2. QED
      BY <3>1
  <2> HIDE DEF q
  <2>2. w * q = 16 * (MaxBlocks * HBLOCK) + w + w * n
    BY <1>1, <2>1
  <2>3. w * n \in Nat
    BY <1>1
  <2>4. QED
    BY <1>1, <1>2, <2>2, <2>3
<1>5. HvGetCellBlock(o) .. q - 1 \subseteq Blocks
  BY <1>1, <1>2, <1>3, <1>4 DEF Blocks
<1>6. QED
  BY <1>5 DEF DirtyBits

\* Unlinking a listed cell leaves it free and on no list.
LEMMA Unlist ==
  ASSUME NEW d, Sound(d), ListsBut(d, {}), NEW o \in FreeCells(d)
  PROVE  LET f == HvpRemoveFree(d.FreeDisplay, o, d.Cell[o])
         IN  /\ f \in ListsType
             /\ \A k \in Lists :
                  /\ IsInjective(f[k])
                  /\ Range(f[k]) =
                       {q \in FreeCells(d) \ {o} : HvpComputeFreeListIndex(d.Cell[q]) = k}
<1>1. d.FreeDisplay \in ListsType /\ d.Cell[o] \in Nat \ {0}
  BY DEF Sound, DualType, ListsType, FreeCells
<1>2. \A k \in Lists : IsInjective(d.FreeDisplay[k])
  BY DEF ListsBut
<1> DEFINE fd == d.FreeDisplay
           s == d.Cell[o]
           f == HvpRemoveFree(fd, o, s)
<1> HIDE DEF fd, s
<1>0. o \in Offsets /\ fd \in ListsType /\ s \in Nat \ {0} /\ NoDuplicates(fd)
  BY <1>1, <1>2 DEF fd, s, FreeCells, NoDuplicates
<1>3. Unlinks(f, fd, o, HvpComputeFreeListIndex(s))
  BY <1>0, RemoveFreeFacts
<1> HIDE DEF f
<1>4. ASSUME NEW k \in Lists
      PROVE  Range(f[k]) =
               {q \in FreeCells(d) \ {o} : HvpComputeFreeListIndex(d.Cell[q]) = k}
  <2>1. Range(d.FreeDisplay[k]) =
          {q \in FreeCells(d) : HvpComputeFreeListIndex(d.Cell[q]) = k}
    BY DEF ListsBut
  <2>2. QED
    BY <1>3, <2>1 DEF fd, s, Unlinks
<1>5. QED
  BY <1>3, <1>4 DEF f, fd, s, Unlinks

\* Using a free, unlisted cell for s units restores the invariant.
LEMMA CarveKeepsInv ==
  ASSUME NEW d, Sound(d), NEW o \in FreeCells(d), ListsBut(d, {o}), Coalesced(d),
         NEW s \in Nat \ {0}, s <= d.Cell[o]
  PROVE  /\ Inv(Carve(d, o, s))
         /\ AllocatedCells(Carve(d, o, s)) = AllocatedCells(d) \cup {o}
         /\ \A q \in AllocatedCells(d) : Carve(d, o, s).Cell[q] = d.Cell[q]
<1> DEFINE e == Carve(d, o, s)
           size == d.Cell[o]
           r == o + s
<1>1. /\ d \in DualType /\ BinsTile(d) /\ CellsTile(d)
      /\ d.Cell \in [Offsets -> Int] /\ d.FreeDisplay \in ListsType
      /\ o \in Offsets /\ o \in Cells(d) /\ o \in Nat
      /\ size \in Nat \ {0} /\ Abs(size) = size /\ CellEnd(d, o) = o + size
  <2>1. d \in DualType /\ BinsTile(d) /\ CellsTile(d)
    BY DEF Sound
  <2>2. d.Cell \in [Offsets -> Int] /\ d.FreeDisplay \in ListsType
    BY <2>1 DEF DualType, ListsType
  <2>3. o \in Offsets /\ o \in Cells(d) /\ size \in Nat \ {0}
    BY <2>2 DEF FreeCells, Cells
  <2>4. Abs(size) = size
    BY <2>3 DEF Abs
  <2>5. o \in Nat
    BY <2>1, <2>3, CellFacts
  <2>6. QED
    BY <2>1, <2>2, <2>3, <2>4, <2>5 DEF CellEnd
<1>2. CASE size > s + 1
  <2>1. e = [d EXCEPT !.Cell        = [@ EXCEPT ![o] = -s, ![o + s] = size - s],
                      !.FreeDisplay = HvpAddFree(@, o + s, size - s),
                      !.Dirty       = @ \cup DirtyBits(o + s) \cup DirtyBits(o)]
    BY <1>2 DEF Carve
  <2>2. r \in Offsets /\ d.Cell[r] = 0
    <3>1. r \in o + 1 .. CellEnd(d, o) - 1
      BY <1>1, <1>2
    <3>2. QED
      BY <3>1, <1>1, CellFacts
  <2>3. \A k \in Lists : IsInjective(d.FreeDisplay[k]) /\ r \notin Range(d.FreeDisplay[k])
    BY <2>2 DEF ListsBut, FreeCells
  <2>4. size - s \in Nat \ {0} /\ s \in Int /\ -s \in Int
    BY <1>1, <1>2
  <2>5. /\ HvpAddFree(d.FreeDisplay, r, size - s) \in ListsType
        /\ \A k \in Lists :
              /\ IsInjective(HvpAddFree(d.FreeDisplay, r, size - s)[k])
              /\ Range(HvpAddFree(d.FreeDisplay, r, size - s)[k]) =
                   IF k = HvpComputeFreeListIndex(size - s)
                   THEN Range(d.FreeDisplay[k]) \cup {r}
                   ELSE Range(d.FreeDisplay[k])
    BY <1>1, <2>2, <2>3, <2>4, AddFreeFacts
  <2>6. DirtyBits(r) \subseteq Blocks /\ DirtyBits(o) \subseteq Blocks
    BY <1>1, <2>2, DirtyInBlocks
  <2>7. /\ SameBins(d, e)
        /\ e.Cell = [d.Cell EXCEPT ![o] = -s, ![r] = size - s]
        /\ e.FreeDisplay = HvpAddFree(d.FreeDisplay, r, size - s)
    BY <1>1, <2>1 DEF SameBins, DualType
  <2>8. e \in DualType
    <3>1. [d.Cell EXCEPT ![o] = -s, ![r] = size - s] \in [Offsets -> Int]
      BY <1>1, <2>2, <2>4
    <3>2. d.Dirty \cup DirtyBits(o + s) \cup DirtyBits(o) \in SUBSET Blocks
      BY <1>1, <2>6 DEF DualType
    <3>3. HvpAddFree(d.FreeDisplay, o + s, size - s) \in [Lists -> Seq(Offsets)]
      BY <2>5 DEF ListsType
    <3>4. QED
      BY <2>1, <3>1, <3>2, <3>3, <1>1 DEF DualType
  <2> HIDE DEF e
  <2>9. Abs(-s) = s /\ Abs(size - s) = Abs(d.Cell[o]) - s /\ s < Abs(d.Cell[o])
    BY <1>1, <1>2, <2>4 DEF Abs
  <2>10. /\ BinsTile(e) /\ CellsTile(e)
         /\ Cells(e) = Cells(d) \cup {r}
         /\ \A p \in Cells(d) : p # o => CellEnd(e, p) = CellEnd(d, p)
         /\ CellEnd(e, o) = r /\ CellEnd(e, r) = CellEnd(d, o)
    BY <1>1, <2>4, <2>7, <2>8, <2>9, SplitTiles
  <2>11. /\ \A p \in Offsets : p # o /\ p # r => e.Cell[p] = d.Cell[p]
         /\ e.Cell[o] = -s /\ e.Cell[r] = size - s /\ o # r
    BY <1>1, <2>2, <2>7
  <2>12. FreeCells(e) = (FreeCells(d) \ {o}) \cup {r}
    BY <1>1, <2>2, <2>4, <2>11 DEF FreeCells
  <2>13. AllocatedCells(e) = AllocatedCells(d) \cup {o}
    BY <1>1, <2>2, <2>4, <2>11 DEF AllocatedCells
  <2>14. ListsBut(e, {})
    <3> SUFFICES ASSUME NEW k \in Lists
                 PROVE  /\ IsInjective(e.FreeDisplay[k])
                        /\ Range(e.FreeDisplay[k]) =
                             {q \in FreeCells(e) \ {} : HvpComputeFreeListIndex(e.Cell[q]) = k}
      BY DEF ListsBut
    <3>1. Range(d.FreeDisplay[k]) =
            {q \in FreeCells(d) \ {o} : HvpComputeFreeListIndex(d.Cell[q]) = k}
      BY DEF ListsBut
    <3>2. {q \in FreeCells(e) \ {} : HvpComputeFreeListIndex(e.Cell[q]) = k} =
            IF k = HvpComputeFreeListIndex(size - s)
            THEN Range(d.FreeDisplay[k]) \cup {r} ELSE Range(d.FreeDisplay[k])
      <4>1. \A q \in FreeCells(d) \ {o} : e.Cell[q] = d.Cell[q] /\ q # r
        BY <2>2, <2>11 DEF FreeCells
      <4>2. QED
        BY <4>1, <3>1, <2>11, <2>12
    <3>3. QED
      BY <3>2, <2>5, <2>7
  <2>15. Coalesced(e)
    <3> SUFFICES ASSUME NEW q \in FreeCells(e),
                        CellEnd(e, q) < BinEnd(e, BinOf(e, q))
                 PROVE  e.Cell[CellEnd(e, q)] < 0
      BY DEF Coalesced
    <3>1. \A p \in FreeCells(d) :
            CellEnd(d, p) < BinEnd(d, BinOf(d, p)) =>
              d.Cell[CellEnd(d, p)] < 0 /\ CellEnd(d, p) \in Offsets /\ p \in Cells(d)
      <4>1. \A p \in FreeCells(d) : p \in Cells(d)
        BY DEF FreeCells, Cells
      <4>2. QED
        BY <4>1, <1>1, CellFacts DEF Coalesced
    <3>2. \A p \in Offsets : d.Cell[p] < 0 => e.Cell[p] < 0
      BY <1>1, <2>2, <2>11
    <3>3. CASE q = r
      <4>1. BinOf(d, r) = BinOf(d, o)
        <5>1. o <= r /\ r \in Int /\ r < CellEnd(d, o)
          BY <1>1, <1>2
        <5>2. CellEnd(d, o) <= BinEnd(d, BinOf(d, o)) /\ BinEnd(d, BinOf(d, o)) \in Nat
          BY <1>1, CellFacts
        <5>3. r < BinEnd(d, BinOf(d, o))
          BY <1>1, <5>1, <5>2
        <5>4. QED
          BY <1>1, <5>1, <5>3, InsideCell
      <4>2. CellEnd(d, o) < BinEnd(d, BinOf(d, o))
        BY <3>3, <4>1, <2>7, <2>10, SameBinsFacts
      <4>3. QED
        BY <3>1, <3>2, <3>3, <4>2, <2>10
    <3>4. CASE q # r
      <4>1. q \in FreeCells(d) /\ q # o /\ q \in Cells(d)
        BY <3>4, <2>12 DEF FreeCells, Cells
      <4>2. CellEnd(e, q) = CellEnd(d, q) /\ CellEnd(d, q) < BinEnd(d, BinOf(d, q))
        BY <4>1, <2>7, <2>10, SameBinsFacts
      <4>3. QED
        BY <3>1, <3>2, <4>1, <4>2
    <3>5. QED
      BY <3>3, <3>4
  <2>16. \A q \in AllocatedCells(d) : e.Cell[q] = d.Cell[q]
    BY <1>1, <2>2, <2>11 DEF AllocatedCells
  <2>17. QED
    BY <2>8, <2>10, <2>13, <2>14, <2>15, <2>16 DEF Inv, Sound, e
<1>3. CASE ~(size > s + 1)
  <2>1. e = [d EXCEPT !.Cell  = [@ EXCEPT ![o] = -size],
                      !.Dirty = @ \cup DirtyBits(o)]
    BY <1>3 DEF Carve
  <2>2. DirtyBits(o) \subseteq Blocks
    BY <1>1, DirtyInBlocks
  <2>3. /\ SameBins(d, e) /\ e.FreeDisplay = d.FreeDisplay
        /\ e.Cell = [d.Cell EXCEPT ![o] = -size]
    BY <1>1, <2>1 DEF SameBins, DualType
  <2>4. e \in DualType
    <3>1. [d.Cell EXCEPT ![o] = -size] \in [Offsets -> Int]
      BY <1>1
    <3>2. d.Dirty \cup DirtyBits(o) \in SUBSET Blocks
      BY <1>1, <2>2 DEF DualType
    <3>3. QED
      BY <2>1, <3>1, <3>2, <1>1 DEF DualType
  <2> HIDE DEF e
  <2>5. -size \in Int /\ Abs(-size) = Abs(d.Cell[o])
    BY <1>1 DEF Abs
  <2>6. BinsTile(e) /\ CellsTile(e)
    BY <1>1, <2>3, <2>4, <2>5, ResignTiles
  <2>7. (\A p \in Offsets : p # o => e.Cell[p] = d.Cell[p]) /\ e.Cell[o] = -size
    BY <1>1, <2>3
  <2>8. /\ FreeCells(e) = FreeCells(d) \ {o}
        /\ AllocatedCells(e) = AllocatedCells(d) \cup {o}
        /\ \A q \in AllocatedCells(d) : e.Cell[q] = d.Cell[q]
    BY <1>1, <2>7 DEF FreeCells, AllocatedCells
  <2>9. ListsBut(e, {})
    <3>1. \A q \in FreeCells(d) \ {o} : e.Cell[q] = d.Cell[q]
      BY <2>7 DEF FreeCells
    <3>2. QED
      BY <3>1, <2>3, <2>8 DEF ListsBut
  <2>10. Coalesced(e)
    <3> SUFFICES ASSUME NEW q \in FreeCells(e),
                        CellEnd(e, q) < BinEnd(e, BinOf(e, q))
                 PROVE  e.Cell[CellEnd(e, q)] < 0
      BY DEF Coalesced
    <3>1. q \in FreeCells(d) /\ q # o /\ q \in Cells(d) /\ q \in Offsets
      BY <2>8 DEF FreeCells, Cells
    <3>2. CellEnd(e, q) = CellEnd(d, q)
      BY <3>1, <2>7 DEF CellEnd
    <3>3. CellEnd(d, q) < BinEnd(d, BinOf(d, q))
      BY <3>2, <2>3, SameBinsFacts
    <3>4. d.Cell[CellEnd(d, q)] < 0 /\ CellEnd(d, q) \in Offsets
      BY <3>1, <3>3, <1>1, CellFacts DEF Coalesced
    <3>5. QED
      BY <3>2, <3>4, <2>7, <1>1
  <2>11. QED
    BY <2>4, <2>6, <2>8, <2>9, <2>10 DEF Inv, Sound, e
<1>4. QED
  BY <1>2, <1>3

\* The search returns a free cell that is large enough, or there is none.
LEMMA FindFreeFacts ==
  ASSUME NEW d, Sound(d), ListsBut(d, {}), NEW s \in Nat \ {0}
  PROVE  /\ HvpFindFree(d, s) # HCELL_NIL =>
              HvpFindFree(d, s) \in FreeCells(d) /\ s <= d.Cell[HvpFindFree(d, s)]
         /\ HvpFindFree(d, s) = HCELL_NIL =>
              \A q \in FreeCells(d) : d.Cell[q] < s
<1> DEFINE ks == {k \in HvpComputeFreeListIndex(s) .. 23 : Fitting(d, k, s) # {}}
<1>1. HvpComputeFreeListIndex(s) \in Lists
  BY ClassInLists
<1>2. /\ d.Cell \in [Offsets -> Int]
      /\ \A k \in Lists : d.FreeDisplay[k] \in Seq(Offsets)
      /\ \A k \in Lists : DOMAIN d.FreeDisplay[k] \subseteq Nat
  <2>1. d.Cell \in [Offsets -> Int] /\ \A k \in Lists : d.FreeDisplay[k] \in Seq(Offsets)
    BY DEF Sound, DualType
  <2>2. QED
    BY <2>1, LenProperties
<1>3. \A k \in Lists : Range(d.FreeDisplay[k]) =
                         {o \in FreeCells(d) : HvpComputeFreeListIndex(d.Cell[o]) = k}
  BY DEF ListsBut
<1>4. CASE ks # {}
  <2> DEFINE k == Min(ks)
             i == Min(Fitting(d, k, s))
  <2>1. k \in ks
    <3>1. ks \in SUBSET Nat
      BY <1>1 DEF Lists
    <3>2. QED
      BY <3>1, <1>4, MinFacts
  <2>2. k \in Lists /\ Fitting(d, k, s) # {}
    BY <2>1, <1>1 DEF Lists
  <2> HIDE DEF k
  <2>3. i \in Fitting(d, k, s)
    <3>1. Fitting(d, k, s) \in SUBSET Nat
      BY <1>2, <2>2 DEF Fitting
    <3>2. QED
      BY <3>1, <2>2, MinFacts
  <2> HIDE DEF i
  <2>4. i \in DOMAIN d.FreeDisplay[k] /\ d.Cell[d.FreeDisplay[k][i]] >= s
    BY <2>3 DEF Fitting
  <2>5. d.FreeDisplay[k][i] \in FreeCells(d)
    BY <2>2, <2>4, <1>3 DEF Range
  <2>6. HvpFindFree(d, s) = d.FreeDisplay[k][i]
    BY <1>4 DEF HvpFindFree, k, i
  <2>7. d.FreeDisplay[k][i] \in Offsets /\ d.FreeDisplay[k][i] # HCELL_NIL
    BY <2>5, HBLOCKAssumption, MaxBlocksAssumption DEF FreeCells, Offsets, HCELL_NIL
  <2>8. d.Cell[d.FreeDisplay[k][i]] \in Int
    BY <2>7, <1>2
  <2>9. QED
    BY <2>4, <2>5, <2>6, <2>7, <2>8
<1>5. CASE ks = {}
  <2>1. HvpFindFree(d, s) = HCELL_NIL
    BY <1>5 DEF HvpFindFree
  <2>2. ASSUME NEW q \in FreeCells(d), s <= d.Cell[q] PROVE FALSE
    <3>1. d.Cell[q] \in Nat \ {0}
      BY <1>2 DEF FreeCells
    <3> DEFINE k == HvpComputeFreeListIndex(d.Cell[q])
    <3>2. k \in Lists /\ HvpComputeFreeListIndex(s) <= k
      BY <2>2, <3>1, ClassInLists, ClassMonotonic
    <3>3. k \in HvpComputeFreeListIndex(s) .. 23
      BY <3>2, <1>1 DEF Lists
    <3>4. PICK i \in DOMAIN d.FreeDisplay[k] : d.FreeDisplay[k][i] = q
      BY <3>2, <1>3 DEF Range
    <3>5. i \in Fitting(d, k, s)
      BY <3>1, <3>4, <2>2 DEF Fitting
    <3>6. QED
      BY <3>3, <3>5, <1>5
  <2>3. \A q \in FreeCells(d) : d.Cell[q] \in Int
    BY <1>2 DEF FreeCells
  <2>4. QED
    BY <2>1, <2>2, <2>3
<1>6. QED
  BY <1>4, <1>5

\* An allocation keeps the invariant, and takes one cell that was not in use.
LEMMA AllocateKeepsInv ==
  ASSUME NEW d, Inv(d), NEW Size \in Nat, NEW memory \in BOOLEAN
  PROVE  LET r == HvAllocateCell(d, Size, memory)
         IN  /\ Inv(r.dual)
             /\ r.index = HCELL_NIL => r.dual = d
             /\ r.index # HCELL_NIL =>
                  /\ r.index \in Offsets /\ r.index \notin AllocatedCells(d)
                  /\ AllocatedCells(r.dual) = AllocatedCells(d) \cup {r.index}
                  /\ \A q \in AllocatedCells(d) : r.dual.Cell[q] = d.Cell[q]
<1> DEFINE s   == CellUnits(Size)
           o   == HvpFindFree(d, s)
           new == d.Length * HBLOCK + HBIN
<1>1. s \in Nat \ {0}
  BY UnitsPositive
<1>2. /\ Sound(d) /\ ListsBut(d, {}) /\ Coalesced(d)
      /\ d \in DualType /\ BinsTile(d) /\ CellsTile(d) /\ d.Cell \in [Offsets -> Int]
  BY DEF Inv, Sound, DualType
<1> HIDE DEF s
<1>3. CASE o # HCELL_NIL
  <2> DEFINE f == HvpRemoveFree(d.FreeDisplay, o, d.Cell[o])
             u == [d EXCEPT !.FreeDisplay = f]
  <2>1. o \in FreeCells(d) /\ s <= d.Cell[o]
    BY <1>1, <1>2, <1>3, FindFreeFacts
  <2>2. /\ f \in ListsType
        /\ \A k \in Lists :
             /\ IsInjective(f[k])
             /\ Range(f[k]) =
                  {q \in FreeCells(d) \ {o} : HvpComputeFreeListIndex(d.Cell[q]) = k}
    BY <1>2, <2>1, Unlist
  <2>3. HvAllocateCell(d, Size, memory) = [index |-> o, dual |-> Carve(u, o, s)]
    BY <1>3 DEF HvAllocateCell, s
  <2> HIDE DEF f, o
  <2>4. u \in DualType /\ SameBins(d, u) /\ u.Cell = d.Cell /\ u.FreeDisplay = f
    BY <1>2, <2>2 DEF DualType, SameBins, ListsType
  <2> HIDE DEF u
  <2>5. /\ FreeCells(u) = FreeCells(d) /\ AllocatedCells(u) = AllocatedCells(d)
        /\ Cells(u) = Cells(d) /\ \A q : CellEnd(u, q) = CellEnd(d, q)
    BY <2>4 DEF FreeCells, AllocatedCells, Cells, CellEnd
  <2>6. Sound(u)
    <3>1. BinsTile(u)
      BY <1>2, <2>4, SameBinsFacts
    <3>2. CellsTile(u)
      BY <1>2, <2>4, <2>5, SameBinsFacts DEF CellsTile, SameBins
    <3>3. QED
      BY <2>4, <3>1, <3>2 DEF Sound
  <2>7. ListsBut(u, {o})
    BY <2>2, <2>4, <2>5 DEF ListsBut
  <2>8. Coalesced(u)
    BY <1>2, <2>4, <2>5, SameBinsFacts DEF Coalesced
  <2>9. o \in FreeCells(u) /\ s <= u.Cell[o]
    BY <2>1, <2>4, <2>5
  <2>10. /\ Inv(Carve(u, o, s))
         /\ AllocatedCells(Carve(u, o, s)) = AllocatedCells(d) \cup {o}
         /\ \A q \in AllocatedCells(d) : Carve(u, o, s).Cell[q] = d.Cell[q]
    BY <1>1, <2>4, <2>5, <2>6, <2>7, <2>8, <2>9, CarveKeepsInv
  <2>11. o \in Offsets /\ o \notin AllocatedCells(d)
    BY <1>2, <2>1 DEF FreeCells, AllocatedCells
  <2>12. QED
    BY <1>3, <2>3, <2>10, <2>11 DEF o
<1>4. CASE o = HCELL_NIL /\ memory /\ Room(d, s)
  <2> DEFINE e == HvpAddBin(d, s)
  <2>1. HvAllocateCell(d, Size, memory) = [index |-> new, dual |-> Carve(e, new, s)]
    BY <1>4 DEF HvAllocateCell, s
  <2>2. /\ e \in DualType /\ BinsTile(e) /\ CellsTile(e)
        /\ new \in Offsets /\ new \notin Cells(d)
        /\ e.Cell = [d.Cell EXCEPT ![new] = e.Cell[new]]
        /\ e.Cell[new] \in Nat /\ e.Cell[new] >= s
        /\ CellEnd(e, new) = BinEnd(e, BinOf(e, new))
        /\ e.FreeDisplay = d.FreeDisplay
        /\ \A q \in Cells(d) : /\ BinOf(e, q) = BinOf(d, q)
                              /\ BinEnd(e, BinOf(e, q)) = BinEnd(d, BinOf(d, q))
    BY <1>1, <1>2, <1>4, AddBinTiles
  <2> HIDE DEF e, o
  <2>3. /\ \A q \in Offsets : q # new => e.Cell[q] = d.Cell[q]
        /\ d.Cell[new] = 0
    BY <1>2, <2>2 DEF Cells
  <2>4. e.Cell[new] > 0
    BY <1>1, <2>2
  <2>5. FreeCells(e) = FreeCells(d) \cup {new} /\ AllocatedCells(e) = AllocatedCells(d)
    BY <2>2, <2>3, <2>4 DEF FreeCells, AllocatedCells
  <2>6. new \notin FreeCells(d)
    BY <2>3 DEF FreeCells
  <2>7. ListsBut(e, {new})
    <3>1. FreeCells(e) \ {new} = FreeCells(d)
      BY <2>5, <2>6
    <3>2. \A q \in FreeCells(d) : e.Cell[q] = d.Cell[q]
      BY <2>3, <2>6 DEF FreeCells
    <3>3. QED
      BY <1>2, <2>2, <3>1, <3>2 DEF ListsBut
  <2>8. Coalesced(e)
    <3> SUFFICES ASSUME NEW q \in FreeCells(e),
                        CellEnd(e, q) < BinEnd(e, BinOf(e, q))
                 PROVE  e.Cell[CellEnd(e, q)] < 0
      BY DEF Coalesced
    <3>1. q # new
      <4>1. new \in Cells(e)
        BY <2>2, <2>4 DEF Cells
      <4>2. CellEnd(e, new) \in Nat
        BY <4>1, <2>2, CellFacts
      <4>3. QED
        BY <4>2, <2>2
    <3>2. q \in FreeCells(d) /\ q \in Cells(d) /\ q \in Offsets
      BY <3>1, <2>5 DEF FreeCells, Cells
    <3>3. CellEnd(e, q) = CellEnd(d, q)
      BY <3>1, <3>2, <2>3 DEF CellEnd
    <3>4. CellEnd(d, q) < BinEnd(d, BinOf(d, q))
      BY <3>2, <3>3, <2>2
    <3>5. d.Cell[CellEnd(d, q)] < 0 /\ CellEnd(d, q) \in Offsets
      BY <1>2, <3>2, <3>4, CellFacts DEF Coalesced
    <3>6. QED
      BY <2>3, <3>3, <3>5
  <2>9. Sound(e) /\ new \in FreeCells(e) /\ s <= e.Cell[new]
    BY <2>2, <2>5 DEF Sound
  <2>10. /\ Inv(Carve(e, new, s))
         /\ AllocatedCells(Carve(e, new, s)) = AllocatedCells(d) \cup {new}
         /\ \A q \in AllocatedCells(d) : Carve(e, new, s).Cell[q] = e.Cell[q]
    BY <1>1, <2>5, <2>7, <2>8, <2>9, CarveKeepsInv
  <2>11. \A q \in AllocatedCells(d) : e.Cell[q] = d.Cell[q]
    BY <2>3 DEF AllocatedCells
  <2>12. new # HCELL_NIL /\ new \notin AllocatedCells(d)
    BY <2>2, <2>3, HBLOCKAssumption, MaxBlocksAssumption DEF Offsets, HCELL_NIL, AllocatedCells
  <2> HIDE DEF new
  <2>13. QED
    BY <2>1, <2>2, <2>10, <2>11, <2>12
<1>5. CASE o = HCELL_NIL /\ ~(memory /\ Room(d, s))
  <2>1. HvAllocateCell(d, Size, memory) = [index |-> HCELL_NIL, dual |-> d]
    BY <1>5 DEF HvAllocateCell, s
  <2>2. QED
    BY <2>1
<1>6. QED
  BY <1>3, <1>4, <1>5

\* After the merge to the right the freed cell hangs on no list yet.
LEMMA MergeRightFacts ==
  ASSUME NEW d, Inv(d), NEW o \in AllocatedCells(d)
  PROVE  LET e == MergeRight(d, o)
         IN  /\ Sound(e) /\ o \in FreeCells(e)
             /\ ListsBut(e, {o}) /\ CoalescedBut(e, o)
             /\ AllocatedCells(e) = AllocatedCells(d) \ {o}
             /\ \A q \in AllocatedCells(e) : e.Cell[q] = d.Cell[q]
<1> DEFINE e    == MergeRight(d, o)
           size == -d.Cell[o]
           next == o + size
           b    == BinOf(d, o)
<1>1. /\ d \in DualType /\ BinsTile(d) /\ CellsTile(d)
      /\ ListsBut(d, {}) /\ Coalesced(d)
      /\ d.Cell \in [Offsets -> Int] /\ d.FreeDisplay \in ListsType
  BY DEF Inv, Sound, DualType, ListsType
<1>2. /\ o \in Offsets /\ o \in Cells(d) /\ size \in Nat \ {0} /\ size = Abs(d.Cell[o])
      /\ Abs(size) = Abs(d.Cell[o])
      /\ next = CellEnd(d, o) /\ next \in Nat /\ o \in Nat /\ o < next
      /\ next < BinEnd(d, b) =>
           d.Cell[next] # 0 /\ next \in Offsets /\ BinOf(d, next) = b
  <2>1. o \in Offsets /\ o \in Cells(d) /\ d.Cell[o] \in Int /\ d.Cell[o] < 0
    BY <1>1 DEF AllocatedCells, Cells
  <2>2. size \in Nat \ {0} /\ size = Abs(d.Cell[o]) /\ Abs(size) = Abs(d.Cell[o])
    BY <2>1 DEF Abs
  <2>3. next = CellEnd(d, o)
    BY <2>2 DEF CellEnd
  <2>4. QED
    BY <2>1, <2>2, <2>3, <1>1, CellFacts
<1>3. \A q \in FreeCells(d) :
        /\ q \in Cells(d) /\ q \in Offsets /\ q # o
        /\ CellEnd(d, q) < BinEnd(d, BinOf(d, q)) =>
             d.Cell[CellEnd(d, q)] < 0 /\ CellEnd(d, q) \in Offsets
  <2>1. \A q \in FreeCells(d) : q \in Cells(d) /\ q \in Offsets
    BY DEF FreeCells, Cells
  <2>2. \A q \in FreeCells(d) : q # o
    BY <1>1 DEF FreeCells, AllocatedCells
  <2>3. QED
    BY <2>1, <2>2, <1>1, CellFacts DEF Coalesced
<1>4. CASE next < BinEnd(d, b) /\ d.Cell[next] > 0
  <2> DEFINE f == HvpRemoveFree(d.FreeDisplay, next, d.Cell[next])
             z == size + d.Cell[next]
  <2>1. /\ next \in Offsets /\ next \in FreeCells(d) /\ next \in Cells(d) /\ BinOf(d, next) = b
        /\ d.Cell[next] \in Nat \ {0} /\ Abs(d.Cell[next]) = d.Cell[next]
        /\ z \in Nat \ {0} /\ Abs(z) = Abs(d.Cell[o]) + Abs(d.Cell[next])
    <3>1. next \in Offsets /\ BinOf(d, next) = b /\ d.Cell[next] \in Nat \ {0}
      BY <1>1, <1>2, <1>4
    <3>2. next \in FreeCells(d) /\ next \in Cells(d)
      BY <3>1, <1>4 DEF FreeCells, Cells
    <3>3. Abs(d.Cell[next]) = d.Cell[next]
      BY <3>1 DEF Abs
    <3>4. z \in Nat \ {0} /\ Abs(z) = z
      BY <3>1, <1>2 DEF Abs
    <3>5. QED
      BY <3>1, <3>2, <3>3, <3>4, <1>2
  <2>2. /\ f \in ListsType
        /\ \A k \in Lists :
             /\ IsInjective(f[k])
             /\ Range(f[k]) =
                  {q \in FreeCells(d) \ {next} : HvpComputeFreeListIndex(d.Cell[q]) = k}
    BY <1>1, <2>1, Unlist DEF Inv
  <2>3. e = [d EXCEPT !.Cell        = [@ EXCEPT ![o] = z, ![next] = 0],
                      !.FreeDisplay = f]
    BY <1>4 DEF MergeRight
  <2> HIDE DEF f
  <2>4. /\ SameBins(d, e) /\ e.FreeDisplay = f
        /\ e.Cell = [d.Cell EXCEPT ![o] = z, ![next] = 0]
    BY <1>1, <2>3 DEF SameBins, DualType
  <2>5. e \in DualType
    <3>1. [d.Cell EXCEPT ![o] = z, ![next] = 0] \in [Offsets -> Int]
      BY <1>1, <1>2, <2>1
    <3>2. f \in [Lists -> Seq(Offsets)]
      BY <2>2 DEF ListsType
    <3>3. QED
      BY <2>3, <3>1, <3>2, <1>1 DEF DualType
  <2> HIDE DEF e
  <2>6. /\ BinsTile(e) /\ CellsTile(e)
        /\ \A q \in Cells(d) : q # o /\ q # next => CellEnd(e, q) = CellEnd(d, q)
        /\ CellEnd(e, o) = CellEnd(d, next)
    <3> HIDE DEF size, next, z
    <3>1. z \in Int /\ CellEnd(d, o) = next /\ BinOf(d, o) = BinOf(d, next)
      BY <1>2, <2>1
    <3>2. QED
      BY <1>1, <1>2, <2>1, <2>4, <2>5, <3>1, JoinTiles
  <2>7. /\ \A q \in Offsets : q # o /\ q # next => e.Cell[q] = d.Cell[q]
        /\ e.Cell[o] = z /\ e.Cell[next] = 0 /\ o # next
    BY <1>1, <1>2, <2>1, <2>4
  <2> HIDE DEF z, next
  <2>8. FreeCells(e) = (FreeCells(d) \ {next}) \cup {o}
    BY <1>2, <2>1, <2>7 DEF FreeCells
  <2>9. /\ AllocatedCells(e) = AllocatedCells(d) \ {o}
        /\ \A q \in AllocatedCells(e) : e.Cell[q] = d.Cell[q]
    <3>1. \A q \in Offsets : e.Cell[q] < 0 <=> (d.Cell[q] < 0 /\ q # o)
      BY <1>2, <2>1, <2>7
    <3>2. \A q \in Offsets : e.Cell[q] < 0 => e.Cell[q] = d.Cell[q]
      BY <1>2, <2>1, <2>7
    <3>3. QED
      BY <3>1, <3>2 DEF AllocatedCells
  <2>10. ListsBut(e, {o})
    <3>1. FreeCells(e) \ {o} = FreeCells(d) \ {next}
      BY <2>8, <1>3
    <3>2. \A q \in FreeCells(d) \ {next} : e.Cell[q] = d.Cell[q]
      BY <2>7, <1>3
    <3>3. QED
      BY <2>2, <2>4, <3>1, <3>2 DEF ListsBut
  <2>11. CoalescedBut(e, o)
    <3> SUFFICES ASSUME NEW q \in FreeCells(e),
                        CellEnd(e, q) < BinEnd(e, BinOf(e, q)),
                        CellEnd(e, q) # o
                 PROVE  e.Cell[CellEnd(e, q)] < 0
      BY DEF CoalescedBut
    <3>1. CASE q = o
      <4>1. CellEnd(d, next) < BinEnd(d, BinOf(d, next))
        BY <3>1, <2>1, <2>4, <2>6, SameBinsFacts
      <4>2. d.Cell[CellEnd(d, next)] < 0 /\ CellEnd(d, next) \in Offsets
        BY <4>1, <2>1, <1>3
      <4>3. CellEnd(d, next) # next
        BY <4>2, <2>1, <1>1
      <4>4. QED
        BY <3>1, <4>2, <4>3, <2>6, <2>7
    <3>2. CASE q # o
      <4>1. q \in FreeCells(d) /\ q # next /\ q \in Cells(d)
        BY <3>2, <2>1, <2>8, <1>3
      <4>2. CellEnd(e, q) = CellEnd(d, q)
        BY <3>2, <4>1, <2>6
      <4>3. CellEnd(d, q) < BinEnd(d, BinOf(d, q))
        BY <4>2, <2>4, SameBinsFacts
      <4>4. d.Cell[CellEnd(d, q)] < 0 /\ CellEnd(d, q) \in Offsets
        BY <4>1, <4>3, <1>3
      <4>5. CellEnd(d, q) # next
        BY <4>4, <2>1
      <4>6. QED
        BY <4>2, <4>4, <4>5, <2>7
    <3>3. QED
      BY <3>1, <3>2
  <2>12. o \in FreeCells(e) /\ Sound(e)
    BY <2>5, <2>6, <2>8 DEF Sound
  <2>13. QED
    BY <2>9, <2>10, <2>11, <2>12 DEF e
<1>5. CASE ~(next < BinEnd(d, b) /\ d.Cell[next] > 0)
  <2>1. e = [d EXCEPT !.Cell = [@ EXCEPT ![o] = size]]
    BY <1>5 DEF MergeRight
  <2>2. /\ SameBins(d, e) /\ e.FreeDisplay = d.FreeDisplay
        /\ e.Cell = [d.Cell EXCEPT ![o] = size]
    BY <1>1, <2>1 DEF SameBins, DualType
  <2>3. e \in DualType
    <3>1. [d.Cell EXCEPT ![o] = size] \in [Offsets -> Int]
      BY <1>1, <1>2
    <3>2. QED
      BY <2>1, <3>1, <1>1 DEF DualType
  <2> HIDE DEF e
  <2>4. BinsTile(e) /\ CellsTile(e)
    <3> HIDE DEF size
    <3>1. size \in Int
      BY <1>2
    <3>2. QED
      BY <1>1, <1>2, <2>2, <2>3, <3>1, ResignTiles
  <2>5. (\A q \in Offsets : q # o => e.Cell[q] = d.Cell[q]) /\ e.Cell[o] = size
    BY <1>1, <1>2, <2>2
  <2>6. CellEnd(e, o) = next
    BY <1>2, <2>5 DEF CellEnd
  <2> HIDE DEF size, next
  <2>7. /\ FreeCells(e) = FreeCells(d) \cup {o}
        /\ AllocatedCells(e) = AllocatedCells(d) \ {o}
        /\ \A q \in AllocatedCells(e) : e.Cell[q] = d.Cell[q]
    <3>1. \A q \in Offsets : /\ e.Cell[q] < 0 <=> (d.Cell[q] < 0 /\ q # o)
                             /\ e.Cell[q] > 0 <=> (d.Cell[q] > 0 \/ q = o)
      BY <1>2, <2>5
    <3>2. \A q \in Offsets : e.Cell[q] < 0 => e.Cell[q] = d.Cell[q]
      BY <3>1, <2>5, Zenon
    <3>3. QED
      <4>1. FreeCells(e) = FreeCells(d) \cup {o}
        BY <3>1, <1>2 DEF FreeCells
      <4>2. AllocatedCells(e) = AllocatedCells(d) \ {o}
        BY <3>1 DEF AllocatedCells
      <4>3. QED
        BY <3>2, <4>1, <4>2 DEF AllocatedCells
  <2>8. ListsBut(e, {o})
    <3>1. FreeCells(e) \ {o} = FreeCells(d)
      BY <2>7, <1>3
    <3>2. \A q \in FreeCells(d) : e.Cell[q] = d.Cell[q]
      BY <2>5, <1>3
    <3>3. QED
      BY <1>1, <2>2, <3>1, <3>2 DEF ListsBut
  <2>9. CoalescedBut(e, o)
    <3> SUFFICES ASSUME NEW q \in FreeCells(e),
                        CellEnd(e, q) < BinEnd(e, BinOf(e, q)),
                        CellEnd(e, q) # o
                 PROVE  e.Cell[CellEnd(e, q)] < 0
      BY DEF CoalescedBut
    <3>1. CASE q = o
      <4>1. next < BinEnd(d, b)
        BY <3>1, <2>2, <2>6, SameBinsFacts
      <4>2. d.Cell[next] < 0 /\ next \in Offsets /\ next # o
        BY <4>1, <1>1, <1>2, <1>5
      <4>3. QED
        BY <3>1, <4>2, <2>5, <2>6
    <3>2. CASE q # o
      <4>1. q \in FreeCells(d)
        BY <3>2, <2>7
      <4>2. CellEnd(e, q) = CellEnd(d, q)
        BY <3>2, <4>1, <2>5, <1>3 DEF CellEnd
      <4>3. CellEnd(d, q) < BinEnd(d, BinOf(d, q))
        BY <4>2, <2>2, SameBinsFacts
      <4>4. QED
        BY <4>1, <4>2, <4>3, <1>3, <2>5
    <3>3. QED
      BY <3>1, <3>2
  <2>10. o \in FreeCells(e) /\ Sound(e)
    BY <2>3, <2>4, <2>7 DEF Sound
  <2>11. QED
    BY <2>7, <2>8, <2>9, <2>10 DEF e
<1>6. QED
  BY <1>4, <1>5

\* The merge to the left restores the invariant.
LEMMA MergeLeftKeepsInv ==
  ASSUME NEW d, Sound(d), NEW o \in FreeCells(d), ListsBut(d, {o}), CoalescedBut(d, o),
         NEW p \in LeftNeighbours(d, o)
  PROVE  LET e == MergeLeft(d, p, o)
         IN  /\ Inv(e)
             /\ AllocatedCells(e) = AllocatedCells(d)
             /\ \A q \in AllocatedCells(d) : e.Cell[q] = d.Cell[q]
<1> DEFINE e    == MergeLeft(d, p, o)
           size == d.Cell[p]
           z    == d.Cell[p] + d.Cell[o]
           same == HvpComputeFreeListIndex(size) = HvpComputeFreeListIndex(z)
           g    == HvpRemoveFree(d.FreeDisplay, p, size)
           f    == IF same THEN d.FreeDisplay ELSE HvpAddFree(g, p, z)
<1>1. /\ d \in DualType /\ BinsTile(d) /\ CellsTile(d)
      /\ d.Cell \in [Offsets -> Int] /\ d.FreeDisplay \in ListsType
  BY DEF Sound, DualType, ListsType
<1>2. /\ o \in Offsets /\ o \in Cells(d) /\ o \in Nat
      /\ d.Cell[o] \in Nat \ {0} /\ Abs(d.Cell[o]) = d.Cell[o]
      /\ BinOf(d, o) \in Bins(d) /\ BinOf(d, o) * HBLOCK \in Nat /\ o < BinEnd(d, BinOf(d, o))
  <2>1. o \in Offsets /\ o \in Cells(d) /\ d.Cell[o] \in Nat \ {0}
    BY <1>1 DEF FreeCells, Cells
  <2>2. Abs(d.Cell[o]) = d.Cell[o]
    BY <2>1 DEF Abs
  <2>3. /\ BinOf(d, o) \in Bins(d) /\ BinOf(d, o) * HBLOCK \in Nat
        /\ o \in Nat /\ o < BinEnd(d, BinOf(d, o))
    BY <1>1, <2>1, CellBounds, BinBounds
  <2>4. QED
    BY <2>1, <2>2, <2>3
<1>3. /\ p \in Offsets /\ p \in FreeCells(d) /\ p \in Cells(d) /\ p \in Nat /\ p < o
      /\ size \in Nat \ {0} /\ Abs(size) = size
      /\ CellEnd(d, p) = o /\ BinOf(d, p) = BinOf(d, o)
  <2>1. /\ p \in Int /\ BinOf(d, o) * HBLOCK + HBIN <= p /\ p < o
        /\ d.Cell[p] > 0 /\ p + d.Cell[p] = o
    BY <1>2 DEF LeftNeighbours, HBIN
  <2>2. p \in Offsets /\ BinOf(d, p) = BinOf(d, o)
    <3>1. BinOf(d, o) * HBLOCK <= p /\ p < BinEnd(d, BinOf(d, o))
      BY <1>1, <1>2, <2>1, BinBounds DEF HBIN
    <3>2. QED
      BY <1>1, <1>2, <2>1, <3>1, SameBin
  <2>3. size \in Nat \ {0}
    BY <1>1, <2>1, <2>2
  <2>4. Abs(size) = size
    BY <2>3 DEF Abs
  <2>5. p \in FreeCells(d) /\ p \in Cells(d)
    BY <2>1, <2>2, <2>3 DEF FreeCells, Cells
  <2>6. CellEnd(d, p) = o
    BY <2>1, <2>4 DEF CellEnd
  <2>7. QED
    BY <1>2, <2>1, <2>2, <2>3, <2>4, <2>5, <2>6, CellFacts, <1>1
<1>4. z \in Nat \ {0} /\ Abs(z) = Abs(d.Cell[p]) + Abs(d.Cell[o])
  BY <1>2, <1>3 DEF Abs
<1>5. /\ f \in ListsType
      /\ \A k \in Lists :
           /\ IsInjective(f[k])
           /\ Range(f[k]) = {q \in FreeCells(d) \ {o} :
                               HvpComputeFreeListIndex(IF q = p THEN z ELSE d.Cell[q]) = k}
  <2>1. \A k \in Lists :
          /\ IsInjective(d.FreeDisplay[k])
          /\ Range(d.FreeDisplay[k]) =
               {q \in FreeCells(d) \ {o} : HvpComputeFreeListIndex(d.Cell[q]) = k}
    BY DEF ListsBut
  <2>2. CASE same
    <3>1. f = d.FreeDisplay
      BY <2>2
    <3>2. \A q \in FreeCells(d) :
            HvpComputeFreeListIndex(IF q = p THEN z ELSE d.Cell[q]) =
            HvpComputeFreeListIndex(d.Cell[q])
      BY <2>2
    <3> HIDE DEF f, z, size
    <3>3. QED
      BY <2>1, <3>1, <3>2, <1>1
  <2>3. CASE ~same
    <3> DEFINE fd == d.FreeDisplay
               h  == HvpRemoveFree(fd, p, size)
    <3> HIDE DEF fd, size, f, z, g
    <3>1. fd \in ListsType /\ \A k \in Lists : IsInjective(fd[k])
      BY <1>1, <2>1 DEF fd
    <3>2. Unlinks(h, fd, p, HvpComputeFreeListIndex(size))
      <4>1. size \in Nat \ {0} /\ p \in Offsets /\ NoDuplicates(fd)
        BY <1>3, <3>1 DEF NoDuplicates
      <4>2. QED
        BY <3>1, <4>1, RemoveFreeFacts
    <3>3. g = h
      BY DEF fd, g
    <3>4. \A k \in Lists : p \in Range(fd[k]) => k = HvpComputeFreeListIndex(size)
      BY <2>1 DEF fd, size
    <3>5. g \in ListsType /\ \A k \in Lists : IsInjective(g[k]) /\ p \notin Range(g[k])
      BY <3>2, <3>3, <3>4 DEF Unlinks
    <3>6. /\ HvpAddFree(g, p, z) \in ListsType
          /\ \A k \in Lists :
              /\ IsInjective(HvpAddFree(g, p, z)[k])
              /\ Range(HvpAddFree(g, p, z)[k]) =
                   IF k = HvpComputeFreeListIndex(z) THEN Range(g[k]) \cup {p}
                   ELSE Range(g[k])
      <4>1. p \in Offsets /\ z \in Nat \ {0}
        BY <1>3, <1>4
      <4>2. QED
        BY <3>5, <4>1, AddFreeFacts
    <3>7. f = HvpAddFree(g, p, z)
      BY <2>3 DEF f
    <3> HIDE DEF h
    <3>8. ASSUME NEW k \in Lists
          PROVE  Range(f[k]) = {q \in FreeCells(d) \ {o} :
                   HvpComputeFreeListIndex(IF q = p THEN z ELSE d.Cell[q]) = k}
      <4>1. Range(fd[k]) =
              {q \in FreeCells(d) \ {o} : HvpComputeFreeListIndex(d.Cell[q]) = k}
        BY <2>1 DEF fd
      <4>2. Range(g[k]) = Range(fd[k]) \ {p}
        BY <3>2, <3>3, <3>4 DEF Unlinks
      <4>3. Range(f[k]) = IF k = HvpComputeFreeListIndex(z) THEN Range(g[k]) \cup {p}
                          ELSE Range(g[k])
        BY <3>6, <3>7
      <4>4. p \in FreeCells(d) \ {o}
        BY <1>2, <1>3
      <4>5. QED
        BY <4>1, <4>2, <4>3, <4>4
    <3>9. QED
      BY <3>6, <3>7, <3>8
  <2>4. QED
    BY <2>2, <2>3
<1>6. e = [d EXCEPT !.Cell        = [@ EXCEPT ![p] = z, ![o] = 0],
                    !.FreeDisplay = f,
                    !.Dirty       = @ \cup DirtyBits(p)]
  BY DEF MergeLeft
<1> HIDE DEF f, z, e
<1>7. /\ SameBins(d, e) /\ e.FreeDisplay = f
      /\ e.Cell = [d.Cell EXCEPT ![p] = z, ![o] = 0]
  BY <1>1, <1>6 DEF SameBins, DualType
<1>8. e \in DualType
  <2>1. [d.Cell EXCEPT ![p] = z, ![o] = 0] \in [Offsets -> Int]
    <3>1. z \in Int /\ 0 \in Int /\ d.Cell \in [Offsets -> Int]
      BY <1>1, <1>4
    <3>2. QED
      BY <3>1
  <2>2. d.Dirty \cup DirtyBits(p) \in SUBSET Blocks
    BY <1>1, <1>3, DirtyInBlocks DEF DualType
  <2>3. f \in [Lists -> Seq(Offsets)]
    BY <1>5 DEF ListsType
  <2>4. QED
    BY <1>1, <1>6, <2>1, <2>2, <2>3 DEF DualType
<1>9. /\ BinsTile(e) /\ CellsTile(e)
      /\ \A q \in Cells(d) : q # p /\ q # o => CellEnd(e, q) = CellEnd(d, q)
      /\ CellEnd(e, p) = CellEnd(d, o)
  <2>1. z \in Int
    BY <1>4
  <2>2. QED
    BY <1>1, <1>2, <1>3, <1>4, <1>7, <1>8, <2>1, JoinTiles
<1>10. /\ \A q \in Offsets : q # p /\ q # o => e.Cell[q] = d.Cell[q]
       /\ e.Cell[p] = z /\ e.Cell[o] = 0 /\ o # p
  BY <1>1, <1>2, <1>3, <1>7
<1>11. FreeCells(e) = FreeCells(d) \ {o}
  <2>1. \A q \in Offsets : e.Cell[q] > 0 <=> (d.Cell[q] > 0 /\ q # o)
    BY <1>2, <1>3, <1>4, <1>10
  <2>2. QED
    BY <2>1 DEF FreeCells
<1>12. /\ AllocatedCells(e) = AllocatedCells(d)
       /\ \A q \in AllocatedCells(d) : e.Cell[q] = d.Cell[q]
  <2>1. \A q \in Offsets : e.Cell[q] < 0 <=> d.Cell[q] < 0
    BY <1>2, <1>3, <1>4, <1>10
  <2>2. \A q \in Offsets : d.Cell[q] < 0 => e.Cell[q] = d.Cell[q]
    BY <1>2, <1>3, <1>10
  <2>3. QED
    BY <2>1, <2>2 DEF AllocatedCells
<1>13. ListsBut(e, {})
  <2>1. \A q \in FreeCells(d) \ {o} : e.Cell[q] = IF q = p THEN z ELSE d.Cell[q]
    BY <1>10 DEF FreeCells
  <2>2. QED
    BY <1>5, <1>7, <1>11, <2>1 DEF ListsBut
<1>14. Coalesced(e)
  <2> SUFFICES ASSUME NEW q \in FreeCells(e),
                      CellEnd(e, q) < BinEnd(e, BinOf(e, q))
               PROVE  e.Cell[CellEnd(e, q)] < 0
    BY DEF Coalesced
  <2>1. /\ q \in FreeCells(d) /\ q # o /\ q \in Cells(d) /\ q \in Nat
        /\ CellEnd(d, q) \in Nat
    <3>1. q \in FreeCells(d) /\ q # o /\ q \in Cells(d)
      BY <1>11 DEF FreeCells, Cells
    <3>2. QED
      BY <3>1, <1>1, CellFacts
  <2>2. \A n \in Offsets : d.Cell[n] < 0 => e.Cell[n] < 0
    BY <1>2, <1>3, <1>10
  <2>3. CASE q = p
    <3>1. CellEnd(d, o) < BinEnd(d, BinOf(d, o))
      BY <2>3, <1>3, <1>7, <1>9, SameBinsFacts
    <3>2. /\ CellEnd(d, o) # o
          /\ CellEnd(d, o) \in Offsets
      BY <3>1, <1>1, <1>2, CellFacts
    <3>3. d.Cell[CellEnd(d, o)] < 0
      BY <3>1, <3>2 DEF CoalescedBut
    <3>4. QED
      BY <2>2, <2>3, <3>2, <3>3, <1>9
  <2>4. CASE q # p
    <3>1. CellEnd(e, q) = CellEnd(d, q)
      BY <2>1, <2>4, <1>9
    <3>2. CellEnd(d, q) < BinEnd(d, BinOf(d, q))
      BY <3>1, <1>7, SameBinsFacts
    <3>3. CellEnd(d, q) # o
      <4>1. CASE q < p
        BY <4>1, <2>1, <1>1, <1>3, CellsApart
      <4>2. CASE p < q
        <5>1. o <= q
          BY <4>2, <2>1, <1>1, <1>3, CellsApart
        <5>2. q < CellEnd(d, q)
          BY <2>1, <1>1, CellFacts
        <5>3. QED
          BY <5>1, <5>2, <2>1, <1>2
      <4>3. QED
        BY <4>1, <4>2, <2>1, <2>4, <1>3
    <3>4. d.Cell[CellEnd(d, q)] < 0
      BY <3>2, <3>3, <2>1 DEF CoalescedBut
    <3>5. CellEnd(d, q) \in Offsets
      BY <3>2, <2>1, <1>1, CellFacts
    <3>6. QED
      BY <2>2, <3>1, <3>4, <3>5
  <2>5. QED
    BY <2>3, <2>4
<1>15. QED
  BY <1>8, <1>9, <1>12, <1>13, <1>14 DEF Inv, Sound, e

\* Freeing a cell keeps the invariant and touches no other cell in use.
LEMMA FreeKeepsInv ==
  ASSUME NEW d, Inv(d), NEW o \in AllocatedCells(d)
  PROVE  /\ Inv(HvFreeCell(d, o))
         /\ AllocatedCells(HvFreeCell(d, o)) = AllocatedCells(d) \ {o}
         /\ \A q \in AllocatedCells(d) \ {o} : HvFreeCell(d, o).Cell[q] = d.Cell[q]
<1> DEFINE r == MergeRight(d, o)
<1>1. /\ Sound(r) /\ o \in FreeCells(r)
      /\ ListsBut(r, {o}) /\ CoalescedBut(r, o)
      /\ AllocatedCells(r) = AllocatedCells(d) \ {o}
      /\ \A q \in AllocatedCells(r) : r.Cell[q] = d.Cell[q]
  BY MergeRightFacts
<1> HIDE DEF r
<1>2. CASE LeftNeighbours(r, o) # {}
  <2> DEFINE p == CHOOSE p \in LeftNeighbours(r, o) : TRUE
  <2>1. p \in LeftNeighbours(r, o)
    BY <1>2
  <2>2. HvFreeCell(d, o) = MergeLeft(r, p, o)
    BY <1>2 DEF HvFreeCell, r
  <2> HIDE DEF p
  <2>3. /\ Inv(MergeLeft(r, p, o))
        /\ AllocatedCells(MergeLeft(r, p, o)) = AllocatedCells(r)
        /\ \A q \in AllocatedCells(r) : MergeLeft(r, p, o).Cell[q] = r.Cell[q]
    BY <1>1, <2>1, MergeLeftKeepsInv
  <2>4. QED
    BY <1>1, <2>2, <2>3
<1>3. CASE LeftNeighbours(r, o) = {}
  <2> DEFINE e == HvFreeCell(d, o)
  <2>1. e = [r EXCEPT !.FreeDisplay = HvpAddFree(@, o, r.Cell[o]),
                      !.Dirty       = @ \cup DirtyBits(o)]
    BY <1>3 DEF HvFreeCell, r
  <2>2. /\ r \in DualType /\ BinsTile(r) /\ CellsTile(r)
        /\ r.Cell \in [Offsets -> Int] /\ r.FreeDisplay \in ListsType
        /\ o \in Offsets /\ o \in Cells(r) /\ r.Cell[o] \in Nat \ {0}
    <3>1. r \in DualType /\ BinsTile(r) /\ CellsTile(r)
      BY <1>1 DEF Sound
    <3>2. r.Cell \in [Offsets -> Int] /\ r.FreeDisplay \in ListsType
      BY <3>1 DEF DualType, ListsType
    <3>3. QED
      BY <1>1, <3>1, <3>2 DEF FreeCells, Cells
  <2>3. \A k \in Lists :
          /\ IsInjective(r.FreeDisplay[k]) /\ o \notin Range(r.FreeDisplay[k])
          /\ Range(r.FreeDisplay[k]) =
               {q \in FreeCells(r) \ {o} : HvpComputeFreeListIndex(r.Cell[q]) = k}
    BY <1>1 DEF ListsBut
  <2> DEFINE s  == r.Cell[o]
             fd == r.FreeDisplay
             f  == HvpAddFree(fd, o, s)
  <2>0. /\ s \in Nat \ {0} /\ o \in Offsets /\ fd \in ListsType
        /\ \A k \in Lists : IsInjective(fd[k]) /\ o \notin Range(fd[k])
    BY <2>2, <2>3
  <2> HIDE DEF s, fd
  <2>4. /\ f \in ListsType
        /\ \A k \in Lists :
             /\ IsInjective(f[k])
             /\ Range(f[k]) = IF k = HvpComputeFreeListIndex(s) THEN Range(fd[k]) \cup {o}
                              ELSE Range(fd[k])
    BY <2>0, AddFreeFacts, ZenonT(60)
  <2> HIDE DEF f, e
  <2>5. SameBins(r, e) /\ e.FreeDisplay = f /\ e.Cell = r.Cell
    BY <2>1, <2>2 DEF SameBins, DualType, f, fd, s
  <2>6. e \in DualType
    <3>1. r.Dirty \cup DirtyBits(o) \in SUBSET Blocks
      BY <2>2, DirtyInBlocks DEF DualType
    <3>2. f \in [Lists -> Seq(Offsets)]
      BY <2>4 DEF ListsType
    <3>3. QED
      BY <2>1, <2>2, <3>1, <3>2 DEF DualType, f, fd, s
  <2>7. /\ FreeCells(e) = FreeCells(r) /\ AllocatedCells(e) = AllocatedCells(r)
        /\ Cells(e) = Cells(r) /\ \A q : CellEnd(e, q) = CellEnd(r, q)
    BY <2>5 DEF FreeCells, AllocatedCells, Cells, CellEnd
  <2>8. Sound(e)
    <3>1. BinsTile(e)
      BY <2>2, <2>5, SameBinsFacts
    <3>2. CellsTile(e)
      BY <2>2, <2>5, <2>7, SameBinsFacts DEF CellsTile, SameBins
    <3>3. QED
      BY <2>6, <3>1, <3>2 DEF Sound
  <2>9. ListsBut(e, {})
    <3> SUFFICES ASSUME NEW k \in Lists
                 PROVE  /\ IsInjective(e.FreeDisplay[k])
                        /\ Range(e.FreeDisplay[k]) =
                             {q \in FreeCells(e) \ {} : HvpComputeFreeListIndex(e.Cell[q]) = k}
      BY DEF ListsBut
    <3>1. Range(f[k]) = {q \in FreeCells(r) : HvpComputeFreeListIndex(r.Cell[q]) = k}
      BY <2>3, <2>4, <1>1 DEF fd, s
    <3>2. QED
      BY <3>1, <2>4, <2>5, <2>7
  <2>10. Coalesced(e)
    <3> SUFFICES ASSUME NEW q \in FreeCells(r),
                        CellEnd(r, q) < BinEnd(r, BinOf(r, q)),
                        CellEnd(r, q) = o
                 PROVE  FALSE
      BY <1>1, <2>5, <2>7, SameBinsFacts DEF Coalesced, CoalescedBut
    <3>1. q \in Cells(r) /\ r.Cell[q] \in Nat \ {0}
      BY <2>2 DEF FreeCells, Cells
    <3>2. Abs(r.Cell[q]) = r.Cell[q]
      BY <3>1 DEF Abs
    <3>3. q + r.Cell[q] = o
      BY <3>2 DEF CellEnd
    <3>4. /\ BinOf(r, q) * HBLOCK + HBIN <= q /\ q \in Nat /\ q < o /\ o \in Nat
          /\ BinOf(r, o) = BinOf(r, q) /\ BinOf(r, q) * HBLOCK \in Nat
      BY <2>2, <3>1, CellFacts, CellBounds, BinBounds
    <3>5. q \in LeftNeighbours(r, o)
      BY <3>1, <3>3, <3>4 DEF LeftNeighbours, HBIN
    <3>6. QED
      BY <3>5, <1>3
  <2>11. QED
    BY <1>1, <2>5, <2>7, <2>8, <2>9, <2>10 DEF Inv, e
<1>4. QED
  BY <1>2, <1>3

\* A reallocation leaves the store alone, or moves the cell to a new one.
LEMMA ReallocateKeepsInv ==
  ASSUME NEW d, Inv(d), NEW o \in AllocatedCells(d),
         NEW Size \in Nat, NEW memory \in BOOLEAN
  PROVE  LET e == HvReallocateCell(d, o, Size, memory)
             r == HvAllocateCell(d, Size, memory)
         IN  /\ Inv(e)
             /\ \/ e = d
                \/ /\ r.index \in Offsets /\ r.index \notin AllocatedCells(d)
                   /\ Inv(r.dual)
                   /\ AllocatedCells(r.dual) = AllocatedCells(d) \cup {r.index}
                   /\ AllocatedCells(e) = AllocatedCells(r.dual) \ {o}
                   /\ \A q \in AllocatedCells(d) : r.dual.Cell[q] = d.Cell[q]
                   /\ \A q \in AllocatedCells(e) : e.Cell[q] = r.dual.Cell[q]
<1> DEFINE e == HvReallocateCell(d, o, Size, memory)
           r == HvAllocateCell(d, Size, memory)
<1>1. CASE Relocates(d, o, Size) /\ r.index # HCELL_NIL
  <2>1. /\ Inv(r.dual)
        /\ r.index \in Offsets /\ r.index \notin AllocatedCells(d)
        /\ AllocatedCells(r.dual) = AllocatedCells(d) \cup {r.index}
        /\ \A q \in AllocatedCells(d) : r.dual.Cell[q] = d.Cell[q]
    BY <1>1, AllocateKeepsInv
  <2>2. e = HvFreeCell(r.dual, o)
    BY <1>1 DEF HvReallocateCell
  <2> DEFINE m == r.dual
  <2> HIDE DEF m, e
  <2>3. Inv(m) /\ o \in AllocatedCells(m) /\ e = HvFreeCell(m, o)
    BY <2>1, <2>2 DEF m
  <2>4. /\ Inv(e) /\ AllocatedCells(e) = AllocatedCells(m) \ {o}
        /\ \A q \in AllocatedCells(m) \ {o} : e.Cell[q] = m.Cell[q]
    BY <2>3, FreeKeepsInv
  <2> HIDE DEF r
  <2>5. QED
    BY <2>1, <2>4 DEF m, e, r
<1>2. CASE ~(Relocates(d, o, Size) /\ r.index # HCELL_NIL)
  <2>1. e = d
    BY <1>2 DEF HvReallocateCell
  <2>2. QED
    BY <2>1
<1>3. QED
  BY <1>1, <1>2

\* Dirty bits do not matter to the invariant.
LEMMA MarkDirtyKeepsInv ==
  ASSUME NEW d, Inv(d), NEW o \in AllocatedCells(d)
  PROVE  Inv(HvMarkCellDirty(d, o)) /\ HvMarkCellDirty(d, o).Cell = d.Cell
<1> DEFINE e == HvMarkCellDirty(d, o)
<1>1. d \in DualType /\ BinsTile(d) /\ CellsTile(d) /\ ListsBut(d, {}) /\ Coalesced(d)
  BY DEF Inv, Sound
<1>2. d.Dirty \cup DirtyBits(o) \in SUBSET Blocks
  BY <1>1, DirtyInBlocks DEF DualType, AllocatedCells
<1>3. e = [d EXCEPT !.Dirty = @ \cup DirtyBits(o)]
  BY DEF HvMarkCellDirty
<1>4. e \in DualType /\ SameBins(d, e) /\ e.Cell = d.Cell /\ e.FreeDisplay = d.FreeDisplay
  BY <1>1, <1>2, <1>3 DEF DualType, SameBins
<1> HIDE DEF e
<1>5. /\ FreeCells(e) = FreeCells(d) /\ Cells(e) = Cells(d)
      /\ \A q : CellEnd(e, q) = CellEnd(d, q)
  BY <1>4 DEF FreeCells, Cells, CellEnd
<1>6. BinsTile(e) /\ CellsTile(e)
  BY <1>1, <1>4, <1>5, SameBinsFacts DEF CellsTile, SameBins
<1>7. ListsBut(e, {}) /\ Coalesced(e)
  BY <1>1, <1>4, <1>5, SameBinsFacts DEF ListsBut, Coalesced
<1>8. QED
  BY <1>4, <1>6, <1>7 DEF Inv, Sound, e

-----------------------------------------------------------------------------
(* The invariant of the specification *)

\* The empty store satisfies the invariant.
LEMMA InitInv == Init => Inv(dual)
<1> DEFINE d == EmptyDual
<1>1. d \in DualType
  <2>1. << >> \in Seq(Offsets)
    OBVIOUS
  <2>2. QED
    BY <2>1, MaxBlocksAssumption DEF EmptyDual, DualType
<1>2. Bins(d) = {} /\ Cells(d) = {} /\ FreeCells(d) = {} /\ d.Length = 0
      /\ \A k \in Lists : d.FreeDisplay[k] = << >>
  BY DEF EmptyDual, Bins, Cells, FreeCells
<1> HIDE DEF d
<1>3. BinsTile(d) /\ CellsTile(d)
  BY <1>2 DEF BinsTile, CellsTile, Blocks
<1>4. Coalesced(d)
  BY <1>2 DEF Coalesced
<1>5. ListsBut(d, {})
  <2>1. DOMAIN << >> = {}
    OBVIOUS
  <2>2. IsInjective(<< >>) /\ Range(<< >>) = {}
    BY <2>1 DEF IsInjective, Range
  <2>3. QED
    BY <1>2, <2>2 DEF ListsBut
<1>6. Inv(d)
  BY <1>1, <1>3, <1>4, <1>5 DEF Inv, Sound
<1>7. QED
  BY <1>6 DEF Init, d

\* Every operation preserves the invariant.
LEMMA NextInv == Inv(dual) /\ [Next]_dual => Inv(dual')
<1> SUFFICES ASSUME Inv(dual), [Next]_dual PROVE Inv(dual')
  OBVIOUS
<1>1. ASSUME NEW Size \in Requests, NEW memory \in BOOLEAN, AllocateCell(Size, memory)
      PROVE  Inv(dual')
  <2>1. Size \in Nat
    BY RequestsAssumption
  <2>2. Inv(HvAllocateCell(dual, Size, memory).dual)
    BY <2>1, AllocateKeepsInv
  <2>3. QED
    BY <1>1, <2>2 DEF AllocateCell
<1>2. ASSUME NEW o \in AllocatedCells(dual), NEW Size \in Requests, NEW memory \in BOOLEAN,
             ReallocateCell(o, Size, memory)
      PROVE  Inv(dual')
  <2>1. Size \in Nat
    BY RequestsAssumption
  <2>2. Inv(HvReallocateCell(dual, o, Size, memory))
    BY <2>1, ReallocateKeepsInv
  <2>3. QED
    BY <1>2, <2>2 DEF ReallocateCell
<1>3. ASSUME NEW o \in AllocatedCells(dual), FreeCell(o) PROVE Inv(dual')
  BY <1>3, FreeKeepsInv DEF FreeCell
<1>4. ASSUME NEW o \in AllocatedCells(dual), MarkCellDirty(o) PROVE Inv(dual')
  BY <1>4, MarkDirtyKeepsInv DEF MarkCellDirty
<1>5. CASE UNCHANGED dual
  BY <1>5
<1>6. QED
  BY <1>1, <1>2, <1>3, <1>4, <1>5 DEF Next

IInv == Inv(dual)

\* The inductive invariant holds in every reachable state.
LEMMA InvAlways == Spec => []IInv
<1>1. Init => IInv
  BY InitInv DEF IInv
<1>2. IInv /\ [Next]_dual => IInv'
  BY NextInv DEF IInv
<1>3. QED
  BY <1>1, <1>2, PTL DEF Spec

(***************************************************************************)
(* Whatever the block size, the bound on the store and the requests: the   *)
(* fields of the store keep their types; bins tile the store and cells the *)
(* bins; the free lists are exact; free neighbours are merged.             *)
(***************************************************************************)
THEOREM TypeCorrect == Spec => []TypeOK
<1>1. IInv => TypeOK
  BY DEF IInv, Inv, Sound, TypeOK
<1>2. QED
  BY <1>1, InvAlways, PTL

\* HvpAddBin, HvAllocateCell and HvFreeCell keep the store tiled.
THEOREM TilingCorrect == Spec => []CellsTileBins
<1>1. IInv => CellsTileBins
  BY DEF IInv, Inv, Sound, CellsTileBins
<1>2. QED
  BY <1>1, InvAlways, PTL

\* The free lists hold exactly the free cells, by class.
THEOREM ListsCorrect == Spec => []FreeListsExact
<1>1. IInv => FreeListsExact
  <2> SUFFICES ASSUME ListsBut(dual, {}) PROVE ListsExact(dual)
    BY DEF IInv, Inv, FreeListsExact
  <2>1. FreeCells(dual) \ {} = FreeCells(dual)
    OBVIOUS
  <2>2. QED
    BY <2>1 DEF ListsBut, ListsExact
<1>2. QED
  BY <1>1, InvAlways, PTL

\* HvFreeCell leaves no two free neighbours.
THEOREM CoalescingCorrect == Spec => []FreeCellsCoalesced
<1>1. IInv => FreeCellsCoalesced
  BY DEF IInv, Inv, FreeCellsCoalesced
<1>2. QED
  BY <1>1, InvAlways, PTL

\* Freeing a cell leaves the length of the store as it is.
LEMMA FreeKeepsLength ==
  ASSUME NEW d, d \in DualType, NEW o
  PROVE  HvFreeCell(d, o).Length = d.Length
<1> DEFINE r == MergeRight(d, o)
<1>1. r.Length = d.Length
  BY DEF MergeRight, DualType
<1>2. r = [r EXCEPT !.Length = r.Length] /\ DOMAIN r = DOMAIN d
  BY DEF MergeRight, DualType
<1> HIDE DEF r
<1>3. ASSUME NEW p PROVE MergeLeft(r, p, o).Length = r.Length
  BY <1>2 DEF MergeLeft, DualType
<1>4. QED
  BY <1>1, <1>2, <1>3 DEF HvFreeCell, r, DualType

(***************************************************************************)
(* First fit over the size classes misses no cell: an allocation that adds *)
(* a bin, or fails, finds every free cell too small.                       *)
(***************************************************************************)
LEMMA AllocateGrowsOrFails ==
  ASSUME NEW d, Inv(d), NEW Size \in Nat, NEW memory \in BOOLEAN,
         \/ HvAllocateCell(d, Size, memory).index = HCELL_NIL
         \/ HvAllocateCell(d, Size, memory).dual.Length # d.Length
  PROVE  Full(d, Size)
<1> DEFINE s == CellUnits(Size)
           o == HvpFindFree(d, s)
           u == [d EXCEPT !.FreeDisplay = HvpRemoveFree(@, o, d.Cell[o])]
<1>1. s \in Nat \ {0}
  BY UnitsPositive
<1>2. Sound(d) /\ ListsBut(d, {}) /\ d \in DualType
  BY DEF Inv, Sound
<1>3. ASSUME o # HCELL_NIL PROVE FALSE
  <2>1. /\ HvAllocateCell(d, Size, memory).index = o
        /\ HvAllocateCell(d, Size, memory).dual = Carve(u, o, s)
    BY <1>3 DEF HvAllocateCell
  <2>2. u.Length = d.Length
    BY <1>2 DEF DualType
  <2>3. Carve(u, o, s).Length = u.Length
    BY <1>2 DEF Carve, DualType
  <2>4. QED
    BY <1>3, <2>1, <2>2, <2>3
<1>4. QED
  BY <1>1, <1>2, <1>3, FindFreeFacts DEF Full

(***************************************************************************)
(* The same of a reallocation that moves its cell: one that succeeds gives *)
(* the cell up, so a store that stays as it was means that the allocation  *)
(* within it failed; and the length changes in that allocation alone.      *)
(***************************************************************************)
LEMMA ReallocateGrowsOrFails ==
  ASSUME NEW d, Inv(d), NEW o \in AllocatedCells(d), NEW Size \in Nat, NEW memory \in BOOLEAN,
         Relocates(d, o, Size),
         \/ HvReallocateCell(d, o, Size, memory) = d
         \/ HvReallocateCell(d, o, Size, memory).Length # d.Length
  PROVE  Full(d, Size)
<1> DEFINE e == HvReallocateCell(d, o, Size, memory)
           r == HvAllocateCell(d, Size, memory)
           m == r.dual
<1>1. CASE r.index = HCELL_NIL
  BY <1>1, AllocateGrowsOrFails
<1>2. CASE r.index # HCELL_NIL
  <2>1. Inv(m) /\ o \in AllocatedCells(m)
    BY <1>2, AllocateKeepsInv
  <2>2. e = HvFreeCell(m, o)
    BY <1>2 DEF HvReallocateCell
  <2> HIDE DEF m, e, r
  <2>3. AllocatedCells(e) = AllocatedCells(m) \ {o}
    BY <2>1, <2>2, FreeKeepsInv
  <2>4. e # d
    BY <2>3
  <2>5. e.Length = m.Length
    BY <2>1, <2>2, FreeKeepsLength DEF Inv, Sound
  <2>6. m.Length # d.Length
    BY <2>4, <2>5 DEF e
  <2>7. QED
    BY <2>6, AllocateGrowsOrFails DEF m, r
<1>3. QED
  BY <1>1, <1>2

(***************************************************************************)
(* Whatever the block size and the requests: an allocation, or a           *)
(* reallocation that moves its cell, adds a bin or fails only when every   *)
(* free cell is too small for it.                                          *)
(***************************************************************************)
THEOREM FirstFitComplete == Spec => []GrowsOrFailsOnlyWhenFull
<1>1. IInv => GrowsOrFailsOnlyWhenFull
  <2> SUFFICES ASSUME Inv(dual), NEW Size \in Requests, NEW memory \in BOOLEAN
               PROVE  /\ \/ HvAllocateCell(dual, Size, memory).index = HCELL_NIL
                         \/ HvAllocateCell(dual, Size, memory).dual.Length # dual.Length
                         => Full(dual, Size)
                      /\ \A o \in AllocatedCells(dual) : Relocates(dual, o, Size) =>
                           (\/ HvReallocateCell(dual, o, Size, memory) = dual
                            \/ HvReallocateCell(dual, o, Size, memory).Length # dual.Length
                            => Full(dual, Size))
    BY DEF IInv, GrowsOrFailsOnlyWhenFull
  <2>1. Size \in Nat
    BY RequestsAssumption
  <2>2. QED
    BY <2>1, AllocateGrowsOrFails, ReallocateGrowsOrFails
<1>2. QED
  BY <1>1, InvAlways, PTL

-----------------------------------------------------------------------------
(* The allocator implements the abstract heap *)

\* The extent of a cell in use; Extents(dual) is what the heap's variable stands for.
Extent(d, o) == <<o, -d.Cell[o]>>
Extents(d)   == {Extent(d, o) : o \in AllocatedCells(d)}

Apart(e, f) == e[1] + e[2] <= f[1] \/ f[1] + f[2] <= e[1]

\* The extents of the cells in use, as the abstract heap sees them.
LEMMA ExtentFacts ==
  ASSUME NEW d, Inv(d), NEW o \in AllocatedCells(d)
  PROVE  /\ Extent(d, o) \in Offsets \X (1 .. MaxBlocks * HBLOCK)
         /\ \A q \in AllocatedCells(d) : q # o => Apart(Extent(d, o), Extent(d, q))
<1>1. d \in DualType /\ BinsTile(d) /\ CellsTile(d) /\ d.Cell \in [Offsets -> Int]
  BY DEF Inv, Sound, DualType
<1>2. ASSUME NEW q \in AllocatedCells(d)
      PROVE  /\ q \in Offsets /\ q \in Cells(d) /\ q \in Nat /\ -d.Cell[q] \in Nat \ {0}
             /\ CellEnd(d, q) = q + -d.Cell[q]
             /\ CellEnd(d, q) <= MaxBlocks * HBLOCK /\ MaxBlocks * HBLOCK \in Nat
  <2>1. /\ q \in Offsets /\ q \in Cells(d)
        /\ d.Cell[q] \in Int /\ d.Cell[q] < 0 /\ -d.Cell[q] \in Nat \ {0}
    BY <1>1 DEF AllocatedCells, Cells
  <2>2. CellEnd(d, q) = q + -d.Cell[q]
    <3>1. Abs(d.Cell[q]) = -d.Cell[q]
      BY <2>1 DEF Abs
    <3>2. QED
      BY <3>1 DEF CellEnd
  <2>3. /\ q \in Nat /\ CellEnd(d, q) \in Nat
        /\ CellEnd(d, q) <= BinEnd(d, BinOf(d, q))
        /\ BinEnd(d, BinOf(d, q)) \in Nat
        /\ BinEnd(d, BinOf(d, q)) <= d.Length * HBLOCK
        /\ d.Length * HBLOCK <= MaxBlocks * HBLOCK
    BY <1>1, <2>1, CellBounds, BinBounds
  <2>4. MaxBlocks * HBLOCK \in Nat /\ d.Length * HBLOCK \in Nat
    BY <1>1, HBLOCKAssumption, MaxBlocksAssumption DEF DualType
  <2>5. QED
    BY <2>1, <2>2, <2>3, <2>4
<1>3. -d.Cell[o] \in 1 .. MaxBlocks * HBLOCK
  BY <1>2
<1>4. ASSUME NEW q \in AllocatedCells(d), q # o
      PROVE  Apart(Extent(d, o), Extent(d, q))
  <2>1. CellEnd(d, o) <= q \/ CellEnd(d, q) <= o
    BY <1>1, <1>2, <1>4, CellsApart
  <2>2. QED
    BY <1>2, <2>1 DEF Apart, Extent
<1>5. QED
  BY <1>2, <1>3, <1>4 DEF Extent

\* Taking a cell takes one extent that is disjoint from all others.
LEMMA TakeStep ==
  ASSUME NEW d, NEW e, Inv(d), Inv(e), NEW n, n \notin AllocatedCells(d),
         AllocatedCells(e) = AllocatedCells(d) \cup {n},
         \A q \in AllocatedCells(d) : e.Cell[q] = d.Cell[q]
  PROVE  /\ Extents(e) = Extents(d) \cup {Extent(e, n)}
         /\ Extent(e, n) \in Offsets \X (1 .. MaxBlocks * HBLOCK)
         /\ \A f \in Extents(d) : Apart(Extent(e, n), f)
<1>1. \A q \in AllocatedCells(d) : Extent(e, q) = Extent(d, q)
  BY DEF Extent
<1>2. Extents(e) = Extents(d) \cup {Extent(e, n)}
  BY <1>1 DEF Extents
<1>3. \A q \in AllocatedCells(d) : Apart(Extent(e, n), Extent(d, q))
  BY <1>1, ExtentFacts
<1>4. QED
  BY <1>2, <1>3, ExtentFacts DEF Extents

\* Freeing a cell gives its extent back.
LEMMA GiveStep ==
  ASSUME NEW d, NEW e, NEW o \in AllocatedCells(d),
         AllocatedCells(e) = AllocatedCells(d) \ {o},
         \A q \in AllocatedCells(e) : e.Cell[q] = d.Cell[q]
  PROVE  Extents(e) = Extents(d) \ {Extent(d, o)} /\ Extent(d, o) \in Extents(d)
BY DEF Extents, Extent

\* A step of the abstract heap, from any of its three actions.
LEMMA HeapNextFolded ==
  Heap!Next <=>
    \/ \E f \in Extents(dual)' \cap (Offsets \X (1 .. MaxBlocks * HBLOCK)) :
         /\ Extents(dual)' = Extents(dual) \cup {f}
         /\ \A g \in Extents(dual) : Apart(f, g)
    \/ \E e \in Extents(dual) : Extents(dual)' = Extents(dual) \ {e}
    \/ \E e \in Extents(dual), f \in Extents(dual)' \cap (Offsets \X (1 .. MaxBlocks * HBLOCK)) :
         /\ Extents(dual)' = (Extents(dual) \ {e}) \cup {f}
         /\ \A g \in Extents(dual) : Apart(f, g)
BY DEF Heap!Next, Heap!Take, Heap!Give, Heap!Move, Heap!Extents, Heap!Available,
       Heap!Disjoint, Extents, Extent, Apart

(***************************************************************************)
(* The store implements the abstract heap: no sequence of allocations,     *)
(* reallocations and frees ever hands out or clobbers a cell in use.       *)
(***************************************************************************)
THEOREM ImplementsHeap == Spec => HeapSpec
<1> DEFINE Types == Offsets \X (1 .. MaxBlocks * HBLOCK)
<1>1. Init => Heap!Init
  BY DEF Init, EmptyDual, Heap!Init, AllocatedCells
<1>2. ASSUME IInv, Next PROVE Heap!Next \/ Extents(dual)' = Extents(dual)
  <2>1. ASSUME NEW Size \in Requests, NEW memory \in BOOLEAN, AllocateCell(Size, memory)
        PROVE  Heap!Next \/ Extents(dual)' = Extents(dual)
    <3> DEFINE r == HvAllocateCell(dual, Size, memory)
               n == r.index
    <3>1. /\ Inv(dual) /\ Inv(dual') /\ (n = HCELL_NIL => dual' = dual)
          /\ n # HCELL_NIL =>
               /\ n \notin AllocatedCells(dual)
               /\ AllocatedCells(dual') = AllocatedCells(dual) \cup {n}
               /\ \A q \in AllocatedCells(dual) : dual'.Cell[q] = dual.Cell[q]
      BY <1>2, <2>1, AllocateKeepsInv, RequestsAssumption DEF IInv, AllocateCell
    <3> HIDE DEF n
    <3>2. CASE n = HCELL_NIL
      BY <3>1, <3>2
    <3>3. CASE n # HCELL_NIL
      <4>1. /\ Extents(dual') = Extents(dual) \cup {Extent(dual', n)}
            /\ Extent(dual', n) \in Types
            /\ \A f \in Extents(dual) : Apart(Extent(dual', n), f)
        BY <3>1, <3>3, TakeStep
      <4>2. QED
        BY <4>1, HeapNextFolded
    <3>4. QED
      BY <3>2, <3>3
  <2>2. ASSUME NEW o \in AllocatedCells(dual), NEW Size \in Requests, NEW memory \in BOOLEAN,
               ReallocateCell(o, Size, memory)
        PROVE  Heap!Next \/ Extents(dual)' = Extents(dual)
    <3> DEFINE r == HvAllocateCell(dual, Size, memory)
               n == r.index
               m == r.dual
    <3>1. /\ Inv(dual)
          /\ \/ dual' = dual
             \/ /\ n \notin AllocatedCells(dual) /\ Inv(m)
                /\ AllocatedCells(m) = AllocatedCells(dual) \cup {n}
                /\ AllocatedCells(dual') = AllocatedCells(m) \ {o}
                /\ \A q \in AllocatedCells(dual) : m.Cell[q] = dual.Cell[q]
                /\ \A q \in AllocatedCells(dual') : dual'.Cell[q] = m.Cell[q]
      BY <1>2, <2>2, ReallocateKeepsInv, RequestsAssumption DEF IInv, ReallocateCell
    <3> HIDE DEF n, m
    <3>2. CASE dual' = dual
      BY <3>2
    <3>3. CASE dual' # dual
      <4>1. /\ Extents(m) = Extents(dual) \cup {Extent(m, n)}
            /\ Extent(m, n) \in Types
            /\ \A f \in Extents(dual) : Apart(Extent(m, n), f)
        BY <3>1, <3>3, TakeStep
      <4>2. Extents(dual') = Extents(m) \ {Extent(m, o)}
        BY <3>1, <3>3, GiveStep
      <4>3. /\ Extent(m, o) = Extent(dual, o) /\ Extent(dual, o) \in Extents(dual)
            /\ n # o
        BY <3>1, <3>3 DEF Extent, Extents
      <4>4. Extent(m, n) # Extent(m, o)
        BY <4>3 DEF Extent
      <4>5. /\ Extents(dual') = (Extents(dual) \ {Extent(dual, o)}) \cup {Extent(m, n)}
            /\ Extent(m, n) \in Extents(dual')
        BY <4>1, <4>2, <4>3, <4>4
      <4>6. QED
        BY <4>1, <4>3, <4>5, HeapNextFolded
    <3>4. QED
      BY <3>2, <3>3
  <2>3. ASSUME NEW o \in AllocatedCells(dual), FreeCell(o)
        PROVE  Heap!Next \/ Extents(dual)' = Extents(dual)
    <3>1. /\ AllocatedCells(dual') = AllocatedCells(dual) \ {o}
          /\ \A q \in AllocatedCells(dual') : dual'.Cell[q] = dual.Cell[q]
      BY <1>2, <2>3, FreeKeepsInv DEF IInv, FreeCell
    <3>2. Extents(dual') = Extents(dual) \ {Extent(dual, o)} /\ Extent(dual, o) \in Extents(dual)
      BY <3>1, GiveStep
    <3>3. QED
      BY <3>2, HeapNextFolded
  <2>4. ASSUME NEW o \in AllocatedCells(dual), MarkCellDirty(o)
        PROVE  Heap!Next \/ Extents(dual)' = Extents(dual)
    <3>1. dual'.Cell = dual.Cell
      BY <1>2, <2>4, MarkDirtyKeepsInv DEF IInv, MarkCellDirty
    <3>2. QED
      BY <3>1 DEF Extents, Extent, AllocatedCells
  <2>5. QED
    BY <1>2, <2>1, <2>2, <2>3, <2>4 DEF Next
<1>3. IInv /\ [Next]_dual => [Heap!Next]_{<<o, -dual.Cell[o]>> : o \in AllocatedCells(dual)}
  <2>1. dual' = dual => Extents(dual)' = Extents(dual)
    OBVIOUS
  <2>2. QED
    BY <1>2, <2>1 DEF Extents, Extent
<1>4. QED
  BY <1>1, <1>3, InvAlways, PTL DEF Spec, HeapSpec, Heap!Spec
==============================================================================
