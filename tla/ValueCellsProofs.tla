-------------------------- MODULE ValueCellsProofs --------------------------
(***************************************************************************)
(* Proofs about ValueCells, for every set of cells, names and payloads,    *)
(* every batch and every size of an entry: cells have types, every cell in *)
(* use is referred to once, lists fit into their cells, and what differs   *)
(* from the file is dirty.                                                 *)
(*                                                                         *)
(* None of these is inductive alone: whether a call overwrites a cell      *)
(* depends on who refers to it.  Sound says of the cells of a hive that    *)
(* each key owns the lists and values of its store, and each value its     *)
(* data.  In the middle of a call a value may be on no list yet, or no     *)
(* longer; Sound names those.  Every operation leads from a sound hive to  *)
(* a sound one, and marks every stable cell that it changes.  Most of the  *)
(* proof is about the function from cells to contents; the two halves of   *)
(* Sound, lists and data, are changed apart from each other.               *)
(***************************************************************************)
EXTENDS ValueCells, SequenceTheorems, FiniteSetTheorems, WellFoundedInduction, TLAPS

-----------------------------------------------------------------------------
(* What a sound hive is *)

Stored == StableCells \cup VolatileCells
Stores == {StableCells, VolatileCells}

KeyContents   == [kind : {"key"}, Count : Nat, List : Stored \cup {HCELL_NIL}]
ValueContents == [kind : {"value"}, Name : Names, Small : BOOLEAN, Inline : Payloads \cup {None},
                  Length : Nat, Data : Stored \cup {HCELL_NIL}]
DataContents  == [kind : {"data"}, Bytes : Payloads, Size : Nat]
ListContents  == [kind : {"list"}, KeyList : Seq(Stored), Size : Nat]
StoredContents == {Free} \cup ValueContents \cup DataContents \cup ListContents

\* What the cells of a hive hold.
CellsType == {f \in [Cells -> KeyContents \cup StoredContents] :
                /\ \A k \in Keys : f[k] \in KeyContents
                /\ \A c \in Stored : f[c] \in StoredContents}

Hives == [cell : CellsType, dirty : SUBSET Stable]

OfKind(f, kind) == {c \in Stored : f[c].kind = kind}

\* The list of a key, without regard to its count.
Entries(f, k) == IF f[k].Count = 0 THEN << >> ELSE f[f[k].List].KeyList

\* The lists and the values in the store of a key are those of the key, but for the
\* values X, which are on no list.
Listing(f, k, X) ==
  /\ Entries(f, k) \in Seq(StoreOf(k)) /\ Len(Entries(f, k)) = f[k].Count
  /\ IsInjective(Entries(f, k))
  /\ OfKind(f, "list") \cap StoreOf(k) = (IF f[k].Count = 0 THEN {} ELSE {f[k].List})
  /\ OfKind(f, "value") \cap StoreOf(k) = Range(Entries(f, k)) \cup X
  /\ Range(Entries(f, k)) \cap X = {}
  /\ f[k].Count # 0 => EntrySize * f[k].Count <= f[f[k].List].Size

\* A value has either no length or data of its own.
WellMade(x) ==
  /\ x.Small => x.Length = 0
  /\ x.Length = 0 <=> x.Data = HCELL_NIL

\* Each data cell belongs to one value, but for the data S that are stranded.
Holding(f, S) ==
  /\ S \subseteq StableCells \cap OfKind(f, "data")
  /\ \A v \in OfKind(f, "value") :
       /\ WellMade(f[v])
       /\ f[v].Data # HCELL_NIL => f[v].Data \in OfKind(f, "data") \ S
       /\ f[v].Data # HCELL_NIL /\ v \in StableCells => f[v].Data \in StableCells
  /\ \A v, w \in OfKind(f, "value") :
       f[v].Data = f[w].Data /\ f[v].Data # HCELL_NIL => v = w
  /\ \A d \in OfKind(f, "data") : d \in S \/ \E v \in OfKind(f, "value") : f[v].Data = d

Sound(f, X, S) ==
  /\ f \in CellsType
  /\ \A k \in Keys : Listing(f, k, X \cap StoreOf(k))
  /\ Holding(f, S)

\* The invariant: the cells in memory and those in the file are sound, and differ
\* in dirty cells only.
IInv ==
  /\ hive \in Hives /\ Sound(hive.cell, {}, stranded.memory)
  /\ InFile \in Hives /\ Sound(InFile.cell, {}, stranded.file)
  /\ DOMAIN file = Stable /\ stranded \in [memory : SUBSET StableCells, file : SUBSET StableCells]
  /\ ChangesAreDirty
  /\ overrun \in BOOLEAN /\ calls \in 0 .. MaxCalls

-----------------------------------------------------------------------------
(* Cells, stores and sequences *)

LEMMA StoreFacts ==
  /\ StoreOf(StableKey) = StableCells /\ StoreOf(VolatileKey) = VolatileCells
  /\ \A k \in Keys : StoreOf(k) \in Stores /\ StoreOf(k) \subseteq Stored
  /\ \A k \in Keys : \A c \in StoreOf(k) : HvGetCellType(c) = StoreOf(k)
  /\ \A c \in Stored : c \in Cells /\ c \notin Keys /\ c # HCELL_NIL
  /\ \A c \in Stored : \E k \in Keys : c \in StoreOf(k)
  /\ \A j, k \in Keys : j # k => StoreOf(j) \cap StoreOf(k) = {}
  /\ Stored = Cells \ Keys
BY CellsAssumption DEF StoreOf, Stores, Stored, Keys, Cells, HvGetCellType, Stable

\* The kind of a cell says which of the contents it has.
LEMMA KindFacts ==
  ASSUME NEW f \in CellsType, NEW c \in Stored
  PROVE  /\ f[c].kind \in {"free", "value", "data", "list"}
         /\ f[c].kind = "free" <=> f[c] = Free
         /\ f[c].kind = "value" <=> f[c] \in ValueContents
         /\ f[c].kind = "data" <=> f[c] \in DataContents
         /\ f[c].kind = "list" <=> f[c] \in ListContents
<1>1. f[c] \in StoredContents
  BY DEF CellsType
<1>2. QED
  BY <1>1 DEF StoredContents, Free, ValueContents, DataContents, ListContents

\* Contents put into a cell that is not a key's keep the type.
LEMMA PutType ==
  ASSUME NEW f \in CellsType, NEW c \in Stored, NEW x \in StoredContents
  PROVE  [f EXCEPT ![c] = x] \in CellsType
<1>1. c \in Cells /\ c \notin Keys
  BY StoreFacts
<1>2. [f EXCEPT ![c] = x] \in [Cells -> KeyContents \cup StoredContents]
  BY DEF CellsType
<1>3. \A a \in Cells : [f EXCEPT ![c] = x][a] = IF a = c THEN x ELSE f[a]
  BY DEF CellsType
<1>4. QED
  BY <1>1, <1>2, <1>3, StoreFacts DEF CellsType, Keys, Cells

\* The smallest number of a non-empty set of cells.
LEMMA MinFacts ==
  ASSUME NEW T \in SUBSET Nat, T # {}
  PROVE  Min(T) \in T /\ \A n \in T : Min(T) <= n
<1> DEFINE R == OpToRel(<, Nat)
<1>1. IsWellFoundedOn(R, Nat)
  BY NatLessThanWellFounded
<1>2. R = {ss \in Nat \X Nat : ss[1] < ss[2]}
  BY Zenon DEF OpToRel
<1> HIDE DEF R
<1>3. PICK x \in T : \A y \in T : <<y, x>> \notin R
  BY <1>1, WFMin
<1>4. \A y \in T : x <= y
  <2> SUFFICES ASSUME NEW y \in T, ~(x <= y) PROVE <<y, x>> \in R
    BY <1>3
  <2>1. x \in Nat /\ y \in Nat /\ y < x
    OBVIOUS
  <2>2. <<y, x>> \in Nat \X Nat /\ <<y, x>>[1] = y /\ <<y, x>>[2] = x
    BY <2>1
  <2>3. QED
    BY <2>1, <2>2, <1>2
<1>5. QED
  BY <1>3, <1>4 DEF Min

-----------------------------------------------------------------------------
(* What lists and what data depend on *)

\* What the lists of values do not tell apart: the contents of a value, data or
\* no data.
SameToLists(f, g, c) ==
  \/ g[c] = f[c]
  \/ f[c].kind = "value" /\ g[c].kind = "value"
  \/ f[c].kind \in {"free", "data"} /\ g[c].kind \in {"free", "data"}

\* What values and their data do not tell apart: a list or no list.
SameToData(f, g, c) ==
  \/ g[c] = f[c]
  \/ f[c].kind \in {"free", "list"} /\ g[c].kind \in {"free", "list"}

\* The listing of a key when values may have come to its store, or gone from it,
\* that are on no list.
LEMMA ListingKept ==
  ASSUME NEW f \in CellsType, NEW g \in CellsType, NEW k \in Keys,
         NEW X \in SUBSET StoreOf(k), NEW Y \in SUBSET StoreOf(k),
         Listing(f, k, X), g[k] = f[k],
         \A c \in StoreOf(k) : c \notin X \cup Y => SameToLists(f, g, c),
         \A c \in Y : g[c].kind = "value" /\ (c \in X \/ f[c].kind \in {"free", "data"}),
         \A c \in X \ Y : g[c].kind \in {"free", "data"}
  PROVE  Listing(g, k, Y)
<1>1. StoreOf(k) \subseteq Stored
  BY StoreFacts
<1>2. X \subseteq OfKind(f, "value")
  BY DEF Listing
<1>3. \A c \in StoreOf(k) : f[c].kind = "list" => g[c] = f[c]
  BY <1>2 DEF SameToLists, OfKind
<1>4. \A c \in StoreOf(k) : g[c].kind = "list" => f[c].kind = "list"
  BY DEF SameToLists
<1>5. OfKind(g, "list") \cap StoreOf(k) = OfKind(f, "list") \cap StoreOf(k)
  BY <1>3, <1>4 DEF OfKind
<1>6. f[k].Count # 0 => f[k].List \in StoreOf(k) /\ g[f[k].List] = f[f[k].List]
  BY <1>3 DEF Listing, OfKind
<1>7. Entries(g, k) = Entries(f, k)
  BY <1>6 DEF Entries
<1>8. Range(Entries(f, k)) \cap Y = {}
  BY DEF Listing, OfKind
<1>9. OfKind(g, "value") \cap StoreOf(k) = Range(Entries(f, k)) \cup Y
  <2>1. ASSUME NEW c \in StoreOf(k), g[c].kind = "value" PROVE c \in Range(Entries(f, k)) \cup Y
    BY <2>1, <1>1 DEF Listing, OfKind, SameToLists
  <2>2. ASSUME NEW c \in Range(Entries(f, k)) PROVE c \in StoreOf(k) /\ g[c].kind = "value"
    <3>1. c \in StoreOf(k) /\ f[c].kind = "value" /\ c \notin X \cup Y
      BY <1>8 DEF Listing, OfKind
    <3>2. QED
      BY <3>1 DEF SameToLists
  <2>3. QED
    BY <2>1, <2>2, <1>1 DEF OfKind
<1>10. QED
  BY <1>5, <1>6, <1>7, <1>8, <1>9 DEF Listing

\* The data of values are kept when nothing about values and data changes.
LEMMA HoldingKept ==
  ASSUME NEW f \in CellsType, NEW g \in CellsType, NEW S,
         Holding(f, S), \A c \in Stored : SameToData(f, g, c)
  PROVE  Holding(g, S)
<1>1. /\ OfKind(g, "value") = OfKind(f, "value") /\ OfKind(g, "data") = OfKind(f, "data")
      /\ \A c \in OfKind(f, "value") : g[c] = f[c]
  BY DEF SameToData, OfKind
<1>2. QED
  BY <1>1 DEF Holding

\* A value without data is made in a free cell.
LEMMA HoldingNew ==
  ASSUME NEW f \in CellsType, NEW g \in CellsType, NEW S, Holding(f, S),
         NEW v \in Stored, f[v].kind = "free",
         g[v].kind = "value", WellMade(g[v]), g[v].Data = HCELL_NIL,
         \A c \in Stored \ {v} : SameToData(f, g, c)
  PROVE  Holding(g, S)
<1>1. OfKind(g, "data") = OfKind(f, "data")
  BY DEF SameToData, OfKind
<1>2. OfKind(g, "value") = OfKind(f, "value") \cup {v}
  BY DEF SameToData, OfKind
<1>3. \A c \in OfKind(f, "value") : g[c] = f[c] /\ c # v
  BY DEF SameToData, OfKind
<1>4. QED
  BY <1>1, <1>2, <1>3 DEF Holding

\* A value gives up its data, and may be freed itself.
LEMMA HoldingReleased ==
  ASSUME NEW f \in CellsType, NEW g \in CellsType, NEW S, Holding(f, S),
         NEW v \in OfKind(f, "value"),
         \/ g[v].kind = "free"
         \/ g[v].kind = "value" /\ WellMade(g[v]) /\ g[v].Data = HCELL_NIL,
         f[v].Data # HCELL_NIL => g[f[v].Data].kind = "free",
         \A c \in Stored : c # v /\ c # f[v].Data => SameToData(f, g, c)
  PROVE  Holding(g, S)
<1>1. f[v].Data # HCELL_NIL => f[v].Data \in OfKind(f, "data") \ S
  BY DEF Holding
<1>2. OfKind(g, "data") = OfKind(f, "data") \ {f[v].Data}
  BY <1>1, StoreFacts DEF SameToData, OfKind
<1>3. \A c \in OfKind(g, "value") : c = v \/ (c \in OfKind(f, "value") /\ g[c] = f[c])
  BY <1>1, StoreFacts DEF SameToData, OfKind
<1>4. \A c \in OfKind(f, "value") : c # v => c \in OfKind(g, "value") /\ g[c] = f[c]
  BY <1>1, StoreFacts DEF SameToData, OfKind
<1>5. \A c \in OfKind(g, "value") : c = v => g[c].Data = HCELL_NIL /\ WellMade(g[c])
  BY DEF OfKind
<1>6. S \subseteq StableCells \cap OfKind(g, "data")
  BY <1>1, <1>2, StoreFacts DEF Holding, OfKind
<1>7. ASSUME NEW d \in OfKind(g, "data")
      PROVE  d \in S \/ \E w \in OfKind(g, "value") : g[w].Data = d
  BY <1>2, <1>4, <1>7 DEF Holding
<1>8. ASSUME NEW w \in OfKind(g, "value")
      PROVE  /\ WellMade(g[w])
             /\ g[w].Data # HCELL_NIL => g[w].Data \in OfKind(g, "data") \ S
             /\ g[w].Data # HCELL_NIL /\ w \in StableCells => g[w].Data \in StableCells
  <2>1. CASE w = v
    BY <2>1, <1>5
  <2>2. CASE w # v
    <3>1. w \in OfKind(f, "value") /\ g[w] = f[w]
      BY <2>2, <1>3
    <3>2. g[w].Data # HCELL_NIL => g[w].Data # f[v].Data
      BY <3>1, <2>2 DEF Holding
    <3>3. QED
      BY <3>1, <3>2, <1>2 DEF Holding
  <2>3. QED
    BY <2>1, <2>2
<1>9. ASSUME NEW w \in OfKind(g, "value"), NEW u \in OfKind(g, "value"),
             g[w].Data = g[u].Data, g[w].Data # HCELL_NIL
      PROVE  w = u
  BY <1>3, <1>5, <1>9 DEF Holding
<1>10. QED
  BY <1>6, <1>7, <1>8, <1>9 DEF Holding

\* A value gets data in a free cell, and gives up those it had.
LEMMA HoldingAttached ==
  ASSUME NEW f \in CellsType, NEW g \in CellsType, NEW S, Holding(f, S),
         NEW v \in OfKind(f, "value"), NEW d \in Stored, f[d].kind = "free",
         v \in StableCells => d \in StableCells,
         g[v].kind = "value", WellMade(g[v]), g[v].Data = d, g[d].kind = "data",
         f[v].Data # HCELL_NIL => g[f[v].Data].kind = "free",
         \A c \in Stored : c # v /\ c # d /\ c # f[v].Data => SameToData(f, g, c)
  PROVE  Holding(g, S)
<1>1. f[v].Data # HCELL_NIL => f[v].Data \in OfKind(f, "data") \ S
  BY DEF Holding
<1>2. d # v /\ d # f[v].Data /\ d # HCELL_NIL /\ d \notin OfKind(f, "data") /\ d \notin S
  BY <1>1, StoreFacts DEF OfKind, Holding
<1>3. OfKind(g, "data") = (OfKind(f, "data") \ {f[v].Data}) \cup {d}
  BY <1>1, <1>2, StoreFacts DEF SameToData, OfKind
<1>4. OfKind(g, "value") = OfKind(f, "value")
  BY <1>1, <1>2, StoreFacts DEF SameToData, OfKind
<1>5. \A c \in OfKind(f, "value") : c # v => g[c] = f[c]
  BY <1>1, <1>2, StoreFacts DEF SameToData, OfKind
<1>6. S \subseteq StableCells \cap OfKind(g, "data")
  BY <1>1, <1>3, StoreFacts DEF Holding, OfKind
<1>7. ASSUME NEW e \in OfKind(g, "data")
      PROVE  e \in S \/ \E w \in OfKind(g, "value") : g[w].Data = e
  <2>1. CASE e = d
    BY <2>1, <1>4
  <2>2. CASE e # d
    BY <2>2, <1>3, <1>4, <1>5, <1>7 DEF Holding
  <2>3. QED
    BY <2>1, <2>2
<1>8. ASSUME NEW w \in OfKind(g, "value")
      PROVE  /\ WellMade(g[w])
             /\ g[w].Data # HCELL_NIL => g[w].Data \in OfKind(g, "data") \ S
             /\ g[w].Data # HCELL_NIL /\ w \in StableCells => g[w].Data \in StableCells
  <2>1. CASE w = v
    BY <2>1, <1>2, <1>3
  <2>2. CASE w # v
    <3>1. w \in OfKind(f, "value") /\ g[w] = f[w]
      BY <2>2, <1>4, <1>5
    <3>2. g[w].Data # HCELL_NIL => g[w].Data # f[v].Data
      BY <3>1, <2>2 DEF Holding
    <3>3. QED
      BY <3>1, <3>2, <1>3 DEF Holding
  <2>3. QED
    BY <2>1, <2>2
<1>9. ASSUME NEW w \in OfKind(g, "value"), NEW u \in OfKind(g, "value"),
             g[w].Data = g[u].Data, g[w].Data # HCELL_NIL
      PROVE  w = u
  <2>1. \A x \in OfKind(f, "value") : f[x].Data # d
    BY <1>2 DEF Holding
  <2>2. CASE w # v /\ u # v
    BY <2>2, <1>4, <1>5, <1>9 DEF Holding
  <2>3. QED
    BY <2>1, <2>2, <1>4, <1>5, <1>9
<1>10. QED
  BY <1>6, <1>7, <1>8, <1>9 DEF Holding

\* The data of a value are overwritten.
LEMMA HoldingOverwritten ==
  ASSUME NEW f \in CellsType, NEW g \in CellsType, NEW S, Holding(f, S),
         NEW v \in OfKind(f, "value"), f[v].Data # HCELL_NIL,
         g[v].kind = "value", WellMade(g[v]), g[v].Data = f[v].Data,
         g[f[v].Data].kind = "data",
         \A c \in Stored : c # v /\ c # f[v].Data => SameToData(f, g, c)
  PROVE  Holding(g, S)
<1>1. f[v].Data \in OfKind(f, "data") \ S
  BY DEF Holding
<1>2. OfKind(g, "data") = OfKind(f, "data")
  BY <1>1 DEF SameToData, OfKind
<1>3. OfKind(g, "value") = OfKind(f, "value")
  BY <1>1 DEF SameToData, OfKind
<1>4. \A c \in OfKind(f, "value") : g[c].Data = f[c].Data /\ (c # v => g[c] = f[c])
  BY <1>1 DEF SameToData, OfKind
<1>5. \A c \in OfKind(f, "value") : WellMade(g[c])
  BY <1>4 DEF Holding
<1>6. QED
  BY <1>2, <1>3, <1>4, <1>5 DEF Holding

-----------------------------------------------------------------------------
(* Lists of values *)

\* A cell for n bytes has room for n bytes.
LEMMA CellSizeFacts ==
  ASSUME NEW n \in Nat
  PROVE  CellSize(n) \in Nat /\ n <= CellSize(n)
BY DEF CellSize

\* A list is made for as many entries as it gets, or more.
LEMMA ListLengthFacts ==
  ASSUME NEW count \in Nat
  PROVE  ListLength(count) \in Nat /\ EntrySize * count <= ListLength(count)
<1>1. Batch \in Nat \ {0} /\ EntrySize \in Nat \ {0}
  BY SizesAssumption
<1> DEFINE k == count + Batch - 1
           q == k \div Batch
           room == IF count < Batch THEN count ELSE ROUND_UP(count, Batch)
<1>2. k \in Nat
  BY <1>1
<1>3. k < Batch * q + Batch /\ q \in Nat /\ Batch * q \in Nat
  BY <1>1, <1>2
<1>4. ROUND_UP(count, Batch) = Batch * q
  BY DEF ROUND_UP
<1> HIDE DEF q
<1>5. room \in Nat /\ count <= room
  BY <1>1, <1>3, <1>4
<1> HIDE DEF room
<1>6. EntrySize * count <= EntrySize * room /\ EntrySize * room \in Nat
  BY <1>1, <1>5
<1>7. ListLength(count) = EntrySize * room
  BY DEF ListLength, room
<1>8. QED
  BY <1>6, <1>7

\* A value is entered behind all others.
LEMMA InsertFacts ==
  ASSUME NEW S, NEW e \in Seq(S), IsInjective(e), NEW v \in S, v \notin Range(e)
  PROVE  /\ InsertAt(e, Len(e) + 1, v) \in Seq(S)
         /\ Len(InsertAt(e, Len(e) + 1, v)) = Len(e) + 1
         /\ IsInjective(InsertAt(e, Len(e) + 1, v))
         /\ Range(InsertAt(e, Len(e) + 1, v)) = Range(e) \cup {v}
<1>1. SubSeq(e, 1, Len(e)) = e /\ SubSeq(e, Len(e) + 1, Len(e)) = << >>
  BY SubSeqFull, SubSeqEmpty
<1>2. InsertAt(e, Len(e) + 1, v) = e \o <<v>>
  <2> DEFINE n == Len(e) + 1
  <2>1. n - 1 = Len(e) /\ SubSeq(e, n, Len(e)) = << >>
    BY <1>1
  <2> HIDE DEF n
  <2>2. InsertAt(e, n, v) = (e \o <<v>>) \o << >>
    BY <1>1, <2>1 DEF InsertAt
  <2>3. e \o <<v>> \in Seq(S)
    OBVIOUS
  <2>4. QED
    BY <2>2, <2>3 DEF n
<1> DEFINE a == e \o <<v>>
<1>3. /\ a \in Seq(S) /\ Len(a) = Len(e) + 1 /\ DOMAIN a = 1 .. Len(e) + 1
      /\ \A i \in 1 .. Len(e) : a[i] = e[i]
      /\ a[Len(e) + 1] = v
  OBVIOUS
<1>4. DOMAIN e = 1 .. Len(e) /\ Len(e) \in Nat /\ \A i \in 1 .. Len(e) : e[i] # v
  BY DEF Range
<1> HIDE DEF a
<1>5. \A i \in 1 .. Len(e) + 1 : i \in 1 .. Len(e) \/ i = Len(e) + 1
  BY <1>4
<1>6. IsInjective(a)
  BY <1>3, <1>4, <1>5 DEF IsInjective
<1>7. Range(a) = Range(e) \cup {v}
  BY <1>3, <1>4, <1>5 DEF Range
<1>8. QED
  BY <1>2, <1>3, <1>6, <1>7 DEF a

\* A value is taken out of a list.
LEMMA RemoveFacts ==
  ASSUME NEW S, NEW e \in Seq(S), IsInjective(e), NEW i \in DOMAIN e
  PROVE  /\ RemoveAt(e, i) \in Seq(S)
         /\ Len(RemoveAt(e, i)) = Len(e) - 1
         /\ IsInjective(RemoveAt(e, i))
         /\ Range(RemoveAt(e, i)) = Range(e) \ {e[i]}
<1> DEFINE a == SubSeq(e, 1, i - 1)
           b == SubSeq(e, i + 1, Len(e))
           n == Len(e)
<1>1. DOMAIN e = 1 .. n /\ n \in Nat /\ i \in 1 .. n /\ \A j \in 1 .. n : e[j] \in S
  OBVIOUS
<1>2. a \in Seq(S) /\ Len(a) = i - 1 /\ \A j \in 1 .. i - 1 : a[j] = e[j]
  <2>1. \A j \in 1 .. i - 1 : e[j] \in S
    BY <1>1
  <2>2. /\ a \in Seq(S) /\ Len(a) = (IF 1 <= i - 1 THEN i - 1 - 1 + 1 ELSE 0)
        /\ \A j \in 1 .. i - 1 - 1 + 1 : a[j] = e[1 + j - 1]
    BY <1>1, <2>1, SubSeqProperties
  <2> HIDE DEF a
  <2>3. QED
    BY <1>1, <2>2
<1>3. b \in Seq(S) /\ Len(b) = n - i /\ \A j \in 1 .. n - i : b[j] = e[i + j]
  <2>1. \A j \in i + 1 .. n : e[j] \in S
    BY <1>1
  <2>2. /\ b \in Seq(S) /\ Len(b) = (IF i + 1 <= n THEN n - (i + 1) + 1 ELSE 0)
        /\ \A j \in 1 .. n - (i + 1) + 1 : b[j] = e[i + 1 + j - 1]
    BY <1>1, <2>1, SubSeqProperties
  <2> HIDE DEF b, n
  <2>3. Len(b) = n - i
    BY <1>1, <2>2
  <2>4. ASSUME NEW j \in 1 .. n - i PROVE b[j] = e[i + j]
    <3>1. j \in 1 .. n - (i + 1) + 1 /\ i + 1 + j - 1 = i + j
      BY <1>1
    <3>2. QED
      BY <2>2, <3>1
  <2>5. QED
    BY <2>2, <2>3, <2>4
<1>4. RemoveAt(e, i) = a \o b
  BY DEF RemoveAt
<1> HIDE DEF a, b, n
<1> DEFINE r == a \o b
<1>5. /\ r \in Seq(S) /\ Len(r) = n - 1 /\ DOMAIN r = 1 .. n - 1
      /\ \A j \in 1 .. n - 1 : r[j] = IF j < i THEN e[j] ELSE e[j + 1]
  <2>1. /\ r \in Seq(S) /\ Len(r) = Len(a) + Len(b)
        /\ \A j \in 1 .. Len(a) + Len(b) :
             r[j] = IF j <= Len(a) THEN a[j] ELSE b[j - Len(a)]
    BY <1>2, <1>3, ConcatProperties
  <2> HIDE DEF r
  <2>2. Len(a) + Len(b) = n - 1
    BY <1>1, <1>2, <1>3
  <2>3. ASSUME NEW j \in 1 .. n - 1 PROVE r[j] = IF j < i THEN e[j] ELSE e[j + 1]
    <3>1. CASE j < i
      <4>1. j \in 1 .. i - 1 /\ j <= Len(a)
        BY <1>1, <1>2, <3>1
      <4>2. QED
        BY <1>2, <2>1, <2>2, <3>1, <4>1
    <3>2. CASE ~(j < i)
      <4>1. j - (i - 1) \in 1 .. n - i /\ ~(j <= Len(a)) /\ i + (j - (i - 1)) = j + 1
        BY <1>1, <1>2, <3>2
      <4>2. r[j] = b[j - (i - 1)]
        BY <1>2, <2>1, <2>2, <4>1
      <4>3. QED
        BY <1>3, <3>2, <4>1, <4>2
    <3>3. QED
      BY <3>1, <3>2
  <2>4. QED
    BY <2>1, <2>2, <2>3
<1> HIDE DEF r
<1>6. IsInjective(r)
  <2> SUFFICES ASSUME NEW x \in 1 .. n - 1, NEW y \in 1 .. n - 1, r[x] = r[y] PROVE x = y
    BY <1>5 DEF IsInjective
  <2>1. x \in 1 .. n /\ x + 1 \in 1 .. n /\ y \in 1 .. n /\ y + 1 \in 1 .. n
    BY <1>1
  <2>2. \A j, k \in 1 .. n : e[j] = e[k] => j = k
    BY <1>1 DEF IsInjective
  <2>3. CASE x < i
    BY <1>1, <1>5, <2>1, <2>2, <2>3
  <2>4. CASE ~(x < i)
    BY <1>1, <1>5, <2>1, <2>2, <2>4
  <2>5. QED
    BY <2>3, <2>4
<1>7. Range(r) = Range(e) \ {e[i]}
  <2>1. ASSUME NEW j \in 1 .. n - 1 PROVE r[j] \in Range(e) /\ r[j] # e[i]
    <3>1. j \in 1 .. n /\ j + 1 \in 1 .. n /\ (j < i => j # i) /\ (~(j < i) => j + 1 # i)
      BY <1>1
    <3>2. \A x \in 1 .. n : x # i => e[x] # e[i]
      BY <1>1 DEF IsInjective
    <3>3. QED
      BY <1>1, <1>5, <3>1, <3>2 DEF Range
  <2>2. ASSUME NEW j \in 1 .. n, e[j] # e[i] PROVE e[j] \in Range(r)
    <3>1. CASE j < i
      <4>1. j \in 1 .. n - 1 /\ r[j] = e[j]
        BY <1>1, <1>5, <3>1
      <4>2. QED
        BY <1>5, <4>1 DEF Range
    <3>2. CASE ~(j < i)
      <4>1. j - 1 \in 1 .. n - 1 /\ ~(j - 1 < i) /\ j - 1 + 1 = j
        BY <1>1, <2>2, <3>2
      <4>2. r[j - 1] = e[j]
        BY <1>5, <4>1
      <4>3. QED
        BY <1>5, <4>1, <4>2 DEF Range
    <3>3. QED
      BY <3>1, <3>2
  <2>3. QED
    BY <1>1, <1>5, <2>1, <2>2 DEF Range
<1>8. QED
  BY <1>4, <1>5, <1>6, <1>7 DEF r, n

\* The list of a key is written anew, perhaps in another cell, or given up.
LEMMA ListingChanged ==
  ASSUME NEW f \in CellsType, NEW g \in CellsType, NEW k \in Keys,
         NEW X \in SUBSET StoreOf(k), NEW Y \in SUBSET StoreOf(k), Listing(f, k, X),
         NEW e \in Seq(StoreOf(k)), IsInjective(e), g[k].Count = Len(e),
         Range(e) \cup Y = Range(Entries(f, k)) \cup X, Range(e) \cap Y = {},
         e # << >> => /\ g[k].List \in StoreOf(k) /\ f[g[k].List].kind \in {"free", "list"}
                      /\ g[g[k].List].kind = "list" /\ g[g[k].List].KeyList = e
                      /\ EntrySize * Len(e) <= g[g[k].List].Size,
         \A c \in StoreOf(k) : \/ e # << >> /\ c = g[k].List
                               \/ f[c].kind = "list" /\ g[c].kind = "free"
                               \/ f[c].kind # "list" /\ SameToLists(f, g, c)
  PROVE  Listing(g, k, Y)
<1>1. StoreOf(k) \subseteq Stored
  BY StoreFacts
<1>2. e = << >> <=> g[k].Count = 0
  BY EmptySeq
<1>3. Entries(g, k) = e
  BY <1>2 DEF Entries
<1>4. OfKind(g, "list") \cap StoreOf(k) = (IF g[k].Count = 0 THEN {} ELSE {g[k].List})
  <2>1. \A c \in StoreOf(k) : g[c].kind = "list" <=> (e # << >> /\ c = g[k].List)
    BY DEF SameToLists
  <2>2. QED
    BY <1>1, <1>2, <2>1 DEF OfKind
<1>5. OfKind(g, "value") \cap StoreOf(k) = OfKind(f, "value") \cap StoreOf(k)
  <2>1. \A c \in StoreOf(k) : g[c].kind = "value" <=> f[c].kind = "value"
    BY DEF SameToLists
  <2>2. QED
    BY <2>1 DEF OfKind
<1>6. QED
  BY <1>2, <1>3, <1>4, <1>5 DEF Listing

-----------------------------------------------------------------------------
(* What operations on cells do to a hive, and mark *)

\* Every stable cell that the step from h to g changes is dirty in g.
Marked(h, g) ==
  /\ h.dirty \subseteq g.dirty
  /\ \A c \in Stable : g.cell[c] = h.cell[c] \/ c \in g.dirty

LEMMA MarkedTwice ==
  ASSUME NEW h, NEW g, NEW i, Marked(h, g), Marked(g, i)
  PROVE  Marked(h, i)
BY DEF Marked

LEMMA MarkFacts ==
  ASSUME NEW h \in Hives, NEW cs
  PROVE  /\ HvMarkCellsDirty(h, cs) \in Hives
         /\ HvMarkCellsDirty(h, cs).cell = h.cell
         /\ HvMarkCellsDirty(h, cs).dirty = h.dirty \cup (cs \cap Stable)
         /\ Marked(h, HvMarkCellsDirty(h, cs))
BY DEF Hives, HvMarkCellsDirty, Marked

LEMMA PutFacts ==
  ASSUME NEW h \in Hives, NEW c \in Stored, NEW x \in StoredContents
  PROVE  /\ Put(h, c, x) \in Hives
         /\ Put(h, c, x).cell[c] = x
         /\ \A a \in Cells \ {c} : Put(h, c, x).cell[a] = h.cell[a]
         /\ Put(h, c, x).dirty = h.dirty \cup ({c} \cap Stable)
         /\ Marked(h, Put(h, c, x))
<1> DEFINE f == [h.cell EXCEPT ![c] = x]
           g == [h EXCEPT !.cell[c] = x]
<1>1. h.cell \in CellsType /\ h.dirty \subseteq Stable
  BY DEF Hives
<1>2. f \in CellsType
  BY <1>1, PutType
<1>3. g = [cell |-> f, dirty |-> h.dirty]
  BY DEF Hives
<1>4. c \in Cells /\ f[c] = x /\ \A a \in Cells \ {c} : f[a] = h.cell[a]
  BY <1>1, StoreFacts DEF CellsType
<1>5. Stable \subseteq Cells
  BY DEF Stable, Cells
<1> HIDE DEF f
<1>6. g \in Hives /\ g.cell = f /\ g.dirty = h.dirty
  BY <1>1, <1>2, <1>3 DEF Hives
<1>7. Put(h, c, x) = HvMarkCellsDirty(g, {c})
  BY DEF Put
<1> HIDE DEF g
<1>8. /\ Put(h, c, x) \in Hives /\ Put(h, c, x).cell = f
      /\ Put(h, c, x).dirty = h.dirty \cup ({c} \cap Stable)
  BY <1>6, <1>7, MarkFacts
<1>9. Marked(h, Put(h, c, x))
  BY <1>4, <1>5, <1>8 DEF Marked
<1>10. QED
  BY <1>4, <1>8, <1>9 DEF f

LEMMA FreeIsStored == Free \in StoredContents
BY DEF StoredContents

\* An allocation takes a free cell, or changes nothing.
Allocated(h, store, x, r) ==
  \/ r.cell = HCELL_NIL /\ r.hive = h /\ FreeIn(h, store) = {}
  \/ r.cell \in store /\ h.cell[r.cell] = Free /\ r.hive = Put(h, r.cell, x)

LEMMA AllocateFacts ==
  ASSUME NEW h, NEW store \in Stores, NEW x
  PROVE  Allocated(h, store, x, HvAllocateCell(h, store, x))
<1>1. CASE FreeIn(h, store) = {}
  BY <1>1 DEF HvAllocateCell, Allocated
<1>2. CASE FreeIn(h, store) # {}
  <2>1. FreeIn(h, store) \in SUBSET Nat
    BY CellsAssumption DEF FreeIn, Stores, Cells
  <2>2. Min(FreeIn(h, store)) \in FreeIn(h, store)
    BY <1>2, <2>1, MinFacts
  <2>3. HvAllocateCell(h, store, x) =
          [hive |-> Put(h, Min(FreeIn(h, store)), x), cell |-> Min(FreeIn(h, store))]
    BY <1>2 DEF HvAllocateCell
  <2>4. QED
    BY <2>2, <2>3 DEF Allocated, FreeIn
<1>3. QED
  BY <1>1, <1>2

\* A list of values has room for n bytes: it stays where it is or moves to a free
\* cell; or it stays too small.
Reallocated(h, c, n, r) ==
  \/ r.cell = HCELL_NIL /\ r.hive = h /\ n > h.cell[c].Size
  \/ /\ r.cell \in HvGetCellType(c) /\ r.hive \in Hives /\ Marked(h, r.hive)
     /\ r.hive.cell[r.cell].kind = "list"
     /\ r.hive.cell[r.cell].KeyList = h.cell[c].KeyList
     /\ r.hive.cell[r.cell].Size \in Nat /\ n <= r.hive.cell[r.cell].Size
     /\ \/ r.cell = c /\ r.hive = h
        \/ /\ r.cell # c /\ h.cell[r.cell] = Free /\ r.hive.cell[c] = Free
           /\ r.cell \in Stable => r.cell \in r.hive.dirty
           /\ \A a \in Cells \ {c, r.cell} : r.hive.cell[a] = h.cell[a]

LEMMA ReallocateFacts ==
  ASSUME NEW h \in Hives, NEW c \in Stored, h.cell[c] \in ListContents, NEW n \in Nat
  PROVE  /\ Reallocated(h, c, n, HvReallocateCell(h, c, n))
         /\ HvReallocateCell(h, c, n).cell = HCELL_NIL => n > h.cell[c].Size
<1> DEFINE store == HvGetCellType(c)
           x == KeyList(h.cell[c].KeyList, CellSize(n))
           a == HvAllocateCell(h, store, x)
           moves == n > h.cell[c].Size \/ (n < h.cell[c].Size \div 2 /\ FreeIn(h, store) # {})
           r == HvReallocateCell(h, c, n)
<1>1. store \in Stores /\ c \in store /\ store \subseteq Stored
  BY StoreFacts
<1>2. h.cell[c].KeyList \in Seq(Stored) /\ h.cell[c].Size \in Nat /\ h.cell[c] # Free
      /\ h.cell[c].kind = "list"
  BY DEF ListContents, Free
<1>3. CellSize(n) \in Nat /\ n <= CellSize(n)
  BY CellSizeFacts
<1>4. /\ x \in StoredContents /\ x.kind = "list" /\ x.KeyList = h.cell[c].KeyList
      /\ x.Size = CellSize(n)
  BY <1>2, <1>3 DEF KeyList, StoredContents, ListContents
<1>5. Allocated(h, store, x, a)
  BY <1>1, AllocateFacts
<1>6. r = IF moves THEN IF a.cell = HCELL_NIL THEN a ELSE [a EXCEPT !.hive = HvFreeCell(a.hive, c)]
          ELSE [hive |-> h, cell |-> c]
  BY DEF HvReallocateCell
<1>7. a = [hive |-> a.hive, cell |-> a.cell]
  BY DEF HvAllocateCell
<1>8. HCELL_NIL \notin Stored
  BY StoreFacts
<1> HIDE DEF a, x, r, store
<1>9. CASE ~moves
  <2>1. r = [hive |-> h, cell |-> c] /\ n <= h.cell[c].Size
    BY <1>2, <1>6, <1>9
  <2>2. Marked(h, h)
    BY DEF Marked
  <2>3. QED
    BY <1>1, <1>2, <1>8, <2>1, <2>2 DEF Reallocated, r, store
<1>10. CASE moves /\ a.cell = HCELL_NIL
  <2>1. r = a /\ a.hive = h /\ FreeIn(h, store) = {}
    BY <1>1, <1>5, <1>6, <1>8, <1>10 DEF Allocated
  <2>2. QED
    BY <1>10, <2>1 DEF Reallocated, r
<1>11. CASE moves /\ a.cell # HCELL_NIL
  <2> DEFINE l == a.cell
             g == Put(h, l, x)
             i == Put(g, c, Free)
  <2>1. l \in store /\ h.cell[l] = Free /\ a.hive = g
    BY <1>5, <1>11 DEF Allocated
  <2>2. r = [hive |-> i, cell |-> l]
    BY <1>6, <1>7, <1>11, <2>1 DEF HvFreeCell
  <2>3. l \in Stored /\ l # c /\ c \in Cells /\ l \in Cells
    BY <1>1, <1>2, <2>1, StoreFacts
  <2> HIDE DEF l
  <2>4. /\ g \in Hives /\ g.cell[l] = x /\ \A b \in Cells \ {l} : g.cell[b] = h.cell[b]
        /\ g.dirty = h.dirty \cup ({l} \cap Stable) /\ Marked(h, g)
    <3>1. x \in StoredContents
      BY <1>4
    <3>2. QED
      BY <2>3, <3>1, PutFacts
  <2> HIDE DEF g
  <2>5. /\ i \in Hives /\ i.cell[c] = Free /\ \A b \in Cells \ {c} : i.cell[b] = g.cell[b]
        /\ i.dirty = g.dirty \cup ({c} \cap Stable) /\ Marked(g, i)
    <3>1. g \in Hives /\ c \in Stored /\ Free \in StoredContents
      BY <2>4, FreeIsStored
    <3>2. QED
      BY <3>1, PutFacts
  <2> HIDE DEF i
  <2>6. Marked(h, i)
    BY <2>4, <2>5, MarkedTwice
  <2>7. r.cell = l /\ r.hive = i /\ r.cell # HCELL_NIL
    BY <1>8, <2>2, <2>3
  <2>8. i.cell[l] = x
    BY <2>3, <2>4, <2>5
  <2>9. QED
    BY <1>3, <1>4, <2>1, <2>3, <2>4, <2>5, <2>6, <2>7, <2>8 DEF Reallocated, r, store
<1>12. QED
  BY <1>9, <1>10, <1>11

-----------------------------------------------------------------------------
(* Hives that are sound *)

\* What a call may rely on, and leaves behind: the values X are on no list.
Good(h, X, S) == h \in Hives /\ Sound(h.cell, X, S)

\* The list of values of a key is its entries.
LEMMA ValuesAreEntries ==
  ASSUME NEW h, NEW k \in Keys, NEW X, Listing(h.cell, k, X)
  PROVE  ValuesOf(h, k) = Entries(h.cell, k)
<1>1. CASE h.cell[k].Count = 0
  BY <1>1 DEF ValuesOf, Entries
<1>2. CASE h.cell[k].Count # 0
  <2> DEFINE e == h.cell[h.cell[k].List].KeyList
  <2>1. e \in Seq(StoreOf(k)) /\ Len(e) = h.cell[k].Count
    BY <1>2 DEF Listing, Entries
  <2>2. SubSeq(e, 1, Len(e)) = e
    BY <2>1, SubSeqFull
  <2>3. QED
    BY <1>2, <2>1, <2>2 DEF ValuesOf, Entries
<1>3. QED
  BY <1>1, <1>2

\* Entries are values in the store of their key, the list is in it, too.
LEMMA EntriesFacts ==
  ASSUME NEW f \in CellsType, NEW k \in Keys, NEW X \in SUBSET StoreOf(k), Listing(f, k, X)
  PROVE  /\ Range(Entries(f, k)) \subseteq StoreOf(k)
         /\ \A v \in Range(Entries(f, k)) : v \in OfKind(f, "value") /\ f[v] \in ValueContents
         /\ \A v \in X : v \in OfKind(f, "value") /\ f[v] \in ValueContents
         /\ f[k].Count \in Nat /\ f[k] = CHILD_LIST(f[k].Count, f[k].List)
         /\ f[k].List \in Stored \cup {HCELL_NIL}
         /\ f[k].Count = 0 <=> Entries(f, k) = << >>
         /\ f[k].Count # 0 => /\ f[k].List \in StoreOf(k) /\ f[k].List \in OfKind(f, "list")
                              /\ f[f[k].List] \in ListContents
                              /\ f[f[k].List].KeyList = Entries(f, k)
<1>1. Range(Entries(f, k)) \subseteq StoreOf(k)
  BY DEF Listing, Range
<1>2. StoreOf(k) \subseteq Stored
  BY StoreFacts
<1>3. \A v \in Range(Entries(f, k)) \cup X : v \in OfKind(f, "value") /\ f[v] \in ValueContents
  BY <1>1, <1>2, KindFacts DEF Listing, OfKind
<1>4. f[k] \in KeyContents
  BY DEF CellsType
<1>5. f[k].Count = 0 <=> Entries(f, k) = << >>
  BY <1>4, EmptySeq DEF Listing
<1>6. f[k].Count # 0 => f[k].List \in StoreOf(k) /\ f[k].List \in OfKind(f, "list")
  BY DEF Listing
<1>7. f[k].Count # 0 => f[f[k].List] \in ListContents
  BY <1>2, <1>6, KindFacts DEF OfKind
<1>8. QED
  BY <1>1, <1>3, <1>4, <1>5, <1>6, <1>7 DEF KeyContents, CHILD_LIST, Entries

\* A change in the store of one key leaves the other key's listing alone.
LEMMA SoundAgain ==
  ASSUME NEW f, NEW g \in CellsType, NEW X, NEW Y, NEW S, NEW k \in Keys, Sound(f, X, S),
         X \ StoreOf(k) = Y \ StoreOf(k),
         \A j \in Keys \ {k} : g[j] = f[j],
         \A c \in Stored \ StoreOf(k) : SameToLists(f, g, c),
         Listing(g, k, Y \cap StoreOf(k)), Holding(g, S)
  PROVE  Sound(g, Y, S)
<1>1. ASSUME NEW j \in Keys, j # k PROVE Listing(g, j, Y \cap StoreOf(j))
  <2>1. StoreOf(j) \cap StoreOf(k) = {} /\ StoreOf(j) \subseteq Stored
    BY <1>1, StoreFacts
  <2>2. X \cap StoreOf(j) = Y \cap StoreOf(j)
    BY <2>1
  <2>3. f \in CellsType /\ Listing(f, j, X \cap StoreOf(j))
    BY DEF Sound
  <2>4. \A c \in StoreOf(j) : SameToLists(f, g, c)
    BY <2>1
  <2>5. \A c \in X \cap StoreOf(j) : g[c].kind = "value"
    <3>1. \A c \in X \cap StoreOf(j) : f[c].kind = "value"
      BY <2>3, EntriesFacts DEF OfKind
    <3>2. QED
      BY <2>4, <3>1 DEF SameToLists
  <2> DEFINE Z == X \cap StoreOf(j)
  <2>6. Z \in SUBSET StoreOf(j) /\ Listing(f, j, Z) /\ Z \ Z = {} /\ g[j] = f[j]
    BY <1>1, <2>3
  <2>7. \A c \in Z : g[c].kind = "value" /\ c \in Z
    BY <2>5
  <2> HIDE DEF Z
  <2>8. Listing(g, j, Z)
    BY <2>3, <2>4, <2>6, <2>7, ListingKept
  <2>9. QED
    BY <2>2, <2>8 DEF Z
<1>2. QED
  BY <1>1 DEF Sound

-----------------------------------------------------------------------------
(* CmpAddValueToList *)

\* The key k gets the list s in the cell l.
IsEntered(i, k, l, s, g) ==
  /\ g \in Hives /\ g.dirty = i.dirty
  /\ g.cell[k] = CHILD_LIST(i.cell[k].Count + 1, l)
  /\ g.cell[l].kind = "list" /\ g.cell[l].KeyList = s /\ g.cell[l].Size = i.cell[l].Size
  /\ \A a \in Cells \ {k, l} : g.cell[a] = i.cell[a]

LEMMA CountedUp ==
  ASSUME NEW p, NEW d, NEW k
  PROVE  [[cell |-> p, dirty |-> d] EXCEPT !.cell[k].Count = @ + 1]
           = [cell |-> [p EXCEPT ![k] = [p[k] EXCEPT !.Count = p[k].Count + 1]], dirty |-> d]
<1> DEFINE q == [[cell |-> p, dirty |-> d] EXCEPT !.cell[k].Count = @ + 1]
<1>1. q.dirty = d
  BY Zenon
<1>2. q.cell = [p EXCEPT ![k] = [p[k] EXCEPT !.Count = p[k].Count + 1]]
  BY Zenon
<1>3. q = [cell |-> q.cell, dirty |-> q.dirty]
  OBVIOUS
<1>4. QED
  BY <1>1, <1>2, <1>3

LEMMA EnteredFacts ==
  ASSUME NEW i \in Hives, NEW k \in Keys, NEW l \in Stored, i.cell[l] \in ListContents,
         NEW e, NEW v, NEW index, InsertAt(e, index + 1, v) \in Seq(Stored)
  PROVE  IsEntered(i, k, l, InsertAt(e, index + 1, v),
                   Entered([i EXCEPT !.cell[k].List = l], k, e, v, index))
<1> DEFINE s == InsertAt(e, index + 1, v)
           j == [i EXCEPT !.cell[k].List = l]
           g == Entered(j, k, e, v, index)
<1>1. k \in Cells /\ l \in Cells /\ k # l /\ l \notin Keys
  BY StoreFacts DEF Keys, Cells
<1>2. /\ i.cell \in CellsType /\ i.dirty \subseteq Stable /\ i = [cell |-> i.cell, dirty |-> i.dirty]
      /\ i.cell[k] \in KeyContents
  BY DEF Hives, CellsType
<1> DEFINE f == i.cell
           x == [f[k] EXCEPT !.List = l]
           y == [x EXCEPT !.Count = @ + 1]
           z == [f[l] EXCEPT !.KeyList = s]
           f1 == [f EXCEPT ![k] = x]
           f2 == [f1 EXCEPT ![k] = y]
           f3 == [f2 EXCEPT ![l] = z]
<1>3. x = CHILD_LIST(f[k].Count, l) /\ y = CHILD_LIST(f[k].Count + 1, l) /\ x.List = l
  <2>1. f[k] = CHILD_LIST(f[k].Count, f[k].List) /\ f[k].Count \in Nat
    BY <1>2 DEF KeyContents, CHILD_LIST
  <2>2. x = CHILD_LIST(f[k].Count, l)
    BY <2>1 DEF CHILD_LIST
  <2> HIDE DEF x, f
  <2>3. QED
    BY <2>2 DEF CHILD_LIST
<1>4. y \in KeyContents
  BY <1>2, <1>3 DEF KeyContents, CHILD_LIST
<1>5. z \in ListContents /\ z.kind = "list" /\ z.KeyList = s /\ z.Size = f[l].Size
  BY DEF ListContents
<1>6. \A a \in Cells : f1[a] = IF a = k THEN x ELSE f[a]
  BY <1>2 DEF CellsType
<1>7. \A a \in Cells : f2[a] = IF a = k THEN y ELSE f[a]
  BY <1>2 DEF CellsType
<1>8. f3 \in CellsType /\ \A a \in Cells : f3[a] = IF a = l THEN z ELSE IF a = k THEN y ELSE f[a]
  <2>1. \A a \in Cells : f3[a] = IF a = l THEN z ELSE IF a = k THEN y ELSE f[a]
    BY <1>2 DEF CellsType
  <2>2. DOMAIN f3 = Cells /\ f3 = [a \in DOMAIN f3 |-> f3[a]]
    BY <1>2 DEF CellsType
  <2>3. \A a \in Keys : f3[a] \in KeyContents
    BY <1>1, <1>2, <1>4, <2>1 DEF CellsType, Keys, Cells
  <2>4. \A a \in Stored : f3[a] \in StoredContents
    BY <1>1, <1>2, <1>5, <2>1, StoreFacts DEF CellsType, StoredContents
  <2>5. \A a \in Cells : a \in Keys \/ a \in Stored
    BY DEF Cells, Keys, Stored
  <2> HIDE DEF f3
  <2>6. f3 \in [Cells -> KeyContents \cup StoredContents]
    BY <2>2, <2>3, <2>4, <2>5
  <2>7. QED
    BY <2>1, <2>3, <2>4, <2>6 DEF CellsType
<1>9. j = [cell |-> f1, dirty |-> i.dirty]
  BY <1>2
<1>10. g = [cell |-> f3, dirty |-> i.dirty]
  <2>1. g = [j EXCEPT !.cell[k].Count = @ + 1, !.cell[j.cell[k].List].KeyList = s]
    BY DEF Entered
  <2>2. j.cell = f1 /\ j.cell[k] = x /\ j.cell[k].List = l
    BY <1>1, <1>3, <1>6, <1>9
  <2> HIDE DEF j, g, s
  <2>3. g = [j EXCEPT !.cell[k].Count = @ + 1, !.cell[l].KeyList = s]
    BY <2>1, <2>2
  <2>4. [f1 EXCEPT ![k] = [f1[k] EXCEPT !.Count = f1[k].Count + 1]] = f2
    BY <1>1, <1>2, <1>6 DEF CellsType
  <2>5. [f2 EXCEPT ![l] = [@ EXCEPT !.KeyList = s]] = f3
    BY <1>1, <1>2, <1>7 DEF CellsType
  <2> HIDE DEF f1, f2, f3, x, y, z
  <2>6. [j EXCEPT !.cell[k].Count = @ + 1] = [cell |-> f2, dirty |-> i.dirty]
    BY <1>9, <2>4, CountedUp
  <2>7. QED
    BY <2>3, <2>5, <2>6
<1> HIDE DEF f3, g
<1>11. g \in Hives /\ g.cell = f3 /\ g.dirty = i.dirty
  BY <1>2, <1>8, <1>10 DEF Hives
<1> HIDE DEF s, z, y
<1>12. IsEntered(i, k, l, s, g)
  BY <1>1, <1>3, <1>5, <1>8, <1>11 DEF IsEntered
<1>13. QED
  BY <1>12 DEF s, g

\* A key of the stable store is marked, and its list is.
MarkedList(h, k) ==
  k \in Stable => k \in h.dirty /\ (h.cell[k].Count # 0 => h.cell[k].List \in h.dirty)

\* The value v is put on the list of the key k, or nothing changes.
Added(h, k, v, X, S, r) ==
  \/ r.cell = HCELL_NIL /\ r.hive = h
  \/ /\ r.cell # HCELL_NIL /\ Good(r.hive, X \ {v}, S) /\ Marked(h, r.hive)
     /\ \A c \in Cells \ (StoreOf(k) \cup {k}) : r.hive.cell[c] = h.cell[c]
     /\ \A c \in OfKind(h.cell, "value") : r.hive.cell[c] = h.cell[c]

\* The list has room in the cell l of the hive i, and the value is entered.
LEMMA EnteredListing ==
  ASSUME NEW h, NEW k \in Keys, NEW X, NEW S, NEW v \in X \cap StoreOf(k),
         Good(h, X, S), MarkedList(h, k),
         NEW i \in Hives, NEW l \in StoreOf(k), NEW e, e = Entries(h.cell, k), Marked(h, i),
         i.cell[k] = h.cell[k], i.cell[l].kind = "list", h.cell[l].kind \in {"free", "list"},
         EntrySize * (h.cell[k].Count + 1) <= i.cell[l].Size,
         l \in Stable => l \in i.dirty \/ (h.cell[k].Count # 0 /\ l = h.cell[k].List),
         \A c \in Cells \ {l} : \/ i.cell[c] = h.cell[c]
                                \/ c \in StoreOf(k) /\ h.cell[c].kind = "list" /\ i.cell[c].kind = "free",
         \A c \in StoreOf(k) \ {l} : h.cell[c].kind = "list" => i.cell[c].kind = "free"
  PROVE  Added(h, k, v, X, S,
               [hive |-> Entered([i EXCEPT !.cell[k].List = l], k, e, v, h.cell[k].Count),
                cell |-> l])
<1> DEFINE n == h.cell[k].Count
           s == InsertAt(e, n + 1, v)
           g == Entered([i EXCEPT !.cell[k].List = l], k, e, v, n)
           f == h.cell
           Z == X \cap StoreOf(k)
           W == (X \ {v}) \cap StoreOf(k)
<1>1. f \in CellsType /\ Listing(f, k, Z) /\ Holding(f, S) /\ h \in Hives
  BY DEF Good, Sound
<1>2. StoreOf(k) \subseteq Stored /\ l \in Stored /\ l \in Cells /\ k \in Cells /\ l # k
  BY StoreFacts DEF Keys, Cells
<1>3. e \in Seq(StoreOf(k)) /\ Len(e) = n /\ IsInjective(e) /\ v \notin Range(e) /\ n \in Nat
  BY <1>1, EntriesFacts DEF Listing
<1>4. /\ s \in Seq(StoreOf(k)) /\ Len(s) = n + 1 /\ IsInjective(s) /\ Range(s) = Range(e) \cup {v}
  <2>1. InsertAt(e, Len(e) + 1, v) = s
    BY <1>3
  <2>2. QED
    BY <1>3, <2>1, InsertFacts
<1>5. i.cell[l] \in ListContents /\ s \in Seq(Stored)
  <2>1. i.cell[l] \in ListContents
    BY <1>2, KindFacts DEF Hives
  <2> HIDE DEF s
  <2>2. s \in Seq(Stored)
    BY <1>2, <1>4
  <2>3. QED
    BY <2>1, <2>2
<1>6. IsEntered(i, k, l, s, g)
  BY <1>2, <1>5, EnteredFacts
<1> HIDE DEF s, g
<1>7. /\ g \in Hives /\ g.cell \in CellsType /\ g.dirty = i.dirty
      /\ g.cell[k].Count = n + 1 /\ g.cell[k].List = l
      /\ g.cell[l].kind = "list" /\ g.cell[l].KeyList = s /\ g.cell[l].Size = i.cell[l].Size
      /\ \A c \in Cells \ {k, l} : g.cell[c] = i.cell[c]
  BY <1>6 DEF IsEntered, CHILD_LIST, Hives
<1>8. \A c \in Stored : c # l => \/ g.cell[c] = f[c]
                                 \/ c \in StoreOf(k) /\ f[c].kind = "list" /\ g.cell[c].kind = "free"
  BY <1>7, StoreFacts
<1>9. \A c \in StoreOf(k) : c # l /\ f[c].kind = "list" => g.cell[c].kind = "free"
  BY <1>2, <1>7, StoreFacts
<1>10. Listing(g.cell, k, W)
  <2>1. s # << >>
    BY <1>3, <1>4
  <2>2. Range(s) \cup W = Range(Entries(f, k)) \cup Z /\ Range(s) \cap W = {}
    BY <1>1, <1>4 DEF Listing
  <2>3. \A c \in StoreOf(k) : \/ s # << >> /\ c = g.cell[k].List
                              \/ f[c].kind = "list" /\ g.cell[c].kind = "free"
                              \/ f[c].kind # "list" /\ SameToLists(f, g.cell, c)
    <3>1. ASSUME NEW c \in StoreOf(k), c # l
          PROVE  \/ f[c].kind = "list" /\ g.cell[c].kind = "free"
                 \/ f[c].kind # "list" /\ g.cell[c] = f[c]
      BY <1>2, <1>8, <1>9, <3>1
    <3>2. g.cell[k].List = l
      BY <1>7
    <3> HIDE DEF f
    <3>3. QED
      BY <2>1, <3>1, <3>2 DEF SameToLists
  <2>4. W \in SUBSET StoreOf(k) /\ Z \in SUBSET StoreOf(k)
    OBVIOUS
  <2>5. /\ g.cell[k].List \in StoreOf(k) /\ f[g.cell[k].List].kind \in {"free", "list"}
        /\ g.cell[g.cell[k].List].kind = "list" /\ g.cell[g.cell[k].List].KeyList = s
        /\ EntrySize * Len(s) <= g.cell[g.cell[k].List].Size /\ g.cell[k].Count = Len(s)
    BY <1>4, <1>7
  <2> HIDE DEF f, Z, W, n
  <2>6. QED
    BY <1>1, <1>4, <1>7, <2>2, <2>3, <2>4, <2>5, ListingChanged
<1>11. \A c \in Stored : SameToData(f, g.cell, c)
  BY <1>7, <1>8 DEF SameToData
<1>12. Holding(g.cell, S)
  BY <1>1, <1>7, <1>11, HoldingKept
<1>13. Sound(g.cell, X \ {v}, S)
  <2>1. Sound(f, X, S) /\ X \ StoreOf(k) = (X \ {v}) \ StoreOf(k)
    BY DEF Good
  <2>2. \A j \in Keys \ {k} : g.cell[j] = f[j]
    BY <1>2, <1>7, StoreFacts DEF Keys, Cells
  <2>3. \A c \in Stored \ StoreOf(k) : SameToLists(f, g.cell, c)
    BY <1>8 DEF SameToLists
  <2> HIDE DEF f
  <2>4. QED
    BY <1>7, <1>10, <1>12, <2>1, <2>2, <2>3, SoundAgain
<1>14. Marked(h, g)
  <2> SUFFICES ASSUME NEW c \in Stable, g.cell[c] # f[c] PROVE c \in i.dirty
    BY <1>7 DEF Marked
  <2>1. h.dirty \subseteq i.dirty /\ (i.cell[c] = f[c] \/ c \in i.dirty) /\ c \in Cells
    BY DEF Marked, Stable, Cells
  <2>2. CASE c = k
    BY <2>1, <2>2 DEF MarkedList
  <2>3. CASE c = l
    <3>1. k \in Stable
      BY <2>3, StoreFacts, CellsAssumption DEF Stable, Keys, StoreOf
    <3>2. QED
      BY <2>1, <2>3, <3>1 DEF MarkedList
  <2>4. CASE c # k /\ c # l
    BY <1>7, <2>1, <2>4
  <2>5. QED
    BY <2>2, <2>3, <2>4
<1>15. \A c \in Cells \ (StoreOf(k) \cup {k}) : g.cell[c] = f[c]
  BY <1>7
<1>16. \A c \in OfKind(f, "value") : g.cell[c] = f[c]
  BY <1>8 DEF OfKind
<1>17. l # HCELL_NIL
  BY <1>2, StoreFacts
<1>18. QED
  BY <1>7, <1>13, <1>14, <1>15, <1>16, <1>17 DEF Added, Good, g

LEMMA AddFacts ==
  ASSUME NEW h, NEW k \in Keys, NEW X, NEW S, NEW v \in X \cap StoreOf(k),
         Good(h, X, S), MarkedList(h, k)
  PROVE  Added(h, k, v, X, S, CmpAddValueToList(h, k, v, h.cell[k].Count, StoreOf(k)))
<1> DEFINE n == h.cell[k].Count
           e == Entries(h.cell, k)
           f == h.cell
           Z == X \cap StoreOf(k)
           r == IF n > 0 THEN HvReallocateCell(h, h.cell[k].List, ListLength(n + 1))
                ELSE HvAllocateCell(h, StoreOf(k), KeyList(<<>>, CellSize(EntrySize)))
           a == CmpAddValueToList(h, k, v, n, StoreOf(k))
<1>1. f \in CellsType /\ Listing(f, k, Z) /\ h \in Hives /\ Z \in SUBSET StoreOf(k)
  BY DEF Good, Sound
<1>2. /\ n \in Nat /\ (n = 0 <=> e = << >>)
      /\ n # 0 => /\ f[k].List \in StoreOf(k) /\ f[f[k].List] \in ListContents
                  /\ OfKind(f, "list") \cap StoreOf(k) = {f[k].List}
  BY <1>1, EntriesFacts DEF Listing
<1>3. ValuesOf(h, k) = e
  BY <1>1, ValuesAreEntries
<1>4. a = IF r.cell = HCELL_NIL THEN r
          ELSE [r EXCEPT !.hive = Entered([r.hive EXCEPT !.cell[k].List = r.cell], k, e, v, n)]
  BY <1>3 DEF CmpAddValueToList, EnteredAt
<1>5. StoreOf(k) \subseteq Stored /\ StoreOf(k) \in Stores /\ k \notin Stored
      /\ (\A c \in Stored : c \in Cells) /\ k \in Cells /\ HCELL_NIL \notin Stored
  BY StoreFacts DEF Keys, Cells
<1>6. OfKind(f, "list") \cap StoreOf(k) = IF n = 0 THEN {} ELSE {f[k].List}
  BY <1>1 DEF Listing
<1>7. EntrySize \in Nat
  BY SizesAssumption
<1>8. CASE r.cell = HCELL_NIL
  <2>1. r.hive = h
    <3>1. CASE n > 0
      <4>1. ListLength(n + 1) \in Nat
        BY <1>2, ListLengthFacts
      <4>2. f[k].List \in Stored /\ f[f[k].List] \in ListContents
        BY <1>2, <1>5, <3>1
      <4>3. Reallocated(h, f[k].List, ListLength(n + 1), r)
        BY <1>1, <3>1, <4>1, <4>2, ReallocateFacts
      <4>4. HvGetCellType(f[k].List) \subseteq Stored
        BY <4>2, StoreFacts
      <4> HIDE DEF r, n, f
      <4>5. QED
        BY <1>5, <1>8, <4>3, <4>4 DEF Reallocated
    <3>2. CASE ~(n > 0)
      <4>1. Allocated(h, StoreOf(k), KeyList(<<>>, CellSize(EntrySize)), r)
        BY <1>5, <3>2, AllocateFacts
      <4> HIDE DEF r, n
      <4>2. QED
        BY <1>5, <1>8, <4>1 DEF Allocated
    <3>3. QED
      BY <3>1, <3>2
  <2>2. a = r
    BY <1>4, <1>8
  <2> HIDE DEF a, r
  <2>3. Added(h, k, v, X, S, a)
    BY <1>8, <2>1, <2>2 DEF Added
  <2>4. QED
    BY <2>3 DEF a
<1>9. CASE r.cell # HCELL_NIL
  <2> DEFINE l == r.cell
             i == r.hive
             b == Entered([i EXCEPT !.cell[k].List = l], k, e, v, n)
  <2>1. r = [hive |-> i, cell |-> l]
    BY DEF HvReallocateCell, HvAllocateCell
  <2>2. a = [hive |-> b, cell |-> l]
    BY <1>4, <1>9, <2>1
  <2>3. CASE n > 0
    <3> DEFINE c == f[k].List
               m == ListLength(n + 1)
    <3>1. m \in Nat /\ EntrySize * (n + 1) <= m
      <4>1. n + 1 \in Nat
        BY <1>2
      <4> HIDE DEF n
      <4>2. QED
        BY <4>1, ListLengthFacts
    <3>2. c \in Stored /\ c \in StoreOf(k) /\ f[c] \in ListContents /\ HvGetCellType(c) = StoreOf(k)
      BY <1>2, <1>5, <2>3, StoreFacts
    <3>3. Reallocated(h, c, m, r)
      BY <1>1, <2>3, <3>1, <3>2, ReallocateFacts
    <3> HIDE DEF r, n, m, c
    <3>4. /\ l \in StoreOf(k) /\ i \in Hives /\ Marked(h, i) /\ i.cell[l].kind = "list"
          /\ i.cell[l].Size \in Nat /\ m <= i.cell[l].Size
          /\ \/ l = c /\ i = h
             \/ /\ l # c /\ h.cell[l] = Free /\ i.cell[c] = Free
                /\ l \in Stable => l \in i.dirty
                /\ \A x \in Cells \ {c, l} : i.cell[x] = h.cell[x]
      BY <1>9, <3>2, <3>3 DEF Reallocated
    <3>5. OfKind(f, "list") \cap StoreOf(k) = {c} /\ n # 0 /\ f[c].kind = "list"
      BY <1>6, <2>3, <3>2 DEF c, ListContents
    <3> HIDE DEF l, i
    <3>6. EntrySize * (n + 1) <= i.cell[l].Size
      BY <1>2, <1>7, <3>1, <3>4 DEF n
    <3>7. i.cell[k] = f[k] /\ h.cell[l].kind \in {"free", "list"}
      BY <1>5, <3>2, <3>4, <3>5 DEF Free
    <3>8. \A x \in Cells \ {l} : \/ i.cell[x] = f[x]
                                 \/ x \in StoreOf(k) /\ f[x].kind = "list" /\ i.cell[x].kind = "free"
      BY <3>2, <3>4, <3>5 DEF Free
    <3>9. \A x \in StoreOf(k) \ {l} : f[x].kind = "list" => i.cell[x].kind = "free"
      <4>1. \A x \in StoreOf(k) : f[x].kind = "list" => x = c
        BY <1>5, <3>5 DEF OfKind
      <4>2. QED
        BY <3>4, <4>1 DEF Free
    <3>10. l \in Stable => l \in i.dirty \/ (h.cell[k].Count # 0 /\ l = h.cell[k].List)
      BY <3>4, <3>5 DEF n, c
    <3>11. Added(h, k, v, X, S, [hive |-> b, cell |-> l])
      BY <3>4, <3>6, <3>7, <3>8, <3>9, <3>10, EnteredListing DEF n
    <3>12. QED
      BY <2>2, <3>11 DEF n
  <2>4. CASE ~(n > 0)
    <3> DEFINE x == KeyList(<<>>, CellSize(EntrySize))
    <3>1. Allocated(h, StoreOf(k), x, r)
      BY <1>5, <2>4, AllocateFacts
    <3>2. n = 0
      BY <1>2, <2>4
    <3>3. CellSize(EntrySize) \in Nat /\ EntrySize * (n + 1) <= CellSize(EntrySize)
      BY <1>7, <3>2, CellSizeFacts
    <3>4. x \in StoredContents /\ x.kind = "list" /\ x.Size = CellSize(EntrySize)
      BY <3>3 DEF KeyList, StoredContents, ListContents
    <3> HIDE DEF r, n, x
    <3>5. l \in StoreOf(k) /\ h.cell[l] = Free /\ i = Put(h, l, x)
      BY <1>9, <3>1 DEF Allocated
    <3> HIDE DEF l, i
    <3>6. /\ i \in Hives /\ i.cell[l] = x /\ \A y \in Cells \ {l} : i.cell[y] = h.cell[y]
          /\ i.dirty = h.dirty \cup ({l} \cap Stable) /\ Marked(h, i)
      <4>1. l \in Stored
        BY <1>5, <3>5
      <4>2. QED
        BY <1>1, <3>4, <3>5, <4>1, PutFacts
    <3>7. /\ i.cell[k] = f[k] /\ h.cell[l].kind \in {"free", "list"} /\ i.cell[l].kind = "list"
          /\ EntrySize * (n + 1) <= i.cell[l].Size
      BY <1>5, <3>3, <3>4, <3>5, <3>6 DEF Free
    <3>8. \A y \in StoreOf(k) \ {l} : f[y].kind = "list" => i.cell[y].kind = "free"
      BY <1>5, <1>6, <3>2 DEF OfKind
    <3>9. Added(h, k, v, X, S, [hive |-> b, cell |-> l])
      BY <3>5, <3>6, <3>7, <3>8, EnteredListing DEF n
    <3>10. QED
      BY <2>2, <3>9 DEF n
  <2>5. QED
    BY <2>3, <2>4
<1>10. QED
  BY <1>8, <1>9

-----------------------------------------------------------------------------
(* Values and their data *)

\* A change that is none to the lists keeps a hive sound, if values and data are.
LEMMA SoundData ==
  ASSUME NEW f, NEW g \in CellsType, NEW X \in SUBSET Stored, NEW Y \in SUBSET Stored, NEW S,
         Sound(f, X, S), \A k \in Keys : g[k] = f[k],
         \A c \in Stored : c \notin X \cup Y => SameToLists(f, g, c),
         \A c \in Y : g[c].kind = "value" /\ (c \in X \/ f[c].kind \in {"free", "data"}),
         \A c \in X \ Y : g[c].kind \in {"free", "data"},
         Holding(g, S)
  PROVE  Sound(g, Y, S)
<1>1. ASSUME NEW k \in Keys PROVE Listing(g, k, Y \cap StoreOf(k))
  <2> DEFINE Z == X \cap StoreOf(k)
             W == Y \cap StoreOf(k)
  <2>1. f \in CellsType /\ Listing(f, k, Z) /\ StoreOf(k) \subseteq Stored
    BY StoreFacts DEF Sound
  <2>2. Z \in SUBSET StoreOf(k) /\ W \in SUBSET StoreOf(k) /\ g[k] = f[k]
    OBVIOUS
  <2>3. \A c \in StoreOf(k) : c \notin Z \cup W => SameToLists(f, g, c)
    BY <2>1
  <2>4. \A c \in W : g[c].kind = "value" /\ (c \in Z \/ f[c].kind \in {"free", "data"})
    OBVIOUS
  <2>5. \A c \in Z \ W : g[c].kind \in {"free", "data"}
    OBVIOUS
  <2> HIDE DEF Z, W
  <2>6. Listing(g, k, W)
    BY <2>1, <2>2, <2>3, <2>4, <2>5, ListingKept
  <2>7. QED
    BY <2>6 DEF W
<1>2. QED
  BY <1>1 DEF Sound

LEMMA ValueFacts ==
  ASSUME NEW f, NEW X, NEW S, Sound(f, X, S), NEW v \in OfKind(f, "value")
  PROVE  /\ f \in CellsType /\ f[v] \in ValueContents /\ v \in Stored /\ WellMade(f[v])
         /\ f[v].Length > 0 <=> f[v].Data # HCELL_NIL
         /\ HasData(f[v]) <=> f[v].Data # HCELL_NIL
         /\ f[v].Data # HCELL_NIL => /\ f[v].Data \in Stored /\ f[v].Data # v
                                     /\ f[f[v].Data].kind = "data" /\ f[v].Data \notin S
                                     /\ f[f[v].Data] \in DataContents
                                     /\ v \in StableCells => f[v].Data \in StableCells
<1>1. f \in CellsType /\ Holding(f, S)
  BY DEF Sound
<1>2. v \in Stored /\ f[v].kind = "value" /\ f[v] \in ValueContents
  BY <1>1, KindFacts DEF OfKind
<1>3. WellMade(f[v]) /\ f[v].Length \in Nat
  BY <1>1, <1>2 DEF Holding, ValueContents
<1>4. f[v].Data # HCELL_NIL => /\ f[v].Data \in Stored /\ f[f[v].Data].kind = "data"
                               /\ f[v].Data \notin S
                               /\ v \in StableCells => f[v].Data \in StableCells
  BY <1>1 DEF Holding, OfKind
<1>5. f[v].Data # HCELL_NIL => f[f[v].Data] \in DataContents
  BY <1>1, <1>4, KindFacts
<1>6. /\ f[v].Length > 0 <=> f[v].Data # HCELL_NIL
      /\ HasData(f[v]) <=> f[v].Data # HCELL_NIL
  BY <1>3 DEF WellMade, HasData
<1>7. f[v].Data # HCELL_NIL => f[v].Data # v
  BY <1>2, <1>4
<1>8. QED
  BY <1>1, <1>2, <1>3, <1>4, <1>5, <1>6, <1>7

\* A value without data is made in a free cell, and is on no list yet.
LEMMA NewValueFacts ==
  ASSUME NEW h, NEW X \in SUBSET Stored, NEW S, Good(h, X, S),
         NEW v \in Stored, h.cell[v] = Free, NEW x \in ValueContents,
         WellMade(x), x.Data = HCELL_NIL
  PROVE  Good(Put(h, v, x), X \cup {v}, S)
<1> DEFINE g == Put(h, v, x)
           f == h.cell
           Y == X \cup {v}
<1>1. h \in Hives /\ f \in CellsType /\ Sound(f, X, S) /\ Holding(f, S)
  BY DEF Good, Sound
<1>2. x \in StoredContents /\ x.kind = "value" /\ f[v].kind = "free"
  BY DEF StoredContents, ValueContents, Free
<1>3. g \in Hives /\ g.cell[v] = x /\ \A c \in Cells \ {v} : g.cell[c] = h.cell[c]
  BY <1>1, <1>2, PutFacts
<1> HIDE DEF g
<1>4. g.cell \in CellsType
  BY <1>3 DEF Hives
<1>5. /\ \A c \in Stored \ {v} : g.cell[c] = f[c]
      /\ \A k \in Keys : g.cell[k] = f[k]
  BY <1>3, StoreFacts DEF Keys, Cells
<1>6. Holding(g.cell, S)
  <2>1. \A c \in Stored \ {v} : SameToData(f, g.cell, c)
    BY <1>5 DEF SameToData
  <2>2. g.cell[v].kind = "value" /\ WellMade(g.cell[v]) /\ g.cell[v].Data = HCELL_NIL
    BY <1>2, <1>3
  <2> HIDE DEF f
  <2>3. QED
    BY <1>1, <1>2, <1>4, <2>1, <2>2, HoldingNew
<1>7. Sound(g.cell, Y, S)
  <2>1. \A c \in Stored : c \notin X \cup Y => SameToLists(f, g.cell, c)
    BY <1>5 DEF SameToLists
  <2>2. \A c \in X : f[c].kind = "value"
    <3>1. \A c \in X : \E k \in Keys : c \in StoreOf(k)
      BY StoreFacts
    <3>2. QED
      BY <1>1, <3>1 DEF Sound, Listing, OfKind
  <2>3. \A c \in Y : g.cell[c].kind = "value" /\ (c \in X \/ f[c].kind \in {"free", "data"})
    BY <1>2, <1>3, <1>5, <2>2
  <2>4. X \ Y = {} /\ Y \in SUBSET Stored
    OBVIOUS
  <2> HIDE DEF f, Y
  <2>5. QED
    BY <1>1, <1>4, <1>5, <1>6, <2>1, <2>3, <2>4, SoundData
<1>8. QED
  BY <1>3, <1>7 DEF Good, g

\* Only the value v, its data and nothing else have been freed.
OnlyFreed(f, v, g) ==
  /\ g[v] = Free
  /\ f[v].Data # HCELL_NIL => g[f[v].Data] = Free
  /\ \A c \in Cells : c # v /\ (f[v].Data # HCELL_NIL => c # f[v].Data) => g[c] = f[c]

IsFreed(h, v, g) == g \in Hives /\ Marked(h, g) /\ OnlyFreed(h.cell, v, g.cell)

\* CmpFreeValue frees a value and its data.
LEMMA FreedHive ==
  ASSUME NEW h \in Hives, NEW v \in Stored, HasData(h.cell[v]) <=> h.cell[v].Data # HCELL_NIL,
         h.cell[v].Data # HCELL_NIL => h.cell[v].Data \in Stored /\ h.cell[v].Data # v
  PROVE  IsFreed(h, v, CmpFreeValue(h, v))
<1> DEFINE f == h.cell
           d == f[v].Data
           i == CmpFreeValueData(h, v)
           g == CmpFreeValue(h, v)
<1>1. /\ HasData(f[v]) <=> d # HCELL_NIL
      /\ d # HCELL_NIL => d \in Stored /\ d # v
  OBVIOUS
<1>2. /\ i \in Hives /\ Marked(h, i)
      /\ d # HCELL_NIL => i.cell[d] = Free
      /\ \A c \in Cells : (d # HCELL_NIL => c # d) => i.cell[c] = f[c]
  <2>1. CASE d # HCELL_NIL
    <3>1. i = Put(h, d, Free)
      BY <1>1, <2>1 DEF CmpFreeValueData, HvFreeCell
    <3> HIDE DEF d, i, f
    <3>2. d \in Stored
      BY <1>1, <2>1
    <3>3. QED
      BY <2>1, <3>1, <3>2, PutFacts, FreeIsStored DEF f
  <2>2. CASE d = HCELL_NIL
    <3>1. i = h
      BY <1>1, <2>2 DEF CmpFreeValueData
    <3> HIDE DEF d, i
    <3>2. QED
      BY <2>2, <3>1 DEF Marked
  <2>3. QED
    BY <2>1, <2>2
<1>3. g = Put(i, v, Free)
  BY DEF CmpFreeValue, HvFreeCell
<1> HIDE DEF i, d, g
<1>4. /\ g \in Hives /\ Marked(i, g) /\ g.cell[v] = Free
      /\ \A c \in Cells \ {v} : g.cell[c] = i.cell[c]
  BY <1>2, <1>3, PutFacts, FreeIsStored
<1>5. Marked(h, g)
  BY <1>2, <1>4, MarkedTwice
<1>6. /\ d # HCELL_NIL => g.cell[d] = Free
      /\ \A c \in Cells : c # v /\ (d # HCELL_NIL => c # d) => g.cell[c] = f[c]
  BY <1>1, <1>2, <1>4, StoreFacts
<1>7. QED
  BY <1>4, <1>5, <1>6 DEF IsFreed, OnlyFreed, d, g

\* Values that are on no list are values.
LEMMA UnlistedFacts ==
  ASSUME NEW f, NEW X \in SUBSET Stored, NEW S, Sound(f, X, S)
  PROVE  \A c \in X : c \in OfKind(f, "value")
<1>1. \A c \in X : \E k \in Keys : c \in StoreOf(k)
  BY StoreFacts
<1>2. QED
  BY <1>1 DEF Sound, Listing

\* Freeing a value that is on no list keeps a hive sound.
LEMMA FreedSound ==
  ASSUME NEW f, NEW X \in SUBSET Stored, NEW S, Sound(f, X, S), NEW v \in X,
         NEW g \in CellsType, OnlyFreed(f, v, g)
  PROVE  Sound(g, X \ {v}, S)
<1> DEFINE d == f[v].Data
           Y == X \ {v}
<1>1. f \in CellsType /\ Holding(f, S)
  BY DEF Sound
<1>2. \A c \in X : c \in OfKind(f, "value")
  BY UnlistedFacts
<1>3. /\ v \in Stored /\ f[v].kind = "value"
      /\ d # HCELL_NIL => d \in Stored /\ d # v /\ f[d].kind = "data"
  BY <1>2, ValueFacts DEF OfKind
<1>4. /\ g[v] = Free
      /\ d # HCELL_NIL => g[d] = Free
      /\ \A c \in Cells : c # v /\ (d # HCELL_NIL => c # d) => g[c] = f[c]
  BY DEF OnlyFreed
<1> HIDE DEF d
<1>5. \A k \in Keys : g[k] = f[k]
  BY <1>3, <1>4, StoreFacts DEF Keys, Cells
<1>6. \A c \in Stored : c # v /\ c # d => g[c] = f[c]
  BY <1>4, StoreFacts
<1>7. Holding(g, S)
  <2>1. \A c \in Stored : c # v /\ c # d => SameToData(f, g, c)
    BY <1>6 DEF SameToData
  <2>2. g[v].kind = "free" /\ (d # HCELL_NIL => g[d].kind = "free")
    BY <1>4 DEF Free
  <2>3. v \in OfKind(f, "value")
    BY <1>2
  <2>4. QED
    BY <1>1, <2>1, <2>2, <2>3, HoldingReleased DEF d
<1>8. \A c \in Stored : c \notin X \cup Y => SameToLists(f, g, c)
  <2> SUFFICES ASSUME NEW c \in Stored, c \notin X PROVE SameToLists(f, g, c)
    OBVIOUS
  <2>1. CASE c = d
    BY <1>3, <1>4, <2>1, StoreFacts DEF SameToLists, Free
  <2>2. CASE c # d
    BY <1>6, <2>2 DEF SameToLists
  <2>3. QED
    BY <2>1, <2>2
<1>9. \A c \in Y : g[c].kind = "value" /\ (c \in X \/ f[c].kind \in {"free", "data"})
  <2>1. \A c \in X : f[c].kind = "value" /\ c \in Stored
    BY <1>2 DEF OfKind
  <2>2. \A c \in Y : c # v /\ c # d
    BY <1>3, <2>1, StoreFacts
  <2>3. QED
    BY <1>6, <2>1, <2>2
<1>10. \A c \in X \ Y : g[c].kind \in {"free", "data"}
  BY <1>4 DEF Free
<1>11. Y \in SUBSET Stored
  OBVIOUS
<1> HIDE DEF Y
<1>12. Sound(g, Y, S)
  BY <1>5, <1>7, <1>8, <1>9, <1>10, <1>11, SoundData
<1>13. QED
  BY <1>12 DEF Y

\* CmpFreeValue frees a value that is on no list.
LEMMA FreeValueFacts ==
  ASSUME NEW h, NEW X \in SUBSET Stored, NEW S, Good(h, X, S), NEW v \in X
  PROVE  IsFreed(h, v, CmpFreeValue(h, v)) /\ Good(CmpFreeValue(h, v), X \ {v}, S)
<1> DEFINE g == CmpFreeValue(h, v)
<1>1. h \in Hives /\ Sound(h.cell, X, S) /\ v \in OfKind(h.cell, "value")
  BY UnlistedFacts DEF Good
<1>2. IsFreed(h, v, g)
  BY <1>1, ValueFacts, FreedHive
<1> HIDE DEF g
<1>3. g \in Hives /\ g.cell \in CellsType /\ OnlyFreed(h.cell, v, g.cell)
  BY <1>2 DEF IsFreed, Hives
<1>4. Sound(g.cell, X \ {v}, S)
  BY <1>1, <1>3, FreedSound
<1>5. QED
  BY <1>2, <1>3, <1>4 DEF Good, g

-----------------------------------------------------------------------------
(* CmiAddValueKey and CmpFindNameInList *)

\* A name is found at a position of the list, or not.
LEMMA FindFacts ==
  ASSUME NEW h, NEW k \in Keys, NEW X \in SUBSET StoreOf(k), h.cell \in CellsType,
         Listing(h.cell, k, X), NEW name
  PROVE  /\ ValuesOf(h, k) = Entries(h.cell, k)
         /\ CmpFindNameInList(h, k, name) # 0 =>
              /\ CmpFindNameInList(h, k, name) \in DOMAIN Entries(h.cell, k)
              /\ ValuesOf(h, k)[CmpFindNameInList(h, k, name)] \in Range(Entries(h.cell, k))
<1> DEFINE e == Entries(h.cell, k)
           I == {i \in 1 .. Len(e) : h.cell[e[i]].Name = name}
           p == CmpFindNameInList(h, k, name)
<1>1. ValuesOf(h, k) = e
  BY ValuesAreEntries
<1>2. p = IF I # {} THEN Min(I) ELSE 0
  BY <1>1 DEF CmpFindNameInList, SelectInSeq
<1>3. e \in Seq(StoreOf(k))
  BY DEF Listing
<1> HIDE DEF e, p
<1>4. Len(e) \in Nat /\ DOMAIN e = 1 .. Len(e)
  BY <1>3
<1>5. I # {} => Min(I) \in I
  <2>1. I \in SUBSET Nat
    BY <1>4
  <2> HIDE DEF I
  <2>2. QED
    BY <2>1, MinFacts
<1>6. p # 0 => p \in DOMAIN e
  BY <1>2, <1>4, <1>5
<1>7. p # 0 => e[p] \in Range(e)
  BY <1>6 DEF Range
<1>8. QED
  BY <1>1, <1>6, <1>7 DEF e, p

\* The hive of r is sound, and the cell is a value or none.
HasValue(h, S, r) ==
  /\ Good(r.hive, {}, S) /\ Marked(h, r.hive)
  /\ r.cell # HCELL_NIL => r.cell \in OfKind(r.hive.cell, "value")

\* A value of the name is entered, or the hive is left as it was but for marks.
LEMMA AddValueFacts ==
  ASSUME NEW h, NEW S, Good(h, {}, S), NEW k \in Keys, k \in Stable => k \in h.dirty,
         NEW name \in Names
  PROVE  HasValue(h, S, CmiAddValueKey(h, k, name, h.cell[k].Count))
<1> SUFFICES ASSUME NEW r, r = CmiAddValueKey(h, k, name, h.cell[k].Count)
             PROVE  HasValue(h, S, r)
  OBVIOUS
<1> DEFINE f == h.cell
           n == f[k].Count
           x == CM_KEY_VALUE(name)
           a == HvAllocateCell(h, StoreOf(k), x)
<1>1. h \in Hives /\ f \in CellsType /\ Sound(f, {}, S)
  BY DEF Good, Sound
<1>2. /\ x \in ValueContents /\ x \in StoredContents /\ WellMade(x) /\ x.Data = HCELL_NIL
      /\ x.kind = "value"
  BY DEF CM_KEY_VALUE, ValueContents, StoredContents, WellMade
<1>3. StoreOf(k) \in Stores /\ StoreOf(k) \subseteq Stored /\ HCELL_NIL \notin Stored
  BY StoreFacts
<1>4. Allocated(h, StoreOf(k), x, a)
  BY <1>3, AllocateFacts
<1>5. CASE a.cell = HCELL_NIL
  <2>1. CmiAddValueKey(h, k, name, n) = a /\ a.hive = h
    <3>1. CmiAddValueKey(h, k, name, n) = a
      BY <1>5 DEF CmiAddValueKey
    <3> HIDE DEF a
    <3>2. a.hive = h
      BY <1>3, <1>4, <1>5 DEF Allocated
    <3>3. QED
      BY <3>1, <3>2
  <2> HIDE DEF a
  <2>2. r = a
    BY <2>1
  <2>3. QED
    BY <1>5, <2>1, <2>2 DEF Marked, HasValue
<1>6. CASE a.cell # HCELL_NIL
  <2> DEFINE v == a.cell
             i == a.hive
             g == IF i.cell[k].Count > 0 THEN HvMarkCellsDirty(i, {i.cell[k].List}) ELSE i
             b == CmpAddValueToList(g, k, v, n, StoreOf(k))
  <2>1. CmiAddValueKey(h, k, name, n) =
          IF b.cell = HCELL_NIL THEN [hive |-> HvFreeCell(g, v), cell |-> HCELL_NIL]
          ELSE [hive |-> b.hive, cell |-> v]
    BY <1>6 DEF CmiAddValueKey, Listed
  <2> HIDE DEF a
  <2>2. v \in StoreOf(k) /\ v \in Stored /\ f[v] = Free /\ i = Put(h, v, x)
    BY <1>3, <1>4, <1>6 DEF Allocated
  <2> HIDE DEF v, i, x
  <2>3. /\ i \in Hives /\ i.cell[v] = x /\ \A c \in Cells \ {v} : i.cell[c] = f[c]
        /\ i.dirty = h.dirty \cup ({v} \cap Stable) /\ Marked(h, i)
    BY <1>1, <1>2, <2>2, PutFacts
  <2>4. Good(i, {v}, S)
    <3>1. {} \in SUBSET Stored /\ {} \cup {v} = {v}
      OBVIOUS
    <3>2. QED
      BY <1>2, <2>2, <3>1, NewValueFacts
  <2>5. i.cell[k] = f[k]
    BY <2>2, <2>3, StoreFacts DEF Keys, Cells
  <2>6. /\ g \in Hives /\ g.cell = i.cell /\ Marked(i, g) /\ i.dirty \subseteq g.dirty
        /\ i.cell[k].Count > 0 /\ i.cell[k].List \in Stable => i.cell[k].List \in g.dirty
    <3>1. CASE i.cell[k].Count > 0
      <4>1. g = HvMarkCellsDirty(i, {i.cell[k].List})
        BY <3>1
      <4> HIDE DEF g
      <4>2. QED
        BY <2>3, <4>1, MarkFacts
    <3>2. CASE ~(i.cell[k].Count > 0)
      <4>1. g = i
        BY <3>2
      <4> HIDE DEF g
      <4>2. QED
        BY <2>3, <3>2, <4>1 DEF Marked
    <3>3. QED
      BY <3>1, <3>2
  <2> HIDE DEF g
  <2>7. Marked(h, g)
    BY <2>3, <2>6, MarkedTwice
  <2>8. Good(g, {v}, S)
    BY <2>4, <2>6 DEF Good
  <2>9. MarkedList(g, k)
    <3>1. Listing(i.cell, k, {v} \cap StoreOf(k)) /\ i.cell \in CellsType
      BY <2>4 DEF Good, Sound
    <3>2. g.cell[k].Count # 0 => g.cell[k].Count > 0 /\ g.cell[k].List \in StoreOf(k)
      BY <2>6, <3>1, EntriesFacts
    <3>3. k \in Stable => StoreOf(k) \subseteq Stable
      BY StoreFacts, CellsAssumption DEF Stable, Keys
    <3>4. QED
      BY <2>3, <2>6, <3>2, <3>3 DEF MarkedList
  <2>10. Added(g, k, v, {v}, S, b)
    <3>1. v \in {v} \cap StoreOf(k) /\ g.cell[k].Count = n
      BY <2>2, <2>5, <2>6
    <3> HIDE DEF n
    <3>2. QED
      BY <2>8, <2>9, <3>1, AddFacts
  <2>11. g.cell[v] = x
    BY <2>3, <2>6
  <2> HIDE DEF b
  <2>12. CASE b.cell = HCELL_NIL
    <3> DEFINE j == HvFreeCell(g, v)
    <3>1. CmpFreeValue(g, v) = j
      BY <1>2, <2>11 DEF CmpFreeValue, CmpFreeValueData, HasData
    <3>2. IsFreed(g, v, j) /\ Good(j, {v} \ {v}, S)
      <4>1. {v} \in SUBSET Stored /\ v \in {v}
        BY <2>2
      <4> HIDE DEF j
      <4>2. QED
        BY <2>8, <3>1, <4>1, FreeValueFacts
    <3>3. r = [hive |-> j, cell |-> HCELL_NIL]
      BY <2>1, <2>12
    <3> HIDE DEF j
    <3>4. {v} \ {v} = {} /\ Marked(h, j)
      BY <2>7, <3>2, MarkedTwice DEF IsFreed
    <3>5. QED
      BY <3>2, <3>3, <3>4 DEF HasValue
  <2>13. CASE b.cell # HCELL_NIL
    <3>1. r = [hive |-> b.hive, cell |-> v]
      BY <2>1, <2>13
    <3>2. /\ Good(b.hive, {v} \ {v}, S) /\ Marked(g, b.hive)
          /\ \A c \in OfKind(g.cell, "value") : b.hive.cell[c] = g.cell[c]
      BY <2>10, <2>13 DEF Added
    <3>3. v \in OfKind(b.hive.cell, "value")
      BY <1>2, <2>2, <2>11, <3>2 DEF OfKind
    <3>4. {v} \ {v} = {} /\ Marked(h, b.hive)
      BY <2>7, <3>2, MarkedTwice
    <3>5. QED
      BY <3>1, <3>2, <3>3, <3>4 DEF HasValue
  <2>14. QED
    BY <2>12, <2>13
<1>7. QED
  BY <1>5, <1>6

-----------------------------------------------------------------------------
(* NTRegSetValueExW *)

LEMMA FoundFacts ==
  ASSUME NEW h, NEW S, Good(h, {}, S), NEW k \in Keys, k \in Stable => k \in h.dirty,
         NEW name \in Names
  PROVE  HasValue(h, S, Found(h, k, name))
<1> DEFINE p == CmpFindNameInList(h, k, name)
<1>1. CASE p = 0
  <2>1. Found(h, k, name) = CmiAddValueKey(h, k, name, h.cell[k].Count)
    BY <1>1 DEF Found
  <2>2. QED
    BY <2>1, AddValueFacts
<1>2. CASE p # 0
  <2>1. h.cell \in CellsType /\ Listing(h.cell, k, {} \cap StoreOf(k))
    BY DEF Good, Sound
  <2>2. {} \cap StoreOf(k) \in SUBSET StoreOf(k)
    OBVIOUS
  <2> DEFINE v == ValuesOf(h, k)[p]
  <2>3. v \in Range(Entries(h.cell, k))
    BY <1>2, <2>1, <2>2, FindFacts
  <2>4. v \in OfKind(h.cell, "value")
    BY <2>1, <2>2, <2>3, EntriesFacts
  <2>5. Found(h, k, name) = [hive |-> h, cell |-> v]
    BY <1>2 DEF Found
  <2> HIDE DEF v
  <2>6. QED
    BY <2>4, <2>5 DEF HasValue, Marked
<1>3. QED
  BY <1>1, <1>2

\* The value v has new contents, its old data are freed, and it may have new data.
LEMMA SetFacts ==
  ASSUME NEW h, NEW S, Good(h, {}, S), NEW v \in OfKind(h.cell, "value"), NEW g \in Hives,
         g.cell[v].kind = "value", WellMade(g.cell[v]),
         NEW new \in Stored \cup {HCELL_NIL}, g.cell[v].Data = new,
         new # HCELL_NIL => /\ g.cell[new].kind = "data"
                            /\ h.cell[new].kind = "free" \/ new = h.cell[v].Data
                            /\ v \in StableCells => new \in StableCells,
         h.cell[v].Data # HCELL_NIL /\ h.cell[v].Data # new => g.cell[h.cell[v].Data].kind = "free",
         \A c \in Cells : c # v /\ c # h.cell[v].Data /\ c # new => g.cell[c] = h.cell[c]
  PROVE  Good(g, {}, S)
<1> DEFINE f == h.cell
           d == f[v].Data
<1>1. f \in CellsType /\ Sound(f, {}, S) /\ Holding(f, S) /\ g.cell \in CellsType
  BY DEF Good, Sound, Hives
<1>2. /\ v \in Stored /\ f[v].kind = "value"
      /\ d # HCELL_NIL => d \in Stored /\ d # v /\ f[d].kind = "data"
  BY <1>1, ValueFacts DEF OfKind
<1>3. \A c \in Stored : c # v /\ c # d /\ c # new => g.cell[c] = f[c]
  BY StoreFacts
<1>4. \A k \in Keys : g.cell[k] = f[k]
  BY <1>2, CellsAssumption DEF Keys, Cells, Stored
<1>5. Holding(g.cell, S)
  <2>1. CASE new = HCELL_NIL
    <3>1. \A c \in Stored : c # v /\ c # d => SameToData(f, g.cell, c)
      BY <1>3, <2>1, StoreFacts DEF SameToData
    <3>2. d # HCELL_NIL => g.cell[d].kind = "free"
      BY <2>1
    <3> HIDE DEF f
    <3>3. QED
      BY <1>1, <2>1, <3>1, <3>2, HoldingReleased DEF f, d
  <2>2. CASE new # HCELL_NIL /\ new = d
    <3>1. \A c \in Stored : c # v /\ c # d => SameToData(f, g.cell, c)
      BY <1>3, <2>2 DEF SameToData
    <3>2. d # HCELL_NIL /\ g.cell[v].Data = d /\ g.cell[d].kind = "data"
      BY <2>2
    <3> HIDE DEF f
    <3>3. QED
      BY <1>1, <3>1, <3>2, HoldingOverwritten DEF f, d
  <2>3. CASE new # HCELL_NIL /\ new # d
    <3>1. \A c \in Stored : c # v /\ c # new /\ c # d => SameToData(f, g.cell, c)
      BY <1>3 DEF SameToData
    <3>2. /\ new \in Stored /\ f[new].kind = "free" /\ g.cell[new].kind = "data"
          /\ v \in StableCells => new \in StableCells
          /\ d # HCELL_NIL => g.cell[d].kind = "free"
      BY <2>3
    <3> HIDE DEF f
    <3>3. QED
      BY <1>1, <3>1, <3>2, HoldingAttached DEF f, d
  <2>4. QED
    BY <2>1, <2>2, <2>3
<1>6. \A c \in Stored : SameToLists(f, g.cell, c)
  <2> SUFFICES ASSUME NEW c \in Stored PROVE SameToLists(f, g.cell, c)
    OBVIOUS
  <2>1. CASE c = v
    BY <1>2, <2>1 DEF SameToLists
  <2>2. CASE c # v /\ c = new
    BY <1>2, <2>2, StoreFacts DEF SameToLists
  <2>3. CASE c # v /\ c # new /\ c = d
    BY <1>2, <2>3, StoreFacts DEF SameToLists
  <2>4. CASE c # v /\ c # new /\ c # d
    BY <1>3, <2>4 DEF SameToLists
  <2>5. QED
    BY <2>1, <2>2, <2>3, <2>4
<1>7. {} \in SUBSET Stored
  OBVIOUS
<1> HIDE DEF f
<1>8. Sound(g.cell, {}, S)
  BY <1>1, <1>4, <1>5, <1>6, <1>7, SoundData
<1>9. QED
  BY <1>8 DEF Good

LEMMA SetInlineFacts ==
  ASSUME NEW h, NEW S, Good(h, {}, S), NEW v \in OfKind(h.cell, "value"), NEW p \in Payloads
  PROVE  Good(SetInline(h, v, p), {}, S) /\ Marked(h, SetInline(h, v, p))
<1> DEFINE f == h.cell
           d == f[v].Data
           x == [f[v] EXCEPT !.Small = TRUE, !.Inline = p, !.Length = 0, !.Data = HCELL_NIL]
           i == IF f[v].Length > 0 THEN HvFreeCell(h, d) ELSE h
           g == Put(i, v, x)
<1>1. h \in Hives /\ f \in CellsType /\ Sound(f, {}, S)
  BY DEF Good, Sound
<1>2. /\ v \in Stored /\ f[v] \in ValueContents
      /\ f[v].Length > 0 <=> d # HCELL_NIL
      /\ d # HCELL_NIL => d \in Stored /\ d # v
  BY <1>1, ValueFacts
<1>3. x \in ValueContents /\ x \in StoredContents /\ WellMade(x) /\ x.Data = HCELL_NIL
      /\ x.kind = "value"
  BY <1>2 DEF ValueContents, WellMade, StoredContents
<1>4. SetInline(h, v, p) = g
  BY DEF SetInline
<1>5. /\ i \in Hives /\ Marked(h, i)
      /\ d # HCELL_NIL => i.cell[d] = Free
      /\ \A c \in Cells : c # d => i.cell[c] = f[c]
  <2>1. CASE d # HCELL_NIL
    <3>1. i = Put(h, d, Free) /\ d \in Stored
      BY <1>2, <2>1 DEF HvFreeCell
    <3> HIDE DEF i, d
    <3>2. QED
      BY <1>1, <3>1, PutFacts, FreeIsStored
  <2>2. CASE d = HCELL_NIL
    <3>1. i = h
      BY <1>2, <2>2
    <3> HIDE DEF i
    <3>2. QED
      BY <1>1, <2>2, <3>1 DEF Marked
  <2>3. QED
    BY <2>1, <2>2
<1> HIDE DEF i, d, x
<1>6. /\ g \in Hives /\ Marked(i, g) /\ g.cell[v] = x
      /\ \A c \in Cells \ {v} : g.cell[c] = i.cell[c]
  BY <1>2, <1>3, <1>5, PutFacts
<1> HIDE DEF g
<1>7. Marked(h, g)
  BY <1>5, <1>6, MarkedTwice
<1>8. /\ d # HCELL_NIL => g.cell[d].kind = "free"
      /\ \A c \in Cells : c # v /\ c # d => g.cell[c] = f[c]
  BY <1>2, <1>5, <1>6, StoreFacts DEF Free
<1>9. Good(g, {}, S)
  <2> DEFINE n == HCELL_NIL
  <2>1. /\ n \in Stored \cup {HCELL_NIL} /\ g.cell[v].Data = n
        /\ g.cell[v].kind = "value" /\ WellMade(g.cell[v])
    BY <1>3, <1>6
  <2>2. h.cell[v].Data # HCELL_NIL => g.cell[h.cell[v].Data].kind = "free"
    BY <1>8 DEF d
  <2>3. \A c \in Cells : c # v /\ c # h.cell[v].Data => g.cell[c] = h.cell[c]
    BY <1>8 DEF d
  <2>4. QED
    BY <1>6, <2>1, <2>2, <2>3, SetFacts
<1>10. QED
  BY <1>4, <1>7, <1>9

\* The value v has the data p in the cell d.
IsWithData(h, v, d, p, g) ==
  /\ g \in Hives /\ Marked(h, g)
  /\ g.cell[v].kind = "value" /\ WellMade(g.cell[v]) /\ g.cell[v].Data = d
  /\ g.cell[d].kind = "data"
  /\ \A c \in Cells : c # v /\ c # d => g.cell[c] = h.cell[c]

LEMMA WithDataFacts ==
  ASSUME NEW h \in Hives, NEW v \in Stored, NEW d \in Stored, v # d,
         h.cell[v] \in ValueContents, h.cell[d] \in DataContents,
         NEW p \in Payloads, LengthOf[p] > 4
  PROVE  IsWithData(h, v, d, p, WithData(h, v, d, p))
<1> DEFINE y == [h.cell[d] EXCEPT !.Bytes = p]
           x == [h.cell[v] EXCEPT !.Small = FALSE, !.Inline = None, !.Length = LengthOf[p], !.Data = d]
           i == Put(h, d, y)
           g == Put(i, v, x)
<1>1. WithData(h, v, d, p) = g
  BY DEF WithData
<1>2. y \in StoredContents /\ y.kind = "data"
  BY DEF DataContents, StoredContents
<1>3. LengthOf[p] \in Nat /\ d # HCELL_NIL
  BY SizesAssumption, StoreFacts
<1>4. x \in ValueContents /\ x \in StoredContents /\ WellMade(x) /\ x.Data = d /\ x.kind = "value"
  <2>1. x \in ValueContents
    BY <1>3 DEF ValueContents
  <2>2. x.Small = FALSE /\ x.Length = LengthOf[p] /\ x.Data = d /\ x.kind = "value"
    BY DEF ValueContents
  <2>3. x.Length # 0
    BY <1>3, <2>2
  <2> HIDE DEF x
  <2>4. QED
    BY <1>3, <2>1, <2>2, <2>3 DEF StoredContents, WellMade
<1> HIDE DEF x, y
<1>5. /\ i \in Hives /\ i.cell[d] = y /\ Marked(h, i)
      /\ \A c \in Cells \ {d} : i.cell[c] = h.cell[c]
  BY <1>2, PutFacts
<1> HIDE DEF i
<1>6. /\ g \in Hives /\ g.cell[v] = x /\ Marked(i, g)
      /\ \A c \in Cells \ {v} : g.cell[c] = i.cell[c]
  BY <1>4, <1>5, PutFacts
<1> HIDE DEF g
<1>7. Marked(h, g)
  BY <1>5, <1>6, MarkedTwice
<1>8. g.cell[d] = y /\ \A c \in Cells : c # v /\ c # d => g.cell[c] = h.cell[c]
  BY <1>5, <1>6, StoreFacts
<1>9. QED
  BY <1>1, <1>2, <1>4, <1>6, <1>7, <1>8 DEF IsWithData

LEMMA SetDataFacts ==
  ASSUME NEW h, NEW S, Good(h, {}, S), NEW v \in OfKind(h.cell, "value"), NEW p \in Payloads,
         LengthOf[p] > 4
  PROVE  Good(SetData(h, v, p), {}, S) /\ Marked(h, SetData(h, v, p))
<1> DEFINE f == h.cell
           old == f[v].Data
<1>1. h \in Hives /\ f \in CellsType /\ Sound(f, {}, S)
  BY DEF Good, Sound
<1>2. /\ v \in Stored /\ f[v] \in ValueContents /\ f[v].kind = "value"
      /\ f[v].Length > 0 <=> old # HCELL_NIL
      /\ old # HCELL_NIL => /\ old \in Stored /\ old # v /\ f[old] \in DataContents
                            /\ f[old].kind = "data"
                            /\ v \in StableCells => old \in StableCells
  BY <1>1, ValueFacts DEF OfKind
<1>3. LengthOf[p] \in Nat
  BY SizesAssumption
<1>4. CASE ~(LengthOf[p] > DataCellSize(h, v))
  <2>1. f[v].Length > 0
    BY <1>3, <1>4 DEF DataCellSize
  <2>2. old \in Stored /\ old # v /\ f[old] \in DataContents /\ f[old].kind = "data"
        /\ (v \in StableCells => old \in StableCells) /\ old # HCELL_NIL
    BY <1>2, <2>1
  <2> DEFINE g == WithData(h, v, old, p)
  <2>3. SetData(h, v, p) = g
    BY <1>4 DEF SetData
  <2>4. IsWithData(h, v, old, p, g)
    <3> HIDE DEF old, g
    <3>1. QED
      BY <1>1, <1>2, <2>2, WithDataFacts DEF g
  <2> HIDE DEF g
  <2>5. Good(g, {}, S)
    <3>1. /\ g \in Hives /\ g.cell[v].kind = "value" /\ WellMade(g.cell[v])
          /\ old \in Stored \cup {HCELL_NIL} /\ g.cell[v].Data = old /\ g.cell[old].kind = "data"
      BY <2>2, <2>4 DEF IsWithData
    <3>2. \A c \in Cells : c # v /\ c # h.cell[v].Data /\ c # old => g.cell[c] = h.cell[c]
      BY <2>4 DEF IsWithData
    <3>3. QED
      BY <2>2, <3>1, <3>2, SetFacts
  <2>6. QED
    BY <2>3, <2>4, <2>5 DEF IsWithData
<1>5. CASE LengthOf[p] > DataCellSize(h, v)
  <2> DEFINE y == Data(p, CellSize(LengthOf[p]))
             a == NewData(h, v, p)
             d == a.cell
             i == a.hive
             j == IF i.cell[v].Length > 0 THEN HvFreeCell(i, i.cell[v].Data) ELSE i
             g == WithData(j, v, d, p)
  <2>1. y \in DataContents /\ y \in StoredContents
    BY <1>3, CellSizeFacts DEF DataContents, StoredContents, Data
  <2>2. Allocated(h, StableCells, y, a)
    <3>1. StableCells \in Stores
      BY DEF Stores
    <3>2. QED
      BY <3>1, AllocateFacts DEF NewData
  <2>3. SetData(h, v, p) = IF d = HCELL_NIL THEN i ELSE g
    BY <1>5 DEF SetData, Replaced
  <2>4. StableCells \subseteq Stored /\ HCELL_NIL \notin Stored
    BY StoreFacts DEF Stored
  <2> HIDE DEF a, y
  <2>5. CASE d = HCELL_NIL
    <3>1. i = h
      BY <2>2, <2>4, <2>5 DEF Allocated
    <3>2. SetData(h, v, p) = h
      BY <2>3, <2>5, <3>1
    <3>3. QED
      BY <3>2 DEF Marked
  <2>6. CASE d # HCELL_NIL
    <3>1. d \in StableCells /\ d \in Stored /\ f[d] = Free /\ i = Put(h, d, y)
      BY <2>2, <2>4, <2>6 DEF Allocated
    <3>2. f[d].kind = "free" /\ d # v /\ d # old
      BY <1>2, <3>1, StoreFacts DEF Free
    <3> HIDE DEF d, i
    <3>3. /\ i \in Hives /\ Marked(h, i) /\ i.cell[d] = y
          /\ \A c \in Cells \ {d} : i.cell[c] = f[c]
      BY <1>1, <2>1, <3>1, PutFacts
    <3>4. i.cell[v] = f[v]
      BY <1>2, <3>2, <3>3, StoreFacts
    <3>5. /\ j \in Hives /\ Marked(i, j)
          /\ old # HCELL_NIL => j.cell[old] = Free
          /\ \A c \in Cells : c # old => j.cell[c] = i.cell[c]
      <4>1. CASE old # HCELL_NIL
        <5>1. j = Put(i, old, Free) /\ old \in Stored
          BY <1>2, <3>4, <4>1 DEF HvFreeCell
        <5> HIDE DEF j, old
        <5>2. QED
          BY <3>3, <5>1, PutFacts, FreeIsStored
      <4>2. CASE old = HCELL_NIL
        <5>1. j = i
          BY <1>2, <3>4, <4>2
        <5> HIDE DEF j
        <5>2. QED
          BY <3>3, <4>2, <5>1 DEF Marked
      <4>3. QED
        BY <4>1, <4>2
    <3> HIDE DEF j, old
    <3>6. j.cell[v] = f[v] /\ j.cell[d] = y
      BY <1>2, <3>1, <3>2, <3>3, <3>4, <3>5, StoreFacts
    <3>7. IsWithData(j, v, d, p, g)
      <4>1. v # d /\ j.cell[v] \in ValueContents /\ j.cell[d] \in DataContents
        BY <1>2, <2>1, <3>2, <3>6
      <4> HIDE DEF g
      <4>2. QED
        BY <1>2, <3>1, <3>5, <4>1, WithDataFacts DEF g
    <3> HIDE DEF g
    <3>8. Marked(h, g)
      <4>1. Marked(h, j)
        BY <3>3, <3>5, MarkedTwice
      <4>2. Marked(j, g)
        BY <3>7 DEF IsWithData
      <4>3. QED
        BY <4>1, <4>2, MarkedTwice
    <3>9. Good(g, {}, S)
      <4>1. /\ g \in Hives /\ g.cell[v].kind = "value" /\ WellMade(g.cell[v])
            /\ d \in Stored \cup {HCELL_NIL} /\ g.cell[v].Data = d /\ g.cell[d].kind = "data"
        BY <3>1, <3>7 DEF IsWithData
      <4>2. old # HCELL_NIL => g.cell[old].kind = "free"
        BY <1>2, <3>2, <3>5, <3>7, StoreFacts DEF IsWithData, Free
      <4>3. \A c \in Cells : c # v /\ c # old /\ c # d => g.cell[c] = f[c]
        BY <3>3, <3>5, <3>7 DEF IsWithData
      <4>4. QED
        BY <3>1, <3>2, <4>1, <4>2, <4>3, SetFacts DEF old
    <3>10. SetData(h, v, p) = g
      BY <2>3, <2>6
    <3>11. QED
      BY <3>8, <3>9, <3>10
  <2>7. QED
    BY <2>5, <2>6
<1>6. QED
  BY <1>4, <1>5

\* NTRegSetValueExW finds or enters the value and then sets its data.
LEMMA SetValueFacts ==
  ASSUME NEW h, NEW S, Good(h, {}, S), NEW k \in Keys, NEW name \in Names, NEW p \in Payloads,
         NEW r, r = Found(HvMarkCellsDirty(h, {k}), k, name),
         NEW g, g = CASE r.cell = HCELL_NIL -> r.hive
                      [] r.cell # HCELL_NIL /\ LengthOf[p] <= 4 -> SetInline(r.hive, r.cell, p)
                      [] OTHER -> SetData(r.hive, r.cell, p)
  PROVE  Good(g, {}, S) /\ Marked(h, g)
<1> DEFINE i == HvMarkCellsDirty(h, {k})
<1>1. /\ i \in Hives /\ i.cell = h.cell /\ i.dirty = h.dirty \cup ({k} \cap Stable)
      /\ Marked(h, i)
  BY MarkFacts DEF Good
<1> HIDE DEF i
<1>2. Good(i, {}, S) /\ (k \in Stable => k \in i.dirty)
  BY <1>1 DEF Good
<1>3. HasValue(i, S, r)
  <2>1. HasValue(i, S, Found(i, k, name))
    BY <1>2, FoundFacts
  <2>2. QED
    BY <2>1 DEF i
<1>4. Good(r.hive, {}, S) /\ Marked(h, r.hive)
  BY <1>1, <1>3, MarkedTwice DEF HasValue
<1>5. CASE r.cell = HCELL_NIL
  <2>1. g = r.hive
    BY <1>5
  <2>2. QED
    BY <1>4, <2>1
<1>6. CASE r.cell # HCELL_NIL /\ LengthOf[p] <= 4
  <2>1. g = SetInline(r.hive, r.cell, p)
    BY <1>6
  <2>2. r.cell \in OfKind(r.hive.cell, "value")
    BY <1>3, <1>6 DEF HasValue
  <2> DEFINE b == SetInline(r.hive, r.cell, p)
  <2>3. Good(b, {}, S) /\ Marked(r.hive, b)
    BY <1>4, <2>2, SetInlineFacts
  <2> HIDE DEF b
  <2>4. Marked(h, b)
    BY <1>4, <2>3, MarkedTwice
  <2>5. QED
    BY <2>1, <2>3, <2>4 DEF b
<1>7. CASE r.cell # HCELL_NIL /\ ~(LengthOf[p] <= 4)
  <2>1. g = SetData(r.hive, r.cell, p)
    BY <1>7
  <2>2. r.cell \in OfKind(r.hive.cell, "value") /\ LengthOf[p] > 4
    BY <1>3, <1>7, SizesAssumption DEF HasValue
  <2> DEFINE b == SetData(r.hive, r.cell, p)
  <2>3. Good(b, {}, S) /\ Marked(r.hive, b)
    BY <1>4, <2>2, SetDataFacts
  <2> HIDE DEF b
  <2>4. Marked(h, b)
    BY <1>4, <2>3, MarkedTwice
  <2>5. QED
    BY <2>1, <2>3, <2>4 DEF b
<1>8. QED
  BY <1>5, <1>6, <1>7

-----------------------------------------------------------------------------
(* NTRegDeleteValueW *)

\* The key k is written.
IsKeyPut(i, k, x, g) ==
  /\ g \in Hives /\ g.dirty = i.dirty /\ g.cell[k] = x
  /\ \A a \in Cells \ {k} : g.cell[a] = i.cell[a]

LEMMA KeyPutFacts ==
  ASSUME NEW i \in Hives, NEW k \in Keys, NEW x \in KeyContents
  PROVE  IsKeyPut(i, k, x, [i EXCEPT !.cell[k] = x])
<1> DEFINE f == [i.cell EXCEPT ![k] = x]
           g == [i EXCEPT !.cell[k] = x]
<1>1. k \in Cells /\ k \notin Stored
  BY StoreFacts DEF Keys, Cells
<1>2. i.cell \in CellsType /\ i.dirty \subseteq Stable /\ i = [cell |-> i.cell, dirty |-> i.dirty]
  BY DEF Hives
<1>3. \A a \in Cells : f[a] = IF a = k THEN x ELSE i.cell[a]
  BY <1>2 DEF CellsType
<1>4. f \in [Cells -> KeyContents \cup StoredContents]
  BY <1>2 DEF CellsType
<1>5. g = [cell |-> f, dirty |-> i.dirty]
  BY <1>2
<1> HIDE DEF f
<1>6. f \in CellsType
  BY <1>1, <1>2, <1>3, <1>4, StoreFacts DEF CellsType, Keys, Cells
<1>7. g \in Hives /\ g.cell = f /\ g.dirty = i.dirty
  BY <1>2, <1>5, <1>6 DEF Hives
<1> HIDE DEF g
<1>8. IsKeyPut(i, k, x, g)
  BY <1>1, <1>3, <1>7 DEF IsKeyPut
<1>9. QED
  BY <1>8 DEF g

\* The list in the cell l is written anew.
IsListPut(i, l, s, g) ==
  /\ g \in Hives /\ g.dirty = i.dirty
  /\ g.cell[l].kind = "list" /\ g.cell[l].KeyList = s /\ g.cell[l].Size = i.cell[l].Size
  /\ \A a \in Cells \ {l} : g.cell[a] = i.cell[a]

LEMMA ListPutFacts ==
  ASSUME NEW i \in Hives, NEW l \in Stored, i.cell[l] \in ListContents, NEW s \in Seq(Stored)
  PROVE  IsListPut(i, l, s, [i EXCEPT !.cell[l].KeyList = s])
<1> DEFINE x == [i.cell[l] EXCEPT !.KeyList = s]
           f == [i.cell EXCEPT ![l] = x]
           g == [i EXCEPT !.cell[l].KeyList = s]
<1>1. i.cell \in CellsType /\ i.dirty \subseteq Stable /\ i = [cell |-> i.cell, dirty |-> i.dirty]
  BY DEF Hives
<1>2. /\ x \in StoredContents /\ x.kind = "list" /\ x.KeyList = s
      /\ x.Size = i.cell[l].Size
  BY DEF ListContents, StoredContents
<1>3. g = [cell |-> f, dirty |-> i.dirty]
  BY <1>1
<1> HIDE DEF x
<1>4. f \in CellsType
  BY <1>1, <1>2, PutType
<1>5. \A a \in Cells : f[a] = IF a = l THEN x ELSE i.cell[a]
  BY <1>1 DEF CellsType
<1> HIDE DEF f
<1>6. g \in Hives /\ g.cell = f /\ g.dirty = i.dirty
  BY <1>1, <1>3, <1>4 DEF Hives
<1> HIDE DEF g
<1>7. IsListPut(i, l, s, g)
  BY <1>2, <1>5, <1>6, StoreFacts DEF IsListPut
<1>8. QED
  BY <1>7 DEF g

\* The value v is taken off the list of the key k; the hive is sound again when v
\* has been freed.
Removed(h, k, v, S, g) ==
  /\ Good(g, {v}, S) /\ Marked(h, g)
  /\ \A c \in OfKind(h.cell, "value") : g.cell[c] = h.cell[c]

\* In the hive i the list of the key k has been freed, unless it is l; in the hive g
\* what is left of it, s, is in the cell l, if anything is left.
ListLeft(h, k, s, i, g, l) ==
  /\ i \in Hives /\ Marked(h, i) /\ g \in Hives /\ g.dirty = i.dirty
  /\ g.cell[k] = CHILD_LIST(Len(s), l)
  /\ s # << >> => /\ l \in StoreOf(k) /\ g.cell[l].kind = "list" /\ g.cell[l].KeyList = s
                  /\ EntrySize * Len(s) <= g.cell[l].Size
                  /\ h.cell[l].kind \in {"free", "list"}
                  /\ l \in Stable => l \in i.dirty \/ l = h.cell[k].List
  /\ \A c \in Cells : c # k /\ (s # << >> => c # l) => g.cell[c] = i.cell[c]
  /\ \A c \in Cells : \/ (s # << >> /\ c = l) \/ c = k \/ i.cell[c] = h.cell[c]
                      \/ c \in StoreOf(k) /\ h.cell[c].kind = "list" /\ i.cell[c].kind = "free"
  /\ \A c \in StoreOf(k) : h.cell[c].kind = "list" =>
                             (s # << >> /\ c = l) \/ i.cell[c].kind = "free"

LEMMA RemovedListing ==
  ASSUME NEW h, NEW k \in Keys, NEW S, NEW v, Good(h, {}, S), MarkedList(h, k),
         NEW s \in Seq(StoreOf(k)), IsInjective(s), v \in Range(Entries(h.cell, k)),
         Range(s) = Range(Entries(h.cell, k)) \ {v},
         NEW i, NEW g, NEW l, ListLeft(h, k, s, i, g, l)
  PROVE  Removed(h, k, v, S, g)
<1> DEFINE f == h.cell
           e == Entries(f, k)
           X == {} \cap StoreOf(k)
           Y == {v} \cap StoreOf(k)
<1>1. /\ f \in CellsType /\ Sound(f, {}, S) /\ Listing(f, k, X) /\ Holding(f, S) /\ h \in Hives
      /\ g.cell \in CellsType /\ g \in Hives
  BY DEF Good, Sound, Hives, ListLeft
<1>2. X \in SUBSET StoreOf(k) /\ Y \in SUBSET StoreOf(k) /\ X = {}
  OBVIOUS
<1>3. Range(e) \subseteq StoreOf(k) /\ v \in StoreOf(k) /\ f[k].Count # 0
  <2>1. Range(e) \subseteq StoreOf(k) /\ (f[k].Count = 0 <=> e = << >>)
    BY <1>1, <1>2, EntriesFacts
  <2>2. e # << >>
    BY DEF Range
  <2>3. QED
    BY <2>1, <2>2
<1>4. StoreOf(k) \subseteq Stored /\ k \notin Stored /\ k \in Cells
      /\ \A c \in Stored : c \in Cells /\ c # k
  BY StoreFacts DEF Keys, Cells
<1>5. g.cell[k].Count = Len(s) /\ g.cell[k].List = l
  BY DEF CHILD_LIST, ListLeft
<1>6. \A c \in Stored : \/ /\ s # << >> /\ c = l /\ c \in StoreOf(k)
                           /\ f[c].kind \in {"free", "list"} /\ g.cell[c].kind = "list"
                        \/ g.cell[c] = f[c]
                        \/ c \in StoreOf(k) /\ f[c].kind = "list" /\ g.cell[c].kind = "free"
  BY <1>4 DEF ListLeft
<1>7. \A c \in StoreOf(k) : f[c].kind = "list" => (s # << >> /\ c = l) \/ g.cell[c].kind = "free"
  BY <1>4 DEF ListLeft
<1>8. Listing(g.cell, k, Y)
  <2>1. Range(s) \cup Y = Range(Entries(f, k)) \cup X /\ Range(s) \cap Y = {}
    BY <1>2, <1>3
  <2>2. s # << >> => /\ g.cell[k].List \in StoreOf(k) /\ f[g.cell[k].List].kind \in {"free", "list"}
                     /\ g.cell[g.cell[k].List].kind = "list" /\ g.cell[g.cell[k].List].KeyList = s
                     /\ EntrySize * Len(s) <= g.cell[g.cell[k].List].Size
    BY <1>5 DEF ListLeft
  <2>3. \A c \in StoreOf(k) : \/ s # << >> /\ c = g.cell[k].List
                              \/ f[c].kind = "list" /\ g.cell[c].kind = "free"
                              \/ f[c].kind # "list" /\ SameToLists(f, g.cell, c)
    <3>1. ASSUME NEW c \in StoreOf(k), ~(s # << >> /\ c = l)
          PROVE  \/ f[c].kind = "list" /\ g.cell[c].kind = "free"
                 \/ f[c].kind # "list" /\ g.cell[c] = f[c]
      BY <1>4, <1>6, <1>7, <3>1
    <3> HIDE DEF f
    <3>2. QED
      BY <1>5, <3>1 DEF SameToLists
  <2> HIDE DEF f, X, Y
  <2>4. QED
    BY <1>1, <1>2, <1>5, <2>1, <2>2, <2>3, ListingChanged
<1>9. \A c \in Stored : SameToData(f, g.cell, c)
  BY <1>6 DEF SameToData
<1>10. Holding(g.cell, S)
  BY <1>1, <1>9, HoldingKept
<1>11. Sound(g.cell, {v}, S)
  <2>1. {} \ StoreOf(k) = {v} \ StoreOf(k)
    BY <1>3
  <2>2. \A j \in Keys \ {k} : g.cell[j] = f[j]
    <3>1. \A j \in Keys \ {k} : j \in Cells /\ j \notin StoreOf(k)
      BY <1>4, StoreFacts DEF Keys, Cells
    <3>2. QED
      BY <3>1 DEF ListLeft
  <2>3. \A c \in Stored \ StoreOf(k) : SameToLists(f, g.cell, c)
    BY <1>6 DEF SameToLists
  <2> HIDE DEF f
  <2>4. QED
    BY <1>1, <1>8, <1>10, <2>1, <2>2, <2>3, SoundAgain
<1>12. Marked(h, g)
  <2> SUFFICES ASSUME NEW c \in Stable, g.cell[c] # f[c] PROVE c \in i.dirty
    BY DEF Marked, ListLeft
  <2>1. h.dirty \subseteq i.dirty /\ (i.cell[c] = f[c] \/ c \in i.dirty) /\ c \in Cells
    BY DEF Marked, Stable, Cells, ListLeft
  <2>2. CASE c = k
    BY <2>1, <2>2 DEF MarkedList
  <2>3. CASE s # << >> /\ c = l
    <3>1. k \in Stable
      BY <2>3, StoreFacts, CellsAssumption DEF Stable, Keys, StoreOf, ListLeft
    <3>2. QED
      BY <1>3, <2>1, <2>3, <3>1 DEF MarkedList, ListLeft
  <2>4. CASE c # k /\ ~(s # << >> /\ c = l)
    BY <2>1, <2>4 DEF ListLeft
  <2>5. QED
    BY <2>2, <2>3, <2>4
<1>13. \A c \in OfKind(f, "value") : g.cell[c] = f[c]
  BY <1>6 DEF OfKind
<1>14. QED
  BY <1>1, <1>11, <1>12, <1>13 DEF Removed, Good

LEMMA RemoveValueFacts ==
  ASSUME NEW h, NEW k \in Keys, NEW S, Good(h, {}, S), MarkedList(h, k),
         NEW p \in DOMAIN Entries(h.cell, k)
  PROVE  Removed(h, k, Entries(h.cell, k)[p], S, CmpRemoveValueFromList(h, k, p))
<1> DEFINE f == h.cell
           e == Entries(f, k)
           v == e[p]
           n == f[k].Count
           c == f[k].List
           X == {} \cap StoreOf(k)
           g == CmpRemoveValueFromList(h, k, p)
           s == RemoveAt(e, p)
<1>1. f \in CellsType /\ Listing(f, k, X) /\ h \in Hives /\ X \in SUBSET StoreOf(k)
  BY DEF Good, Sound
<1>2. ValuesOf(h, k) = e
  BY <1>1, ValuesAreEntries
<1>3. n # 0 => EntrySize * n <= f[c].Size
  BY <1>1 DEF Listing
<1>4. e \in Seq(StoreOf(k)) /\ Len(e) = n /\ IsInjective(e) /\ p \in DOMAIN e
  BY <1>1 DEF Listing
<1>5. DOMAIN e = 1 .. n /\ n \in Nat /\ n # 0 /\ v \in Range(e) /\ v \in StoreOf(k)
  <2> HIDE DEF e, n
  <2>1. DOMAIN e = 1 .. n /\ n \in Nat
    BY <1>4
  <2>2. QED
    BY <1>4, <2>1 DEF Range
<1>6. /\ s \in Seq(StoreOf(k)) /\ Len(s) = n - 1 /\ IsInjective(s) /\ Range(s) = Range(e) \ {v}
  <2> HIDE DEF e, n
  <2>1. QED
    BY <1>4, RemoveFacts
<1>7. /\ c \in StoreOf(k) /\ f[c] \in ListContents /\ f[c].kind = "list"
      /\ OfKind(f, "list") \cap StoreOf(k) = {c}
  <2>1. c \in StoreOf(k) /\ f[c] \in ListContents
    BY <1>1, <1>5, EntriesFacts
  <2>2. QED
    BY <1>1, <1>5, <2>1 DEF Listing, ListContents
<1>8. /\ StoreOf(k) \subseteq Stored /\ k \notin Stored /\ k \in Cells /\ HCELL_NIL \notin Stored
      /\ \A a \in Stored : a \in Cells /\ a # k
      /\ HvGetCellType(c) = StoreOf(k)
  BY <1>7, StoreFacts DEF Keys, Cells
<1>9. \A a \in StoreOf(k) : f[a].kind = "list" => a = c
  BY <1>7, <1>8 DEF OfKind
<1>10. EntrySize \in Nat /\ f[c].Size \in Nat
  BY <1>7, SizesAssumption DEF ListContents
<1>11. CASE n > 1
  <2> DEFINE m == EntrySize * (n - 1)
             r == HvReallocateCell(h, c, m)
             l == r.cell
             i == r.hive
             x == CHILD_LIST(Len(s), l)
             j == [i EXCEPT !.cell[k] = x]
  <2>1. g = [i EXCEPT !.cell[k] = x, !.cell[l].KeyList = s]
    <3>1. g = Shortened(r, k, s)
      BY <1>2, <1>11 DEF CmpRemoveValueFromList
    <3> HIDE DEF r, g, s
    <3>2. QED
      BY <3>1 DEF Shortened
  <2>2. m \in Nat /\ m <= f[c].Size
    <3>1. m \in Nat /\ m <= EntrySize * n
      <4> HIDE DEF n
      <4>1. QED
        BY <1>5, <1>10, <1>11
    <3>2. EntrySize * n <= f[c].Size /\ EntrySize * n \in Nat
      <4>1. EntrySize * n \in Nat
        <5> HIDE DEF n
        <5>1. QED
          BY <1>5, <1>10
      <4>2. QED
        BY <1>3, <1>5, <4>1
    <3> HIDE DEF m, n
    <3>3. QED
      BY <1>10, <3>1, <3>2
  <2>3. Reallocated(h, c, m, r) /\ (l = HCELL_NIL => m > f[c].Size)
    <3>1. c \in Stored
      BY <1>7, <1>8
    <3> HIDE DEF m, c
    <3>2. QED
      BY <1>1, <1>7, <2>2, <3>1, ReallocateFacts
  <2>4. l # HCELL_NIL
    <3> HIDE DEF l, m
    <3>1. QED
      BY <1>10, <2>2, <2>3
  <2> HIDE DEF r, m, c
  <2>5. /\ l \in StoreOf(k) /\ i \in Hives /\ Marked(h, i) /\ i.cell[l].kind = "list"
        /\ i.cell[l].Size \in Nat /\ m <= i.cell[l].Size
        /\ \/ l = c /\ i = h
           \/ /\ l # c /\ f[l] = Free /\ i.cell[c] = Free
              /\ l \in Stable => l \in i.dirty
              /\ \A a \in Cells \ {c, l} : i.cell[a] = f[a]
    BY <1>8, <2>3, <2>4 DEF Reallocated
  <2> HIDE DEF l, i
  <2>6. x \in KeyContents /\ l \in Stored /\ l \in Cells /\ l # k
    <3>1. Len(s) \in Nat
      <4> HIDE DEF s, n
      <4>1. QED
        BY <1>5, <1>6, <1>11
    <3>2. l \in Stored
      BY <1>8, <2>5
    <3> HIDE DEF s
    <3>3. QED
      BY <1>8, <3>1, <3>2 DEF KeyContents, CHILD_LIST
  <2>7. IsKeyPut(i, k, x, j)
    <3> HIDE DEF x
    <3>1. QED
      BY <2>5, <2>6, KeyPutFacts
  <2> HIDE DEF x, j
  <2>8. j \in Hives /\ j.cell[l] = i.cell[l] /\ j.cell[l] \in ListContents
    <3>1. j \in Hives /\ j.cell[l] = i.cell[l]
      BY <2>6, <2>7 DEF IsKeyPut
    <3>2. j.cell \in CellsType
      BY <3>1 DEF Hives
    <3>3. QED
      BY <2>5, <2>6, <3>1, <3>2, KindFacts
  <2>9. g = [j EXCEPT !.cell[l].KeyList = s]
    <3> HIDE DEF g, s
    <3>1. QED
      BY <2>1 DEF j
  <2>10. s \in Seq(Stored)
    <3> HIDE DEF s
    <3>1. QED
      BY <1>6, <1>8
  <2>11. IsListPut(j, l, s, g)
    <3> HIDE DEF g, s
    <3>1. QED
      BY <2>6, <2>8, <2>9, <2>10, ListPutFacts
  <2> HIDE DEF g, s
  <2>12. /\ g \in Hives /\ g.dirty = i.dirty /\ g.cell[k] = CHILD_LIST(Len(s), l)
         /\ g.cell[l].kind = "list" /\ g.cell[l].KeyList = s /\ g.cell[l].Size = i.cell[l].Size
         /\ \A a \in Cells : a # k /\ a # l => g.cell[a] = i.cell[a]
    BY <1>8, <2>6, <2>7, <2>8, <2>11 DEF IsKeyPut, IsListPut, x
  <2>13. /\ EntrySize * Len(s) <= g.cell[l].Size
         /\ f[l].kind \in {"free", "list"}
         /\ l \in Stable => l \in i.dirty \/ l = f[k].List
    <3>1. EntrySize * Len(s) <= g.cell[l].Size
      BY <1>6, <2>5, <2>12 DEF m
    <3>2. f[l].kind \in {"free", "list"}
      BY <1>7, <2>5 DEF Free
    <3>3. l \in Stable => l \in i.dirty \/ l = f[k].List
      BY <2>5 DEF c
    <3>4. QED
      BY <3>1, <3>2, <3>3
  <2>14. \A a \in Cells : \/ a = l \/ a = k \/ i.cell[a] = f[a]
                          \/ a \in StoreOf(k) /\ f[a].kind = "list" /\ i.cell[a].kind = "free"
    BY <1>7, <2>5 DEF Free
  <2>15. \A a \in StoreOf(k) : f[a].kind = "list" => a = l \/ i.cell[a].kind = "free"
    BY <1>9, <2>5 DEF Free
  <2>16. s # << >>
    <3>1. Len(s) # 0
      <4> HIDE DEF n
      <4>1. QED
        BY <1>5, <1>6, <1>11
    <3>2. QED
      BY <3>1
  <2> HIDE DEF v, e, f, n
  <2>17. Removed(h, k, v, S, g)
    <3>1. s \in Seq(StoreOf(k)) /\ IsInjective(s) /\ v \in Range(e) /\ Range(s) = Range(e) \ {v}
      BY <1>5, <1>6
    <3>2. s # << >> => /\ l \in StoreOf(k) /\ g.cell[l].kind = "list" /\ g.cell[l].KeyList = s
                       /\ EntrySize * Len(s) <= g.cell[l].Size
                       /\ f[l].kind \in {"free", "list"}
                       /\ l \in Stable => l \in i.dirty \/ l = f[k].List
      BY <2>5, <2>12, <2>13
    <3>3. \A a \in Cells : a # k /\ (s # << >> => a # l) => g.cell[a] = i.cell[a]
      BY <2>12, <2>16
    <3>4. \A a \in Cells : \/ (s # << >> /\ a = l) \/ a = k \/ i.cell[a] = f[a]
                           \/ a \in StoreOf(k) /\ f[a].kind = "list" /\ i.cell[a].kind = "free"
      BY <2>14, <2>16
    <3>5. \A a \in StoreOf(k) : f[a].kind = "list" =>
                                   (s # << >> /\ a = l) \/ i.cell[a].kind = "free"
      BY <2>15, <2>16
    <3>6. i \in Hives /\ Marked(h, i) /\ g \in Hives /\ g.dirty = i.dirty
          /\ g.cell[k] = CHILD_LIST(Len(s), l)
      BY <2>5, <2>12
    <3>7. ListLeft(h, k, s, i, g, l)
      BY <3>2, <3>3, <3>4, <3>5, <3>6 DEF ListLeft, f
    <3>8. QED
      BY <3>1, <3>7, RemovedListing DEF e, f
  <2>18. QED
    BY <2>17 DEF v, e, f, g
<1>12. CASE ~(n > 1)
  <2> DEFINE x == CHILD_LIST(0, HCELL_NIL)
             i == Put(h, c, Free)
  <2>1. g = [i EXCEPT !.cell[k] = x]
    BY <1>12 DEF CmpRemoveValueFromList, HvFreeCell
  <2>2. c \in Stored
    BY <1>7, <1>8
  <2>3. /\ i \in Hives /\ i.cell[c] = Free /\ \A a \in Cells \ {c} : i.cell[a] = f[a]
        /\ Marked(h, i)
    <3> HIDE DEF c
    <3>1. QED
      BY <1>1, <2>2, PutFacts, FreeIsStored
  <2> HIDE DEF i, c
  <2>4. x \in KeyContents
    BY DEF KeyContents, CHILD_LIST
  <2>5. IsKeyPut(i, k, x, g)
    <3> HIDE DEF g, x
    <3>1. QED
      BY <2>1, <2>3, <2>4, KeyPutFacts
  <2> HIDE DEF g
  <2>6. s = << >> /\ Len(s) = 0
    <3>1. Len(s) = 0
      <4> HIDE DEF n, s
      <4>1. QED
        BY <1>5, <1>6, <1>12
    <3> HIDE DEF s
    <3>2. QED
      BY <1>6, <3>1, EmptySeq
  <2>7. /\ g \in Hives /\ g.dirty = i.dirty /\ g.cell[k] = CHILD_LIST(Len(s), HCELL_NIL)
        /\ \A a \in Cells : a # k => g.cell[a] = i.cell[a]
    BY <2>5, <2>6 DEF IsKeyPut
  <2>8. \A a \in Cells : \/ a = k \/ i.cell[a] = f[a]
                         \/ a \in StoreOf(k) /\ f[a].kind = "list" /\ i.cell[a].kind = "free"
    BY <1>7, <2>3 DEF Free
  <2>9. \A a \in StoreOf(k) : f[a].kind = "list" => i.cell[a].kind = "free"
    BY <1>9, <2>3 DEF Free
  <2> HIDE DEF v, e, f, n, s
  <2>10. Removed(h, k, v, S, g)
    <3> DEFINE l == HCELL_NIL
    <3>1. s \in Seq(StoreOf(k)) /\ IsInjective(s) /\ v \in Range(e) /\ Range(s) = Range(e) \ {v}
      BY <1>5, <1>6
    <3>2. s # << >> => /\ l \in StoreOf(k) /\ g.cell[l].kind = "list" /\ g.cell[l].KeyList = s
                       /\ EntrySize * Len(s) <= g.cell[l].Size
                       /\ f[l].kind \in {"free", "list"}
                       /\ l \in Stable => l \in i.dirty \/ l = f[k].List
      BY <2>6
    <3>3. \A a \in Cells : a # k /\ (s # << >> => a # l) => g.cell[a] = i.cell[a]
      BY <2>7
    <3>4. \A a \in Cells : \/ (s # << >> /\ a = l) \/ a = k \/ i.cell[a] = f[a]
                           \/ a \in StoreOf(k) /\ f[a].kind = "list" /\ i.cell[a].kind = "free"
      BY <2>8
    <3>5. \A a \in StoreOf(k) : f[a].kind = "list" =>
                                   (s # << >> /\ a = l) \/ i.cell[a].kind = "free"
      BY <2>9
    <3>6. i \in Hives /\ Marked(h, i) /\ g \in Hives /\ g.dirty = i.dirty
          /\ g.cell[k] = CHILD_LIST(Len(s), l)
      BY <2>3, <2>7
    <3> HIDE DEF l
    <3>7. ListLeft(h, k, s, i, g, l)
      BY <3>2, <3>3, <3>4, <3>5, <3>6 DEF ListLeft, f
    <3>8. QED
      BY <3>1, <3>7, RemovedListing DEF e, f
  <2>11. QED
    BY <2>10 DEF v, e, f, g
<1>13. QED
  BY <1>11, <1>12

\* NTRegDeleteValueW marks what it changes, and then changes it.
LEMMA DeleteFacts ==
  ASSUME NEW h, NEW S, Good(h, {}, S), NEW k \in Keys, NEW name,
         CmpFindNameInList(h, k, name) # 0,
         NEW v, v = ValuesOf(h, k)[CmpFindNameInList(h, k, name)],
         NEW g, g = CmpFreeValue(CmpRemoveValueFromList(MarkedForDelete(h, k, v), k,
                                                        CmpFindNameInList(h, k, name)), v)
  PROVE  Good(g, {}, S) /\ Marked(h, g)
<1> DEFINE p == CmpFindNameInList(h, k, name)
           e == Entries(h.cell, k)
           i == MarkedForDelete(h, k, v)
           j == CmpRemoveValueFromList(i, k, p)
<1>1. h.cell \in CellsType /\ Listing(h.cell, k, {} \cap StoreOf(k)) /\ h \in Hives
  BY DEF Good, Sound
<1>2. {} \cap StoreOf(k) \in SUBSET StoreOf(k)
  OBVIOUS
<1>3. ValuesOf(h, k) = e /\ p \in DOMAIN e /\ v \in Range(e)
  BY <1>1, <1>2, FindFacts
<1>4. v \in StoreOf(k) /\ v \in Stored
  BY <1>1, <1>2, <1>3, EntriesFacts, StoreFacts
<1>5. /\ i \in Hives /\ i.cell = h.cell /\ Marked(h, i)
      /\ {k, h.cell[k].List} \cap Stable \subseteq i.dirty
  <2> DEFINE a == HvMarkCellsDirty(h, {k, h.cell[k].List, v})
  <2>1. /\ a \in Hives /\ a.cell = h.cell /\ Marked(h, a)
        /\ a.dirty = h.dirty \cup ({k, h.cell[k].List, v} \cap Stable)
    BY <1>1, MarkFacts
  <2>2. i = IF HasData(a.cell[v]) THEN HvMarkCellsDirty(a, {a.cell[v].Data}) ELSE a
    BY DEF MarkedForDelete, CmpMarkValueDataDirty
  <2> HIDE DEF a, i
  <2>3. CASE HasData(a.cell[v])
    <3>1. i = HvMarkCellsDirty(a, {a.cell[v].Data})
      BY <2>2, <2>3
    <3>2. i \in Hives /\ i.cell = a.cell /\ Marked(a, i) /\ a.dirty \subseteq i.dirty
      BY <2>1, <3>1, MarkFacts
    <3>3. Marked(h, i)
      BY <2>1, <3>2, MarkedTwice
    <3>4. QED
      BY <2>1, <3>2, <3>3
  <2>4. CASE ~HasData(a.cell[v])
    <3>1. i = a
      BY <2>2, <2>4
    <3>2. QED
      BY <2>1, <3>1
  <2>5. QED
    BY <2>3, <2>4
<1> HIDE DEF i
<1>6. Good(i, {}, S)
  BY <1>5 DEF Good
<1>7. MarkedList(i, k)
  <2>1. k \in Stable => StoreOf(k) \subseteq Stable
    BY StoreFacts, CellsAssumption DEF Stable, Keys
  <2>2. h.cell[k].Count # 0 => h.cell[k].List \in StoreOf(k)
    BY <1>1, <1>2, EntriesFacts
  <2>3. QED
    BY <1>5, <2>1, <2>2 DEF MarkedList
<1>8. Removed(i, k, v, S, j)
  <2>1. p \in DOMAIN Entries(i.cell, k) /\ v = Entries(i.cell, k)[p]
    BY <1>3, <1>5
  <2> HIDE DEF p
  <2>2. Removed(i, k, Entries(i.cell, k)[p], S, j)
    BY <1>6, <1>7, <2>1, RemoveValueFacts
  <2>3. QED
    BY <2>1, <2>2
<1> HIDE DEF j
<1>9. Good(j, {v}, S) /\ Marked(h, j)
  BY <1>5, <1>8, MarkedTwice DEF Removed
<1>10. IsFreed(j, v, CmpFreeValue(j, v)) /\ Good(CmpFreeValue(j, v), {v} \ {v}, S)
  <2>1. {v} \in SUBSET Stored /\ v \in {v}
    BY <1>4
  <2>2. QED
    BY <1>9, <2>1, FreeValueFacts
<1>11. g = CmpFreeValue(j, v) /\ {v} \ {v} = {}
  BY DEF i, j
<1>12. Marked(h, CmpFreeValue(j, v))
  <2> DEFINE b == CmpFreeValue(j, v)
  <2>1. Marked(j, b)
    BY <1>10 DEF IsFreed
  <2> HIDE DEF b
  <2>2. Marked(h, b)
    BY <1>9, <2>1, MarkedTwice
  <2>3. QED
    BY <2>2 DEF b
<1>13. QED
  BY <1>10, <1>11, <1>12

-----------------------------------------------------------------------------
(* A key is emptied *)

LEMMA MaxOfInterval ==
  ASSUME NEW n \in Nat, NEW s \in SUBSET (1 .. n), n \in s
  PROVE  Max(s) = n
<1>1. \A y \in s : n >= y
  OBVIOUS
<1>2. \A x \in s : (\A y \in s : x >= y) => x = n
  OBVIOUS
<1>3. QED
  BY <1>1, <1>2 DEF Max

\* What is done with one value of the stable key, when they are copied.
CopyOne(a, v) ==
  IF a.good
  THEN CopiedInto(CmpCopyValue(a.hive, v, VolatileCells), VolatileKey, VolatileCells)
  ELSE a

\* The steps of the two folds over the values of a key.
Step(op, x, v) == IF op = "free" THEN CmpFreeValue(x, v) ELSE {CopyOne(a, v) : a \in x}

\* The function g folds a step over parts of the first n values of e.
Folds(op, h, e, n, g) ==
  g = [s \in SUBSET (1 .. n) |->
         IF s = {} THEN h ELSE Step(op, g[s \ {Max(s)}], e[Max(s)])]

LEMMA FoldsOn ==
  ASSUME NEW op, NEW h, NEW e, NEW n \in Nat \ {0}, NEW g, Folds(op, h, e, n - 1, g)
  PROVE  \E w : Folds(op, h, e, n, w)
<1> DEFINE T == 1 .. n - 1
           U == 1 .. n
           w == [s \in SUBSET U |->
                  IF n \in s THEN Step(op, g[s \ {n}], e[n]) ELSE g[s]]
<1>1. \A s \in SUBSET U : n \in s => Max(s) = n /\ s \ {n} \in SUBSET T
  <2> SUFFICES ASSUME NEW s \in SUBSET U, n \in s PROVE Max(s) = n /\ s \ {n} \in SUBSET T
    OBVIOUS
  <2>1. Max(s) = n
    BY MaxOfInterval
  <2>2. QED
    BY <2>1
<1>2. \A s \in SUBSET U : n \notin s => s \in SUBSET T /\ s \ {Max(s)} \in SUBSET T
  <2>1. \A x \in U : x # n => x \in T
    OBVIOUS
  <2> HIDE DEF U, T
  <2>2. QED
    BY <2>1
<1>3. SUBSET T \subseteq SUBSET U /\ n \notin T
  OBVIOUS
<1>4. \A s \in SUBSET T : g[s] = IF s = {} THEN h ELSE Step(op, g[s \ {Max(s)}], e[Max(s)])
  <2> HIDE DEF T
  <2>1. g = [s \in SUBSET T |->
               IF s = {} THEN h ELSE Step(op, g[s \ {Max(s)}], e[Max(s)])]
    BY DEF Folds, T
  <2>2. QED
    BY <2>1, Zenon
<1>5. /\ \A s \in SUBSET T : w[s] = g[s]
      /\ \A s \in SUBSET U : n \in s => w[s] = Step(op, g[s \ {n}], e[n])
  BY <1>3
<1>6. ASSUME NEW s \in SUBSET U
      PROVE  w[s] = IF s = {} THEN h ELSE Step(op, w[s \ {Max(s)}], e[Max(s)])
  <2> HIDE DEF w, U, T
  <2>1. CASE s = {}
    <3>1. n \notin s
      BY <2>1
    <3>2. s \in SUBSET T
      BY <1>2, <3>1
    <3>3. w[s] = g[s] /\ g[s] = h
      BY <1>4, <1>5, <2>1, <3>2
    <3>4. QED
      BY <2>1, <3>3
  <2>2. CASE n \in s
    <3>1. w[s \ {n}] = g[s \ {n}] /\ Max(s) = n
      BY <2>2, <1>1, <1>5
    <3>2. w[s] = Step(op, g[s \ {n}], e[n]) /\ s # {}
      BY <2>2, <1>5
    <3>3. QED
      BY <3>1, <3>2
  <2>3. CASE s # {} /\ n \notin s
    <3>1. s \in SUBSET T /\ s \ {Max(s)} \in SUBSET T
      BY <2>3, <1>2
    <3>2. w[s] = g[s] /\ w[s \ {Max(s)}] = g[s \ {Max(s)}]
      BY <3>1, <1>5
    <3>3. QED
      BY <2>3, <3>1, <3>2, <1>4
  <2>4. QED
    BY <2>1, <2>2, <2>3
<1>7. w = [s \in SUBSET U |-> w[s]]
  OBVIOUS
<1> HIDE DEF w, U
<1>8. w = [s \in SUBSET U |->
             IF s = {} THEN h ELSE Step(op, w[s \ {Max(s)}], e[Max(s)])]
  BY <1>6, <1>7, Zenon
<1>9. Folds(op, h, e, n, w)
  BY <1>8 DEF Folds, U
<1>10. QED
  BY <1>9

LEMMA FoldsExists ==
  ASSUME NEW op, NEW h, NEW e, NEW n \in Nat
  PROVE  \E g : Folds(op, h, e, n, g)
<1> DEFINE Bad == {m \in Nat : ~\E g : Folds(op, h, e, m, g)}
<1>1. Bad = {}
  <2> SUFFICES ASSUME Bad # {} PROVE FALSE
    OBVIOUS
  <2> DEFINE m == Min(Bad)
  <2>1. m \in Bad /\ \A i \in Bad : m <= i
    BY MinFacts
  <2> HIDE DEF m
  <2>2. m \in Nat /\ ~\E g : Folds(op, h, e, m, g)
    BY <2>1
  <2>3. m # 0
    <3> DEFINE w == [s \in SUBSET (1 .. 0) |-> h]
    <3>1. \A s \in SUBSET (1 .. 0) : s = {}
      OBVIOUS
    <3>2. w = [s \in SUBSET (1 .. 0) |->
                 IF s = {} THEN h ELSE Step(op, w[s \ {Max(s)}], e[Max(s)])]
      BY <3>1, Zenon
    <3> HIDE DEF w
    <3>3. Folds(op, h, e, 0, w)
      BY <3>2 DEF Folds
    <3>4. QED
      BY <2>2, <3>3
  <2>4. m - 1 \in Nat /\ m \in Nat \ {0} /\ \E g : Folds(op, h, e, m - 1, g)
    BY <2>1, <2>2, <2>3
  <2>5. QED
    BY <2>2, <2>4, FoldsOn
<1>2. QED
  BY <1>1

\* The values of a key from the first to the n-th.
LEMMA FoldsStep ==
  ASSUME NEW op, NEW h, NEW e, NEW n \in Nat, NEW g, Folds(op, h, e, n, g)
  PROVE  /\ g[1 .. 0] = h
         /\ \A m \in 1 .. n : g[1 .. m] = Step(op, g[1 .. m - 1], e[m])
<1> DEFINE U == 1 .. n
<1>1. \A s \in SUBSET U : g[s] = IF s = {} THEN h ELSE Step(op, g[s \ {Max(s)}], e[Max(s)])
  <2> HIDE DEF U
  <2>1. g = [s \in SUBSET U |->
               IF s = {} THEN h ELSE Step(op, g[s \ {Max(s)}], e[Max(s)])]
    BY DEF Folds, U
  <2>2. QED
    BY <2>1, Zenon
<1>2. 1 .. 0 = {} /\ {} \in SUBSET U
  OBVIOUS
<1>3. ASSUME NEW m \in 1 .. n PROVE g[1 .. m] = Step(op, g[1 .. m - 1], e[m])
  <2> DEFINE s == 1 .. m
  <2>1. s \in SUBSET U /\ s # {} /\ s \ {m} = 1 .. m - 1 /\ m \in s /\ m \in Nat
    OBVIOUS
  <2>2. Max(s) = m
    BY <2>1, MaxOfInterval
  <2> HIDE DEF s, U
  <2>3. g[s] = Step(op, g[s \ {Max(s)}], e[Max(s)])
    BY <1>1, <2>1
  <2>4. QED
    BY <2>1, <2>2, <2>3 DEF s
<1>4. QED
  BY <1>1, <1>2, <1>3


\* The cells f when the list l of the key k is given up.
Without(f, l, k) == [f EXCEPT ![l] = Free, ![k] = CHILD_LIST(0, HCELL_NIL)]

LEMMA WithoutFacts ==
  ASSUME NEW f \in CellsType, NEW l \in Stored, NEW k \in Keys
  PROVE  /\ Without(f, l, k) \in CellsType
         /\ Without(f, l, k)[l] = Free
         /\ Without(f, l, k)[k] = CHILD_LIST(0, HCELL_NIL)
         /\ \A c \in Cells : c # l /\ c # k => Without(f, l, k)[c] = f[c]
<1> DEFINE i == [f EXCEPT ![l] = Free]
           x == CHILD_LIST(0, HCELL_NIL)
           g == [i EXCEPT ![k] = x]
<1>1. i \in CellsType
  BY PutType, FreeIsStored
<1>2. x \in KeyContents
  BY DEF CHILD_LIST, KeyContents
<1>3. l \in Cells /\ l # k /\ k \in Cells /\ k \notin Stored
  BY StoreFacts DEF Keys, Cells
<1>4. i[l] = Free /\ \A c \in Cells : c # l => i[c] = f[c]
  BY <1>3 DEF CellsType
<1> HIDE DEF x, i
<1>5. g[k] = x /\ (\A c \in Cells : c # k => g[c] = i[c]) /\ g \in [Cells -> KeyContents \cup StoredContents]
  BY <1>1, <1>2, <1>3 DEF CellsType
<1>6. Without(f, l, k) = g
  BY DEF Without, i, x
<1> HIDE DEF g
<1>7. g \in CellsType
  <2>1. \A j \in Keys : g[j] \in KeyContents
    BY <1>1, <1>2, <1>5 DEF CellsType, Cells, Keys
  <2>2. \A c \in Stored : g[c] \in StoredContents
    BY <1>1, <1>3, <1>5, StoreFacts DEF CellsType
  <2>3. QED
    BY <1>5, <2>1, <2>2 DEF CellsType
<1>8. QED
  BY <1>3, <1>4, <1>5, <1>6, <1>7 DEF x

\* When the list is given up, its values are on no list.
LEMMA WithoutSound ==
  ASSUME NEW f, NEW S, Sound(f, {}, S), NEW k \in Keys, f[k].Count # 0
  PROVE  Sound(Without(f, f[k].List, k), Range(Entries(f, k)), S)
<1> DEFINE e == Entries(f, k)
           l == f[k].List
           g == Without(f, l, k)
<1>1. f \in CellsType /\ Listing(f, k, {}) /\ Holding(f, S)
  <2>1. {} \cap StoreOf(k) = {}
    OBVIOUS
  <2>2. QED
    BY <2>1 DEF Sound
<1>2. {} \in SUBSET StoreOf(k)
  OBVIOUS
<1>3. /\ Range(e) \subseteq StoreOf(k)
      /\ l \in StoreOf(k) /\ l \in OfKind(f, "list")
  BY <1>1, <1>2, EntriesFacts
<1>4. l \in Stored /\ f[l].kind = "list" /\ \A v \in Range(e) : v \in OfKind(f, "value")
  BY <1>1, <1>2, <1>3, EntriesFacts, StoreFacts DEF OfKind
<1> HIDE DEF l, e
<1>5. /\ g \in CellsType /\ g[l] = Free /\ g[k] = CHILD_LIST(0, HCELL_NIL)
      /\ \A c \in Cells : c # l /\ c # k => g[c] = f[c]
  BY <1>1, <1>4, WithoutFacts
<1> HIDE DEF g
<1>6. \A c \in Stored : c \in Cells /\ c # k
  BY StoreFacts
<1>7. Free.kind = "free"
  BY DEF Free
<1>8. Listing(g, k, Range(e) \cap StoreOf(k))
  <2> DEFINE E == << >>
             Y == Range(e) \cap StoreOf(k)
  <2>1. /\ E \in Seq(StoreOf(k)) /\ IsInjective(E) /\ g[k].Count = Len(E)
        /\ Range(E) = {}
    BY <1>5 DEF CHILD_LIST, IsInjective, Range
  <2>2. Range(E) \cup Y = Range(Entries(f, k)) \cup {} /\ Range(E) \cap Y = {}
    BY <1>3, <2>1 DEF e
  <2>3. \A c \in StoreOf(k) : \/ f[c].kind = "list" /\ g[c].kind = "free"
                              \/ f[c].kind # "list" /\ SameToLists(f, g, c)
    <3> SUFFICES ASSUME NEW c \in StoreOf(k)
                 PROVE  \/ f[c].kind = "list" /\ g[c].kind = "free"
                        \/ f[c].kind # "list" /\ SameToLists(f, g, c)
      OBVIOUS
    <3>1. c \in Stored
      BY StoreFacts
    <3>2. f[c].kind = "list" => c = l
      BY <1>1, <3>1 DEF Listing, OfKind, l
    <3>3. c # l => g[c] = f[c]
      BY <1>5, <1>6, <3>1
    <3>4. QED
      BY <1>4, <1>5, <1>7, <3>2, <3>3 DEF SameToLists
  <2>4. E = << >> /\ Y \in SUBSET StoreOf(k)
    OBVIOUS
  <2> HIDE DEF E, Y
  <2>5. Listing(g, k, Y)
    BY <1>1, <1>2, <1>5, <2>1, <2>2, <2>3, <2>4, ListingChanged
  <2>6. QED
    BY <2>5 DEF Y
<1>9. Holding(g, S)
  <2>1. \A c \in Stored : SameToData(f, g, c)
    BY <1>4, <1>5, <1>6, <1>7 DEF SameToData
  <2>2. QED
    BY <1>1, <1>5, <2>1, HoldingKept
<1>10. \A c \in Stored \ StoreOf(k) : SameToLists(f, g, c)
  BY <1>3, <1>5, <1>6 DEF SameToLists
<1>11. \A j \in Keys \ {k} : g[j] = f[j]
  BY <1>4, <1>5, StoreFacts DEF Keys, Cells
<1>12. {} \ StoreOf(k) = Range(e) \ StoreOf(k)
  BY <1>3
<1>13. Sound(g, Range(e), S)
  BY <1>5, <1>8, <1>9, <1>10, <1>11, <1>12, SoundAgain
<1>14. QED
  BY <1>13 DEF g, l, e

\* The entries behind the n-th.
Left(e, n) == {e[i] : i \in n + 1 .. Len(e)}

\* The first n values of the key k have been freed; they are still on its list.
EmptiedTo(h, k, n, S, x) ==
  /\ x \in Hives /\ Marked(h, x)
  /\ Sound(Without(x.cell, h.cell[k].List, k), Left(Entries(h.cell, k), n), S)

LEMMA EmptiedStep ==
  ASSUME NEW h, NEW k \in Keys, NEW S, h.cell[k].List \in Stored,
         Entries(h.cell, k) \in Seq(Stored), IsInjective(Entries(h.cell, k)),
         NEW n \in 1 .. Len(Entries(h.cell, k)), NEW x, EmptiedTo(h, k, n - 1, S, x)
  PROVE  EmptiedTo(h, k, n, S, CmpFreeValue(x, Entries(h.cell, k)[n]))
<1> DEFINE e == Entries(h.cell, k)
           l == h.cell[k].List
           v == e[n]
           y == CmpFreeValue(x, v)
           f == Without(x.cell, l, k)
           g == Without(y.cell, l, k)
           X == Left(e, n - 1)
<1>1. e \in Seq(Stored) /\ IsInjective(e) /\ n \in 1 .. Len(e) /\ l \in Stored
  OBVIOUS
<1>2. x \in Hives /\ Marked(h, x) /\ Sound(f, X, S)
  BY DEF EmptiedTo
<1> HIDE DEF l, e
<1>3. v \in X /\ X \in SUBSET Stored /\ X \ {v} = Left(e, n) /\ v \in Stored
  <2>1. \A i \in 1 .. Len(e) : e[i] \in Stored
    BY <1>1
  <2>2. \A i \in n - 1 + 1 .. Len(e) : i \in 1 .. Len(e) /\ (i = n \/ i \in n + 1 .. Len(e))
    BY <1>1
  <2>3. \A i \in n + 1 .. Len(e) : i \in n - 1 + 1 .. Len(e) /\ i # n /\ i \in DOMAIN e
    BY <1>1
  <2>4. n \in n - 1 + 1 .. Len(e) /\ n \in DOMAIN e
    BY <1>1
  <2>5. \A i \in n + 1 .. Len(e) : e[i] # v
    BY <1>1, <2>3, <2>4 DEF IsInjective
  <2>6. QED
    BY <2>1, <2>2, <2>3, <2>4, <2>5 DEF Left
<1>4. x.cell \in CellsType
  BY <1>2 DEF Hives
<1>5. /\ f \in CellsType /\ f[l] = Free
      /\ \A c \in Cells : c # l /\ c # k => f[c] = x.cell[c]
  BY <1>1, <1>4, WithoutFacts
<1>6. f[k] = CHILD_LIST(0, HCELL_NIL)
  BY <1>1, <1>4, WithoutFacts
<1> HIDE DEF f, X, v
<1>7. v \in OfKind(f, "value")
  BY <1>2, <1>3, UnlistedFacts
<1>8. /\ HasData(f[v]) <=> f[v].Data # HCELL_NIL
      /\ f[v].Data # HCELL_NIL => /\ f[v].Data \in Stored /\ f[v].Data # v
                                  /\ f[f[v].Data].kind = "data"
  BY <1>2, <1>7, ValueFacts
<1>9. Free.kind = "free" /\ \A c \in Stored : c \in Cells /\ c # k
  BY StoreFacts DEF Free
<1>10. v # l /\ v \in Cells /\ v # k
  BY <1>3, <1>5, <1>7, <1>9 DEF OfKind
<1>11. f[v] = x.cell[v]
  BY <1>5, <1>10
<1>12. f[v].Data # HCELL_NIL => f[v].Data # l /\ f[v].Data # k
  BY <1>5, <1>8, <1>9
<1>13. IsFreed(x, v, y)
  <2>1. /\ HasData(x.cell[v]) <=> x.cell[v].Data # HCELL_NIL
        /\ x.cell[v].Data # HCELL_NIL => x.cell[v].Data \in Stored /\ x.cell[v].Data # v
    BY <1>8, <1>11
  <2>2. QED
    BY <1>2, <1>3, <2>1, FreedHive
<1> HIDE DEF y
<1>14. y \in Hives /\ y.cell \in CellsType /\ Marked(x, y) /\ OnlyFreed(x.cell, v, y.cell)
  BY <1>13 DEF IsFreed, Hives
<1>15. /\ g \in CellsType /\ g[l] = Free
       /\ \A c \in Cells : c # l /\ c # k => g[c] = y.cell[c]
  BY <1>1, <1>14, WithoutFacts
<1>16. g[k] = CHILD_LIST(0, HCELL_NIL)
  BY <1>1, <1>14, WithoutFacts
<1> HIDE DEF g
<1>17. OnlyFreed(f, v, g)
  <2>1. g[v] = Free
    BY <1>10, <1>14, <1>15 DEF OnlyFreed
  <2>2. f[v].Data # HCELL_NIL => g[f[v].Data] = Free
    BY <1>8, <1>9, <1>11, <1>12, <1>14, <1>15 DEF OnlyFreed
  <2>3. ASSUME NEW c \in Cells, c # v, f[v].Data # HCELL_NIL => c # f[v].Data
        PROVE  g[c] = f[c]
    <3>1. y.cell[c] = x.cell[c]
      BY <1>11, <1>14, <2>3 DEF OnlyFreed
    <3>2. QED
      BY <1>5, <1>6, <1>15, <1>16, <3>1
  <2>4. QED
    BY <2>1, <2>2, <2>3 DEF OnlyFreed
<1>18. Sound(g, X \ {v}, S)
  BY <1>2, <1>3, <1>15, <1>17, FreedSound
<1>19. Marked(h, y)
  BY <1>2, <1>14, MarkedTwice
<1>20. EmptiedTo(h, k, n, S, y)
  BY <1>3, <1>14, <1>18, <1>19 DEF EmptiedTo, g, e, l
<1>21. QED
  BY <1>20 DEF y, v, e

\* The folds of Emptied as the library defines them.
LEMMA FoldFrees ==
  ASSUME NEW h, NEW e, NEW n \in Nat, DOMAIN e = 1 .. n
  PROVE  \E g : Folds("free", h, e, n, g) /\ FoldLeft(CmpFreeValue, h, e) = g[1 .. n]
<1> DEFINE Is(g) == g = [s \in SUBSET DOMAIN e |->
                           IF s = {} THEN h ELSE CmpFreeValue(g[s \ {Max(s)}], e[Max(s)])]
           w == CHOOSE g : Is(g)
<1>1. FoldLeft(CmpFreeValue, h, e) = w[DOMAIN e]
  BY DEF FoldLeft, MapThenFoldSet
<1>2. \A g : Folds("free", h, e, n, g) <=> Is(g)
  BY DEF Folds, Step
<1>3. \E g : Is(g)
  BY <1>2, FoldsExists
<1>4. Is(w)
  BY <1>3
<1> HIDE DEF w
<1>5. Folds("free", h, e, n, w)
  BY <1>2, <1>4
<1>6. QED
  BY <1>1, <1>5

\* A key is emptied, when it and its list have been marked.
LEMMA EmptiedFacts ==
  ASSUME NEW h, NEW S, Good(h, {}, S), NEW k \in Keys, MarkedList(h, k)
  PROVE  Good(Emptied(h, k), {}, S) /\ Marked(h, Emptied(h, k))
<1>1. CASE h.cell[k].Count = 0
  <2>1. Emptied(h, k) = h
    BY <1>1 DEF Emptied
  <2>2. QED
    BY <2>1 DEF Marked
<1>2. CASE h.cell[k].Count # 0
  <2> DEFINE e == Entries(h.cell, k)
             l == h.cell[k].List
             N == Len(e)
  <2>1. h \in Hives /\ Sound(h.cell, {}, S) /\ h.cell \in CellsType /\ Listing(h.cell, k, {})
    <3>1. {} \cap StoreOf(k) = {}
      OBVIOUS
    <3>2. QED
      BY <3>1 DEF Good, Sound
  <2>2. {} \in SUBSET StoreOf(k)
    OBVIOUS
  <2>3. l \in StoreOf(k) /\ e \in Seq(StoreOf(k)) /\ IsInjective(e)
    BY <1>2, <2>1, <2>2, EntriesFacts DEF Listing
  <2>4. l \in Stored /\ e \in Seq(Stored) /\ N \in Nat /\ DOMAIN e = 1 .. N
    BY <2>3, StoreFacts
  <2>5. ValuesOf(h, k) = e
    BY <2>1, ValuesAreEntries
  <2> HIDE DEF e, l
  <2>6. PICK g : Folds("free", h, e, N, g) /\ FoldLeft(CmpFreeValue, h, e) = g[1 .. N]
    BY <2>4, FoldFrees
  <2>7. /\ g[1 .. 0] = h
        /\ \A m \in 1 .. N : g[1 .. m] = CmpFreeValue(g[1 .. m - 1], e[m])
    <3>1. /\ g[1 .. 0] = h
          /\ \A m \in 1 .. N : g[1 .. m] = Step("free", g[1 .. m - 1], e[m])
      BY <2>4, <2>6, FoldsStep
    <3>2. QED
      BY <3>1 DEF Step
  <2> HIDE DEF N
  <2>8. EmptiedTo(h, k, 0, S, h)
    <3>1. Left(e, 0) = Range(e)
      BY <2>4 DEF Left, Range, N
    <3>2. Sound(Without(h.cell, l, k), Range(e), S)
      BY <1>2, <2>1, WithoutSound DEF l, e
    <3>3. QED
      BY <2>1, <3>1, <3>2 DEF EmptiedTo, Marked, l, e
  <2> DEFINE Bad == {n \in 0 .. N : ~EmptiedTo(h, k, n, S, g[1 .. n])}
  <2>9. Bad = {}
    <3> SUFFICES ASSUME Bad # {} PROVE FALSE
      OBVIOUS
    <3> DEFINE m == Min(Bad)
    <3>1. Bad \in SUBSET Nat
      BY <2>4
    <3>2. m \in Bad /\ \A n \in Bad : m <= n
      BY <3>1, MinFacts
    <3> HIDE DEF m
    <3>3. m \in 0 .. N /\ ~EmptiedTo(h, k, m, S, g[1 .. m])
      BY <3>2
    <3>4. m # 0
      BY <2>7, <2>8, <3>3
    <3>5. m \in 1 .. N /\ m - 1 \in 0 .. N /\ ~(m <= m - 1)
      BY <2>4, <3>3, <3>4
    <3>6. EmptiedTo(h, k, m - 1, S, g[1 .. m - 1])
      BY <3>2, <3>5
    <3>7. EmptiedTo(h, k, m, S, CmpFreeValue(g[1 .. m - 1], e[m]))
      BY <2>3, <2>4, <3>5, <3>6, EmptiedStep DEF e, l, N
    <3>8. QED
      BY <2>7, <3>3, <3>5, <3>7
  <2> DEFINE x == g[1 .. N]
  <2>10. EmptiedTo(h, k, N, S, x)
    BY <2>4, <2>9
  <2> HIDE DEF x
  <2>11. Left(e, N) = {}
    BY <2>4 DEF Left, N
  <2>12. x \in Hives /\ Marked(h, x) /\ Sound(Without(x.cell, l, k), {}, S)
    BY <2>10, <2>11 DEF EmptiedTo, e, l
  <2> DEFINE i == HvFreeCell(x, l)
             c0 == CHILD_LIST(0, HCELL_NIL)
             y == [i EXCEPT !.cell[k] = c0]
  <2>13. Emptied(h, k) = y
    BY <1>2, <2>5, <2>6 DEF Emptied, x, l
  <2>14. /\ i \in Hives /\ i.cell[l] = Free
         /\ \A a \in Cells \ {l} : i.cell[a] = x.cell[a]
         /\ i.dirty = x.dirty \cup ({l} \cap Stable)
    BY <2>4, <2>12, FreeIsStored, PutFacts DEF HvFreeCell
  <2>15. c0 \in KeyContents
    BY DEF CHILD_LIST, KeyContents
  <2> HIDE DEF i, c0
  <2>16. IsKeyPut(i, k, c0, y)
    BY <2>14, <2>15, KeyPutFacts
  <2> HIDE DEF y
  <2>17. x.cell \in CellsType /\ y.cell \in CellsType
    BY <2>12, <2>16 DEF Hives, IsKeyPut
  <2>18. y.cell = Without(x.cell, l, k)
    <3> DEFINE w == Without(x.cell, l, k)
    <3>1. /\ w \in CellsType /\ w[l] = Free /\ w[k] = c0
          /\ \A c \in Cells : c # l /\ c # k => w[c] = x.cell[c]
      BY <2>4, <2>17, WithoutFacts DEF c0
    <3> HIDE DEF w
    <3>2. l # k /\ l \in Cells
      BY <2>4, StoreFacts
    <3>3. \A c \in Cells : y.cell[c] = w[c]
      BY <2>14, <2>16, <3>1, <3>2 DEF IsKeyPut
    <3>4. w = [c \in Cells |-> w[c]] /\ y.cell = [c \in Cells |-> y.cell[c]]
      BY <2>17, <3>1 DEF CellsType
    <3>5. w = y.cell
      BY <3>3, <3>4
    <3>6. QED
      BY <3>5 DEF w
  <2>19. Good(y, {}, S)
    BY <2>12, <2>16, <2>18 DEF Good, IsKeyPut
  <2>20. Marked(h, y)
    <3>1. h.dirty \subseteq y.dirty /\ {l} \cap Stable \subseteq y.dirty
      BY <2>12, <2>14, <2>16 DEF Marked, IsKeyPut
    <3>2. ASSUME NEW c \in Stable PROVE y.cell[c] = h.cell[c] \/ c \in y.dirty
      <4>1. CASE c = l
        BY <3>1, <3>2, <4>1
      <4>2. CASE c = k
        BY <3>1, <3>2, <4>2 DEF MarkedList
      <4>3. CASE c # l /\ c # k
        <5>1. c \in Cells
          BY <3>2 DEF Cells, Stable
        <5>2. y.cell[c] = x.cell[c]
          BY <2>14, <2>16, <4>3, <5>1 DEF IsKeyPut
        <5>3. x.cell[c] = h.cell[c] \/ c \in x.dirty
          BY <2>12, <3>2 DEF Marked
        <5>4. x.dirty \subseteq y.dirty
          BY <2>14, <2>16 DEF IsKeyPut
        <5>5. QED
          BY <5>2, <5>3, <5>4
      <4>4. QED
        BY <4>1, <4>2, <4>3
    <3>3. QED
      BY <3>1, <3>2 DEF Marked
  <2>21. QED
    BY <2>13, <2>19, <2>20
<1>3. QED
  BY <1>1, <1>2

\* CmpFreeKeyByCell marks the key, its list and their like, and empties the key.
LEMMA FreeKeyFacts ==
  ASSUME NEW h, NEW S, Good(h, {}, S), NEW k \in Keys
  PROVE  /\ Good(Emptied(CmpMarkKeyDirty(h, k), k), {}, S)
         /\ Marked(h, Emptied(CmpMarkKeyDirty(h, k), k))
<1> DEFINE i == CmpMarkKeyDirty(h, k)
           cs == {k} \cup DataOf(h, k) \cup Range(ValuesOf(h, k))
                   \cup (IF h.cell[k].Count > 0 THEN {h.cell[k].List} ELSE {})
<1>1. h \in Hives /\ h.cell \in CellsType
  BY DEF Good, Hives
<1>2. i = HvMarkCellsDirty(h, cs)
  BY DEF CmpMarkKeyDirty
<1>3. k \in cs /\ (h.cell[k].Count > 0 => h.cell[k].List \in cs)
  OBVIOUS
<1> HIDE DEF cs
<1>4. /\ HvMarkCellsDirty(h, cs) \in Hives
      /\ HvMarkCellsDirty(h, cs).cell = h.cell
      /\ HvMarkCellsDirty(h, cs).dirty = h.dirty \cup (cs \cap Stable)
      /\ Marked(h, HvMarkCellsDirty(h, cs))
  BY <1>1, MarkFacts
<1>5. i \in Hives /\ i.cell = h.cell /\ i.dirty = h.dirty \cup (cs \cap Stable) /\ Marked(h, i)
  BY <1>2, <1>4
<1> HIDE DEF i
<1>6. Good(i, {}, S)
  BY <1>5 DEF Good
<1>7. MarkedList(i, k)
  <2>1. k \in Stable => StoreOf(k) \subseteq Stable
    BY StoreFacts, CellsAssumption DEF Stable, Keys
  <2>2. {} \cap StoreOf(k) \in SUBSET StoreOf(k) /\ Listing(h.cell, k, {} \cap StoreOf(k))
    BY DEF Good, Sound
  <2>3. h.cell[k].Count \in Nat /\ (h.cell[k].Count # 0 => h.cell[k].List \in StoreOf(k))
    BY <1>1, <2>2, EntriesFacts
  <2>4. h.cell[k].Count # 0 => h.cell[k].Count > 0
    BY <2>3
  <2>5. QED
    BY <1>3, <1>5, <2>1, <2>3, <2>4 DEF MarkedList
<1>8. Good(Emptied(i, k), {}, S) /\ Marked(i, Emptied(i, k))
  BY <1>6, <1>7, EmptiedFacts
<1>9. Marked(h, Emptied(i, k))
  <2> DEFINE j == Emptied(i, k)
  <2>1. Marked(i, j)
    BY <1>8
  <2> HIDE DEF j
  <2>2. Marked(h, j)
    BY <1>5, <2>1, MarkedTwice
  <2>3. QED
    BY <2>2 DEF j
<1>10. QED
  BY <1>8, <1>9 DEF i

-----------------------------------------------------------------------------
(* CmpCopyKeyValueList *)

LEMMA PutTwice ==
  ASSUME NEW h \in Hives, NEW c \in Stored,
         NEW x \in StoredContents, NEW y \in StoredContents
  PROVE  Put(Put(h, c, x), c, y) = Put(h, c, y)
<1> DEFINE i == Put(h, c, x)
           j == Put(i, c, y)
           g == Put(h, c, y)
<1>1. /\ i \in Hives /\ i.dirty = h.dirty \cup ({c} \cap Stable)
      /\ \A a \in Cells \ {c} : i.cell[a] = h.cell[a]
  BY PutFacts
<1>2. /\ g \in Hives /\ g.dirty = h.dirty \cup ({c} \cap Stable) /\ g.cell[c] = y
      /\ \A a \in Cells \ {c} : g.cell[a] = h.cell[a]
  BY PutFacts
<1> HIDE DEF i, g
<1>3. /\ j \in Hives /\ j.dirty = i.dirty \cup ({c} \cap Stable) /\ j.cell[c] = y
      /\ \A a \in Cells \ {c} : j.cell[a] = i.cell[a]
  BY <1>1, PutFacts
<1> HIDE DEF j
<1>4. j.dirty = g.dirty
  BY <1>1, <1>2, <1>3
<1>5. j.cell = g.cell
  <2>1. \A a \in Cells : j.cell[a] = g.cell[a]
    BY <1>1, <1>2, <1>3
  <2>2. j.cell = [a \in Cells |-> j.cell[a]] /\ g.cell = [a \in Cells |-> g.cell[a]]
    BY <1>2, <1>3 DEF Hives, CellsType
  <2>3. QED
    BY <2>1, <2>2
<1>6. j = g
  <2>1. j = [cell |-> j.cell, dirty |-> j.dirty] /\ g = [cell |-> g.cell, dirty |-> g.dirty]
    BY <1>2, <1>3 DEF Hives
  <2>2. QED
    BY <1>4, <1>5, <2>1
<1>7. QED
  BY <1>6 DEF i, j, g

\* The hive of r is sound again when the value in the cell of r is on a list.
CopyMade(h, S, r) ==
  /\ Marked(h, r.hive) /\ \A c \in Stable : r.hive.cell[c] = h.cell[c]
  /\ \/ r.cell = HCELL_NIL /\ Good(r.hive, {}, S)
     \/ r.cell \in VolatileCells /\ Good(r.hive, {r.cell}, S)

LEMMA VolatileFacts ==
  /\ VolatileCells \in Stores /\ VolatileCells \subseteq Stored /\ VolatileCells \cap Stable = {}
  /\ VolatileCells \cap StableCells = {} /\ HCELL_NIL \notin VolatileCells
  /\ StoreOf(VolatileKey) = VolatileCells /\ VolatileKey \in Keys /\ VolatileKey \notin Stable
  /\ StoreOf(StableKey) = StableCells /\ StableKey \in Keys /\ StableKey \in Stable
  /\ StableCells \subseteq Stable /\ Stable \subseteq Cells
  BY StoreFacts, CellsAssumption DEF Stores, Stored, Stable, Keys, Cells

\* A copy without data of its own.
LEMMA PlainCopy ==
  ASSUME NEW h, NEW S, Good(h, {}, S), NEW c \in VolatileCells, h.cell[c] = Free,
         NEW x \in ValueContents, WellMade(x), x.Data = HCELL_NIL
  PROVE  CopyMade(h, S, [hive |-> Put(h, c, x), cell |-> c])
<1> DEFINE g == Put(h, c, x)
<1>1. h \in Hives /\ c \in Stored /\ c \notin Stable /\ x \in StoredContents
  BY VolatileFacts DEF Good, StoredContents
<1>2. /\ g \in Hives /\ Marked(h, g)
      /\ \A a \in Cells \ {c} : g.cell[a] = h.cell[a]
  BY <1>1, PutFacts
<1>3. Good(g, {} \cup {c}, S)
  <2>1. {} \in SUBSET Stored
    OBVIOUS
  <2>2. QED
    BY <1>1, <2>1, NewValueFacts
<1> HIDE DEF g
<1>4. {} \cup {c} = {c}
  OBVIOUS
<1>5. \A a \in Stable : g.cell[a] = h.cell[a]
  BY <1>1, <1>2, VolatileFacts
<1> DEFINE r == [hive |-> g, cell |-> c]
<1>6. r.hive = g /\ r.cell = c
  OBVIOUS
<1> HIDE DEF r
<1>7. CopyMade(h, S, r)
  BY <1>2, <1>3, <1>4, <1>5, <1>6 DEF CopyMade
<1>8. QED
  BY <1>7 DEF r, g

\* A copy with data in another new cell.
LEMMA FullCopy ==
  ASSUME NEW h, NEW S, Good(h, {}, S), NEW c \in VolatileCells, h.cell[c] = Free,
         NEW d \in VolatileCells, h.cell[d] = Free, d # c, NEW x \in ValueContents,
         WellMade(x), x.Data = d,
         NEW g \in Hives, Marked(h, g), g.cell[c] = x, g.cell[d] \in DataContents,
         \A a \in Cells : a # c /\ a # d => g.cell[a] = h.cell[a]
  PROVE  CopyMade(h, S, [hive |-> g, cell |-> c])
<1> DEFINE n == [x EXCEPT !.Length = 0, !.Data = HCELL_NIL]
           i == Put(h, c, n)
<1>1. /\ h \in Hives /\ c \in Stored /\ c \notin Stable
      /\ d \in Stored /\ d \notin Stable /\ d # HCELL_NIL
  BY VolatileFacts DEF Good
<1>2. n \in ValueContents /\ WellMade(n) /\ n.Data = HCELL_NIL
  BY DEF ValueContents, WellMade
<1>3. n \in StoredContents /\ n.kind = "value" /\ x.kind = "value"
  BY <1>2 DEF StoredContents, ValueContents
<1> HIDE DEF n
<1>4. /\ i \in Hives /\ i.cell[c] = n
      /\ \A a \in Cells \ {c} : i.cell[a] = h.cell[a]
  BY <1>1, <1>3, PutFacts
<1>5. Good(i, {c}, S)
  <2>1. {} \in SUBSET Stored /\ {} \cup {c} = {c}
    OBVIOUS
  <2>2. Good(i, {} \cup {c}, S)
    BY <1>1, <1>2, <2>1, NewValueFacts
  <2>3. QED
    BY <2>1, <2>2
<1> HIDE DEF i
<1>6. /\ i.cell \in CellsType /\ g.cell \in CellsType /\ Sound(i.cell, {c}, S) /\ Holding(i.cell, S)
  BY <1>4, <1>5 DEF Good, Sound, Hives
<1>7. \A a \in Stored : a \in Cells /\ a \notin Keys
  BY StoreFacts
<1>8. /\ Free.kind = "free" /\ g.cell[d].kind = "data"
      /\ i.cell[d] = Free /\ c \in OfKind(i.cell, "value")
  BY <1>1, <1>3, <1>4, <1>7 DEF Free, DataContents, OfKind
<1>9. \A a \in Cells : a # c /\ a # d => g.cell[a] = i.cell[a]
  BY <1>4
<1> DEFINE f == i.cell
           e == g.cell
<1>10. Holding(e, S)
  <2>1. c \in StableCells => d \in StableCells
    BY VolatileFacts
  <2>2. f[c].Data = HCELL_NIL
    BY <1>2, <1>4
  <2>3. \A a \in Stored : a # c /\ a # d /\ a # f[c].Data => SameToData(f, e, a)
    BY <1>7, <1>9 DEF SameToData
  <2>4. f[d].kind = "free" /\ e[c].kind = "value" /\ WellMade(e[c]) /\ e[c].Data = d /\ e[d].kind = "data"
    BY <1>3, <1>8
  <2>5. f[c].Data # HCELL_NIL => e[f[c].Data].kind = "free"
    BY <2>2
  <2>6. f \in CellsType /\ e \in CellsType /\ Holding(f, S) /\ c \in OfKind(f, "value") /\ d \in Stored
    BY <1>1, <1>6, <1>8
  <2> HIDE DEF f, e
  <2>7. QED
    BY <2>1, <2>3, <2>4, <2>5, <2>6, HoldingAttached
<1>11. Sound(e, {c}, S)
  <2>1. \A k \in Keys : e[k] = f[k]
    BY <1>1, <1>7, <1>9 DEF Keys, Cells
  <2>2. \A a \in Stored : a \notin {c} \cup {c} => SameToLists(f, e, a)
    BY <1>7, <1>8, <1>9 DEF SameToLists
  <2>3. \A a \in {c} : e[a].kind = "value" /\ (a \in {c} \/ f[a].kind \in {"free", "data"})
    BY <1>3
  <2>4. \A a \in {c} \ {c} : e[a].kind \in {"free", "data"}
    OBVIOUS
  <2>5. {c} \in SUBSET Stored /\ e \in CellsType /\ Sound(f, {c}, S)
    BY <1>1, <1>6
  <2> HIDE DEF f, e
  <2>6. QED
    BY <1>10, <2>1, <2>2, <2>3, <2>4, <2>5, SoundData
<1>12. \A a \in Stable : g.cell[a] = h.cell[a]
  BY <1>1, VolatileFacts
<1> DEFINE r == [hive |-> g, cell |-> c]
<1>13. r.hive = g /\ r.cell = c
  OBVIOUS
<1> HIDE DEF r
<1>14. CopyMade(h, S, r)
  BY <1>11, <1>12, <1>13 DEF CopyMade, Good
<1>15. QED
  BY <1>14 DEF r

\* CmpCopyValue makes a copy, or leaves nothing of it.
LEMMA CopyValueFacts ==
  ASSUME NEW h, NEW S, Good(h, {}, S), NEW v \in OfKind(h.cell, "value")
  PROVE  CopyMade(h, S, CmpCopyValue(h, v, VolatileCells))
<1> DEFINE f == h.cell
           x == f[v]
           r == HvAllocateCell(h, VolatileCells, x)
           c == r.cell
           i == r.hive
           made == Copied(i, v, c, VolatileCells)
<1>1. h \in Hives /\ f \in CellsType /\ Sound(f, {}, S) /\ v \in Stored /\ v \in Cells /\ f[v].kind = "value"
  BY StoreFacts DEF Good, Sound, OfKind
<1>2. Allocated(h, VolatileCells, x, r)
  BY VolatileFacts, AllocateFacts
<1>3. /\ x \in ValueContents /\ WellMade(x)
      /\ x.Data # HCELL_NIL => /\ x.Data \in Stored /\ x.Data # v /\ f[x.Data] \in DataContents
  BY <1>1, ValueFacts
<1>4. CmpCopyValue(h, v, VolatileCells) = IF c = HCELL_NIL THEN r ELSE made
  BY DEF CmpCopyValue
<1> HIDE DEF r, f, x
<1>5. CASE c = HCELL_NIL
  <2>1. r.hive = h
    BY <1>2, <1>5, VolatileFacts DEF Allocated
  <2>2. CopyMade(h, S, r)
    BY <1>5, <2>1 DEF CopyMade, Marked
  <2>3. QED
    BY <1>4, <1>5, <2>2
<1>6. CASE c # HCELL_NIL
  <2>1. c \in VolatileCells /\ h.cell[c] = Free /\ i = Put(h, c, x)
    BY <1>2, <1>6 DEF Allocated
  <2>2. c \in Stored /\ c \notin Stable /\ x \in StoredContents /\ x.kind = "value"
    BY <1>3, <2>1, VolatileFacts DEF StoredContents, ValueContents
  <2> HIDE DEF c, i
  <2>3. /\ i \in Hives /\ Marked(h, i) /\ \A a \in Cells \ {c} : i.cell[a] = h.cell[a]
    BY <1>1, <2>1, <2>2, PutFacts
  <2>4. i.cell[v] = x /\ v # c
    BY <1>1, <2>1, <2>3 DEF f, x, Free
  <2> DEFINE into(q) == IF q.cell = HCELL_NIL THEN [hive |-> HvFreeCell(i, c), cell |-> HCELL_NIL]
                        ELSE [hive |-> Put(q.hive, c, [x EXCEPT !.Data = q.cell]), cell |-> c]
             q == HvAllocateCell(i, VolatileCells, i.cell[x.Data])
  <2>5. made = CASE CmpGetValueData(i, v) \in {Empty, Void} ->
                      [hive |-> Put(i, c, CM_KEY_VALUE(x.Name)), cell |-> c]
                 [] x.Small /\ x.Inline # Empty -> [hive |-> Put(i, c, x), cell |-> c]
                 [] OTHER -> into(q)
    BY <2>4 DEF Copied
  <2>6. CmpGetValueData(i, v) = IF x.Small THEN x.Inline
                                ELSE IF x.Data = HCELL_NIL THEN Void ELSE i.cell[x.Data].Bytes
    BY <2>4 DEF CmpGetValueData
  <2> HIDE DEF made
  <2>7. CASE CmpGetValueData(i, v) \in {Empty, Void} /\ made = [hive |-> Put(i, c, CM_KEY_VALUE(x.Name)), cell |-> c]
    <3> DEFINE y == CM_KEY_VALUE(x.Name)
    <3>1. y \in ValueContents /\ y \in StoredContents /\ WellMade(y) /\ y.Data = HCELL_NIL
      BY <1>3 DEF CM_KEY_VALUE, ValueContents, StoredContents, WellMade
    <3> HIDE DEF y
    <3>2. Put(i, c, y) = Put(h, c, y)
      BY <1>1, <2>1, <2>2, <3>1, PutTwice
    <3>3. CopyMade(h, S, [hive |-> Put(h, c, y), cell |-> c])
      BY <2>1, <3>1, PlainCopy
    <3>4. made = [hive |-> Put(h, c, y), cell |-> c]
      BY <2>7, <3>2 DEF y
    <3>5. QED
      BY <1>4, <1>6, <3>3, <3>4 DEF made, c, i
  <2>8. CASE x.Small /\ made = [hive |-> Put(i, c, x), cell |-> c]
    <3>1. x.Data = HCELL_NIL
      BY <1>3, <2>8 DEF WellMade
    <3>2. Put(i, c, x) = Put(h, c, x)
      BY <1>1, <2>1, <2>2, PutTwice
    <3>3. CopyMade(h, S, [hive |-> Put(h, c, x), cell |-> c])
      BY <1>3, <2>1, <3>1, PlainCopy
    <3>4. made = [hive |-> Put(h, c, x), cell |-> c]
      BY <2>8, <3>2
    <3>5. QED
      BY <1>4, <1>6, <3>3, <3>4 DEF made, c, i
  <2>9. CASE ~x.Small /\ x.Data # HCELL_NIL /\ made = into(q)
    <3> DEFINE d == q.cell
               j == q.hive
               y == [x EXCEPT !.Data = d]
               z == i.cell[x.Data]
    <3>1. x.Data \in Stored /\ f[x.Data] \in DataContents
      BY <1>3, <2>9
    <3>2. x.Data # c /\ z = f[x.Data]
      <4>1. Free \notin DataContents
        BY DEF Free, DataContents
      <4>2. x.Data # c
        BY <2>1, <3>1, <4>1 DEF f
      <4>3. QED
        BY <2>3, <3>1, <4>2, StoreFacts DEF f
    <3>3. z \in DataContents /\ z \in StoredContents
      BY <3>1, <3>2 DEF StoredContents
    <3>4. Allocated(i, VolatileCells, z, q)
      BY VolatileFacts, AllocateFacts
    <3> HIDE DEF q, z
    <3>5. CASE d = HCELL_NIL
      <4>1. made = [hive |-> HvFreeCell(i, c), cell |-> HCELL_NIL]
        BY <2>9, <3>5
      <4> DEFINE g == Put(h, c, Free)
      <4>2. HvFreeCell(i, c) = g
        BY <1>1, <2>1, <2>2, FreeIsStored, PutTwice DEF HvFreeCell
      <4>3. /\ g \in Hives /\ Marked(h, g) /\ g.cell[c] = Free
            /\ \A a \in Cells \ {c} : g.cell[a] = h.cell[a]
        BY <1>1, <2>2, FreeIsStored, PutFacts
      <4> HIDE DEF g
      <4>4. g.cell = h.cell
        <5>1. \A a \in Cells : g.cell[a] = h.cell[a]
          BY <2>1, <4>3
        <5>2. h.cell = [a \in Cells |-> h.cell[a]] /\ g.cell = [a \in Cells |-> g.cell[a]]
          BY <1>1, <4>3 DEF Hives, CellsType
        <5>3. QED
          BY <5>1, <5>2
      <4>5. Good(g, {}, S)
        BY <4>3, <4>4 DEF Good
      <4>6. CopyMade(h, S, [hive |-> g, cell |-> HCELL_NIL])
        BY <4>3, <4>4, <4>5 DEF CopyMade
      <4>7. made = [hive |-> g, cell |-> HCELL_NIL]
        BY <4>1, <4>2
      <4>8. QED
        BY <1>4, <1>6, <4>6, <4>7 DEF made, c, i
    <3>6. CASE d # HCELL_NIL
      <4>1. d \in VolatileCells /\ i.cell[d] = Free /\ j = Put(i, d, z)
        BY <3>4, <3>6 DEF Allocated
      <4>2. made = [hive |-> Put(j, c, y), cell |-> c]
        BY <2>9, <3>6
      <4>3. i.cell[c] = x
        BY <1>1, <2>1, <2>2, PutFacts
      <4>4. d # c /\ h.cell[d] = Free /\ d \in Stored /\ d \in Cells
        <5>1. d # c
          BY <2>2, <4>1, <4>3 DEF Free
        <5>2. QED
          BY <2>3, <4>1, <5>1, VolatileFacts, StoreFacts
      <4>5. y \in ValueContents /\ WellMade(y) /\ y.Data = d
        BY <1>3, <2>9, <3>6, <4>4 DEF ValueContents, WellMade
      <4>6. y \in StoredContents
        BY <4>5 DEF StoredContents
      <4> HIDE DEF d, j, y
      <4>7. /\ j \in Hives /\ Marked(i, j) /\ j.cell[d] = z
            /\ \A a \in Cells \ {d} : j.cell[a] = i.cell[a]
        BY <2>3, <3>3, <4>1, <4>4, PutFacts
      <4> DEFINE g == Put(j, c, y)
      <4>8. /\ g \in Hives /\ Marked(j, g) /\ g.cell[c] = y
            /\ \A a \in Cells \ {c} : g.cell[a] = j.cell[a]
        BY <2>2, <4>6, <4>7, PutFacts
      <4> HIDE DEF g
      <4>9. Marked(h, g)
        <5>1. Marked(h, j)
          BY <2>3, <4>7, MarkedTwice
        <5>2. QED
          BY <4>8, <5>1, MarkedTwice
      <4>10. g.cell[d] \in DataContents
        BY <3>3, <4>4, <4>7, <4>8
      <4>11. \A a \in Cells : a # c /\ a # d => g.cell[a] = h.cell[a]
        BY <2>3, <4>7, <4>8
      <4>12. CopyMade(h, S, [hive |-> g, cell |-> c])
        BY <2>1, <4>1, <4>4, <4>5, <4>8, <4>9, <4>10, <4>11, FullCopy
      <4>13. QED
        BY <1>4, <1>6, <4>2, <4>12 DEF made, c, i, g
    <3>7. QED
      BY <3>5, <3>6
  <2>10. \/ CmpGetValueData(i, v) \in {Empty, Void} /\ made = [hive |-> Put(i, c, CM_KEY_VALUE(x.Name)), cell |-> c]
         \/ x.Small /\ made = [hive |-> Put(i, c, x), cell |-> c]
         \/ ~x.Small /\ x.Data # HCELL_NIL /\ made = into(q)
    <3> HIDE DEF into, q
    <3>1. CASE CmpGetValueData(i, v) \in {Empty, Void}
      BY <2>5, <3>1
    <3>2. CASE CmpGetValueData(i, v) \notin {Empty, Void} /\ x.Small /\ x.Inline # Empty
      BY <2>5, <3>2
    <3>3. CASE CmpGetValueData(i, v) \notin {Empty, Void} /\ ~(x.Small /\ x.Inline # Empty)
      <4>1. made = into(q)
        BY <2>5, <3>3
      <4>2. x.Small \in BOOLEAN
        BY <1>3 DEF ValueContents
      <4>3. ~x.Small /\ x.Data # HCELL_NIL
        BY <2>6, <3>3, <4>2
      <4>4. QED
        BY <4>1, <4>3
    <3>4. QED
      BY <3>1, <3>2, <3>3
  <2>11. QED
    BY <2>7, <2>8, <2>9, <2>10
<1>7. QED
  BY <1>5, <1>6

\* The hive a is sound, and nothing stable has changed as long as all went well.
Outcome(h, S, a) ==
  /\ a.good \in BOOLEAN /\ Good(a.hive, {}, S) /\ Marked(h, a.hive)
  /\ a.good => \A c \in Stable : a.hive.cell[c] = h.cell[c]

\* A copy is put on the list of the volatile key, or freed.
LEMMA CopiedIntoFacts ==
  ASSUME NEW h, NEW S, NEW r, CopyMade(h, S, r)
  PROVE  Outcome(h, S, CopiedInto(r, VolatileKey, VolatileCells))
<1> DEFINE g == r.hive
           v == r.cell
           k == VolatileKey
           added == CmpAddValueToList(g, k, v, g.cell[k].Count, VolatileCells)
           a == CopiedInto(r, k, VolatileCells)
<1>1. Marked(h, g) /\ \A c \in Stable : g.cell[c] = h.cell[c]
  BY DEF CopyMade
<1>2. CASE v = HCELL_NIL
  <2>1. Good(g, {}, S)
    BY <1>2, VolatileFacts DEF CopyMade
  <2>2. a = [hive |-> g, good |-> FALSE]
    BY <1>2 DEF CopiedInto
  <2>3. a.hive = g /\ a.good = FALSE
    BY <2>2
  <2> HIDE DEF a, g
  <2>4. Outcome(h, S, a)
    BY <1>1, <2>1, <2>3 DEF Outcome
  <2>5. QED
    BY <2>4 DEF a
<1>3. CASE v # HCELL_NIL
  <2>1. v \in VolatileCells /\ Good(g, {v}, S) /\ StoreOf(k) = VolatileCells
    BY <1>3, VolatileFacts DEF CopyMade
  <2>2. k \in Keys /\ v \in {v} \cap StoreOf(k) /\ MarkedList(g, k) /\ v \in Stored
    BY <2>1, VolatileFacts DEF MarkedList
  <2> HIDE DEF g, v, k
  <2>3. Added(g, k, v, {v}, S, added)
    BY <2>1, <2>2, AddFacts
  <2>4. a = IF added.cell = HCELL_NIL THEN [hive |-> CmpFreeValue(g, v), good |-> FALSE]
            ELSE [hive |-> added.hive, good |-> TRUE]
    BY <1>3 DEF CopiedInto, g, v
  <2>5. {v} \ {v} = {} /\ {v} \in SUBSET Stored /\ v \in {v}
    BY <2>2
  <2> HIDE DEF added, a
  <2>6. CASE added.cell = HCELL_NIL
    <3> DEFINE b == CmpFreeValue(g, v)
    <3>1. IsFreed(g, v, b) /\ Good(b, {v} \ {v}, S)
      BY <2>1, <2>5, FreeValueFacts
    <3>2. a = [hive |-> b, good |-> FALSE]
      BY <2>4, <2>6
    <3> HIDE DEF b
    <3>3. Marked(h, b)
      BY <1>1, <3>1, MarkedTwice DEF IsFreed
    <3>4. a.hive = b /\ a.good = FALSE
      BY <3>2
    <3>5. Outcome(h, S, a)
      BY <2>5, <3>1, <3>3, <3>4 DEF Outcome
    <3>6. QED
      BY <3>5 DEF a, k
  <2>7. CASE added.cell # HCELL_NIL
    <3> DEFINE b == added.hive
    <3>1. /\ Good(b, {v} \ {v}, S) /\ Marked(g, b)
          /\ \A c \in Cells \ (StoreOf(k) \cup {k}) : b.cell[c] = g.cell[c]
      BY <2>3, <2>7 DEF Added
    <3>2. a = [hive |-> b, good |-> TRUE]
      BY <2>4, <2>7
    <3> HIDE DEF b
    <3>3. a.hive = b /\ a.good = TRUE
      BY <3>2
    <3>4. Marked(h, b)
      BY <1>1, <3>1, MarkedTwice
    <3>5. \A c \in Stable : b.cell[c] = h.cell[c]
      BY <1>1, <2>1, <3>1, VolatileFacts DEF k
    <3>6. Outcome(h, S, a)
      BY <2>5, <3>1, <3>3, <3>4, <3>5 DEF Outcome
    <3>7. QED
      BY <3>6 DEF a, k
  <2>8. QED
    BY <2>6, <2>7
<1>4. QED
  BY <1>2, <1>3

LEMMA CopyOneFacts ==
  ASSUME NEW h, NEW S, NEW v \in StableCells, h.cell[v].kind = "value", NEW a, Outcome(h, S, a)
  PROVE  Outcome(h, S, CopyOne(a, v))
<1>1. CASE a.good
  <2> DEFINE r == CmpCopyValue(a.hive, v, VolatileCells)
  <2>1. Good(a.hive, {}, S) /\ Marked(h, a.hive) /\ \A c \in Stable : a.hive.cell[c] = h.cell[c]
    BY <1>1 DEF Outcome
  <2>2. v \in OfKind(a.hive.cell, "value")
    BY <2>1, VolatileFacts DEF OfKind, Stored
  <2>3. CopyMade(a.hive, S, r)
    BY <2>1, <2>2, CopyValueFacts
  <2>4. CopyOne(a, v) = CopiedInto(r, VolatileKey, VolatileCells)
    BY <1>1 DEF CopyOne
  <2> HIDE DEF r
  <2>5. CopyMade(h, S, r)
    <3>1. Marked(a.hive, r.hive) /\ \A c \in Stable : r.hive.cell[c] = a.hive.cell[c]
      BY <2>3 DEF CopyMade
    <3>2. Marked(h, r.hive)
      BY <2>1, <3>1, MarkedTwice
    <3>3. QED
      BY <2>1, <2>3, <3>1, <3>2 DEF CopyMade
  <2>6. QED
    BY <2>4, <2>5, CopiedIntoFacts
<1>2. CASE ~a.good
  BY <1>2 DEF CopyOne
<1>3. QED
  BY <1>1, <1>2

\* The function g folds the copying over e, the values of the stable key.
Copying(h, e, g) ==
  /\ e = Entries(h.cell, StableKey)
  /\ Folds("copy", {[hive |-> h, good |-> TRUE]}, e, Len(e), g)

\* All values of the stable key have been tried.
LEMMA OutcomesFacts ==
  ASSUME NEW h, NEW S, Good(h, {}, S), NEW e, NEW g, Copying(h, e, g)
  PROVE  \A a \in g[1 .. Len(e)] : Outcome(h, S, a)
<1> DEFINE N == Len(e)
           b == {[hive |-> h, good |-> TRUE]}
<1>1. h.cell \in CellsType /\ Listing(h.cell, StableKey, {})
  <2>1. {} \cap StoreOf(StableKey) = {}
    OBVIOUS
  <2>2. QED
    BY <2>1, VolatileFacts DEF Good, Sound
<1>2. {} \in SUBSET StoreOf(StableKey)
  OBVIOUS
<1>3. e \in Seq(StableCells) /\ \A v \in Range(e) : v \in OfKind(h.cell, "value")
  BY <1>1, <1>2, VolatileFacts, EntriesFacts DEF Listing, Copying
<1>4. N \in Nat /\ \A m \in 1 .. N : e[m] \in StableCells /\ h.cell[e[m]].kind = "value"
  BY <1>3 DEF OfKind, Range
<1> HIDE DEF b
<1>5. /\ g[1 .. 0] = b
      /\ \A m \in 1 .. N : g[1 .. m] = {CopyOne(a, e[m]) : a \in g[1 .. m - 1]}
  <2>1. Folds("copy", b, e, N, g)
    BY DEF b, Copying
  <2>2. N \in Nat
    BY <1>4
  <2> HIDE DEF N
  <2> DEFINE op == "copy"
  <2>3. Folds(op, b, e, N, g)
    BY <2>1
  <2> HIDE DEF op
  <2>4. /\ g[1 .. 0] = b
        /\ \A m \in 1 .. N : g[1 .. m] = Step(op, g[1 .. m - 1], e[m])
    BY <2>2, <2>3, FoldsStep
  <2>5. QED
    BY <2>4 DEF Step, op
<1> HIDE DEF N
<1>6. \A a \in b : Outcome(h, S, a)
  <2> DEFINE a == [hive |-> h, good |-> TRUE]
  <2>1. a.hive = h /\ a.good = TRUE
    OBVIOUS
  <2>2. b = {a}
    BY DEF b
  <2> HIDE DEF a
  <2>3. Outcome(h, S, a)
    BY <2>1 DEF Outcome, Marked
  <2>4. QED
    BY <2>2, <2>3
<1> DEFINE Bad == {n \in 0 .. N : ~\A a \in g[1 .. n] : Outcome(h, S, a)}
<1>7. Bad = {}
  <2> SUFFICES ASSUME Bad # {} PROVE FALSE
    OBVIOUS
  <2> DEFINE m == Min(Bad)
  <2>1. Bad \in SUBSET Nat
    BY <1>4
  <2>2. m \in Bad /\ \A n \in Bad : m <= n
    BY <2>1, MinFacts
  <2> HIDE DEF m
  <2>3. m \in 0 .. N /\ ~\A a \in g[1 .. m] : Outcome(h, S, a)
    BY <2>2
  <2>4. m # 0
    BY <1>5, <1>6, <2>3
  <2>5. m \in 1 .. N /\ m - 1 \in 0 .. N /\ ~(m <= m - 1)
    BY <1>4, <2>3, <2>4
  <2>6. \A a \in g[1 .. m - 1] : Outcome(h, S, a)
    BY <2>2, <2>5
  <2>7. \A a \in g[1 .. m - 1] : Outcome(h, S, CopyOne(a, e[m]))
    BY <1>4, <2>5, <2>6, CopyOneFacts
  <2>8. QED
    BY <1>5, <2>3, <2>5, <2>7
<1>8. QED
  BY <1>4, <1>7 DEF N

\* CmpCopyKeyValueList copies all values to the volatile key, or empties it again.
LEMMA CopyListFacts ==
  ASSUME Good(hive, {}, stranded.memory), CmpCopyKeyValueList
  PROVE  \E g : /\ Call(g) /\ Good(g, {}, stranded.memory) /\ Marked(hive, g)
<1> DEFINE e == ValuesOf(hive, StableKey)
           b == {[hive |-> hive, good |-> TRUE]}
           Is(g) == g = [s \in SUBSET DOMAIN e |->
                           IF s = {} THEN b
                           ELSE {IF a.good
                                 THEN CopiedInto(CmpCopyValue(a.hive, e[Max(s)], VolatileCells),
                                                 VolatileKey, VolatileCells)
                                 ELSE a : a \in g[s \ {Max(s)}]}]
           w == CHOOSE g : Is(g)
<1>1. \E a \in w[DOMAIN e] : Call(IF a.good THEN a.hive ELSE Emptied(a.hive, VolatileKey))
  BY DEF CmpCopyKeyValueList, FoldLeft, MapThenFoldSet
<1>2. Listing(hive.cell, StableKey, {} \cap StoreOf(StableKey))
  BY VolatileFacts DEF Good, Sound
<1>3. e = Entries(hive.cell, StableKey) /\ e \in Seq(StableCells)
  BY <1>2, VolatileFacts, ValuesAreEntries DEF Listing
<1>4. DOMAIN e = 1 .. Len(e) /\ Len(e) \in Nat
  BY <1>3
<1> HIDE DEF e, b
<1>5. \A g : Folds("copy", b, e, Len(e), g) <=> Is(g)
  BY <1>4 DEF Folds, Step, CopyOne
<1>6. \E g : Is(g)
  BY <1>4, <1>5, FoldsExists
<1>7. Is(w)
  BY <1>6
<1> HIDE DEF w
<1>8. Folds("copy", b, e, Len(e), w)
  BY <1>5, <1>7
<1> HIDE DEF Is
<1>9. \A a \in w[DOMAIN e] : Outcome(hive, stranded.memory, a)
  BY <1>3, <1>4, <1>8, OutcomesFacts DEF b, Copying
<1>10. PICK a \in w[DOMAIN e] : Call(IF a.good THEN a.hive ELSE Emptied(a.hive, VolatileKey))
  BY <1>1
<1>11. Outcome(hive, stranded.memory, a)
  BY <1>9
<1>12. CASE a.good
  BY <1>10, <1>11, <1>12 DEF Outcome
<1>13. CASE ~a.good
  <2>1. Good(a.hive, {}, stranded.memory) /\ Marked(hive, a.hive)
    BY <1>11 DEF Outcome
  <2>2. MarkedList(a.hive, VolatileKey) /\ VolatileKey \in Keys
    BY VolatileFacts DEF MarkedList
  <2> DEFINE g == Emptied(a.hive, VolatileKey)
  <2>3. Good(g, {}, stranded.memory) /\ Marked(a.hive, g)
    BY <2>1, <2>2, EmptiedFacts
  <2>4. Call(g)
    BY <1>10, <1>13
  <2> HIDE DEF g
  <2>5. Marked(hive, g)
    BY <2>1, <2>3, MarkedTwice
  <2>6. QED
    BY <2>3, <2>4, <2>5
<1>14. QED
  BY <1>12, <1>13

-----------------------------------------------------------------------------
(* The file *)

\* An empty hive is sound.
LEMMA EmptySound ==
  ASSUME NEW f \in CellsType, \A c \in Stored : f[c] = Free,
         \A k \in Keys : f[k] = CHILD_LIST(0, HCELL_NIL)
  PROVE  Sound(f, {}, {})
<1>1. \A kind \in {"list", "value", "data"} : OfKind(f, kind) = {}
  BY DEF OfKind, Free
<1>2. ASSUME NEW k \in Keys PROVE Listing(f, k, {} \cap StoreOf(k))
  <2>1. f[k].Count = 0
    BY DEF CHILD_LIST
  <2>2. Entries(f, k) = << >>
    BY <2>1 DEF Entries
  <2>3. /\ << >> \in Seq(StoreOf(k)) /\ Len(<< >>) = 0
        /\ Range(<< >>) = {} /\ IsInjective(<< >>)
    BY DEF Range, IsInjective
  <2> DEFINE E == << >>
  <2>4. OfKind(f, "list") = {} /\ OfKind(f, "value") = {}
    BY <1>1
  <2>5. QED
    BY <2>1, <2>2, <2>3, <2>4 DEF Listing
<1>3. Holding(f, {})
  BY <1>1 DEF Holding
<1>4. QED
  BY <1>2, <1>3 DEF Sound

LEMMA NoCellsFacts ==
  /\ NoCells \in CellsType
  /\ \A c \in Stored : NoCells[c] = Free
  /\ \A k \in Keys : NoCells[k] = CHILD_LIST(0, HCELL_NIL)
<1>1. CHILD_LIST(0, HCELL_NIL) \in KeyContents
  BY DEF CHILD_LIST, KeyContents
<1>2. Keys \subseteq Cells /\ \A c \in Stored : c \in Cells /\ c \notin Keys
  BY StoreFacts DEF Keys, Cells
<1>3. \A c \in Cells : c \in Keys \/ c \in Stored
  BY DEF Cells, Keys, Stored
<1>4. QED
  BY <1>1, <1>2, <1>3, FreeIsStored DEF NoCells, CellsType

\* The cells when those of the stable store are read from a file.
Stably(f) == [c \in Cells |-> IF c \in Stable THEN f[c] ELSE NoCells[c]]

\* What is written can be read: the data of volatile values, if they are in the stable
\* store, are then data without a value.
LEMMA WrittenSound ==
  ASSUME NEW h, NEW S, Good(h, {}, S)
  PROVE  Sound(Stably(h.cell), {}, S \cup (DataOf(h, VolatileKey) \cap StableCells))
<1> DEFINE f == h.cell
           g == Stably(f)
           D == DataOf(h, VolatileKey) \cap StableCells
           W == Range(Entries(f, VolatileKey))
<1>1. f \in CellsType /\ Holding(f, S) /\ \A k \in Keys : Listing(f, k, {})
  <2>1. \A k \in Keys : {} \cap StoreOf(k) = {}
    OBVIOUS
  <2>2. QED
    BY <2>1 DEF Good, Sound
<1>2. ValuesOf(h, VolatileKey) = Entries(f, VolatileKey)
  BY <1>1, VolatileFacts, ValuesAreEntries
<1>3. /\ \A c \in Stable : g[c] = f[c]
      /\ \A c \in VolatileCells : g[c] = Free
      /\ g[VolatileKey] = CHILD_LIST(0, HCELL_NIL)
      /\ g \in CellsType
  <2>1. \A c \in Cells : g[c] = IF c \in Stable THEN f[c] ELSE NoCells[c]
    BY DEF Stably
  <2>2. \A c \in VolatileCells : c \in Cells /\ c \in Stored /\ c \notin Stable
    BY VolatileFacts, StoreFacts
  <2>3. VolatileKey \in Cells /\ Stable \subseteq Cells
    BY VolatileFacts DEF Cells
  <2>4. g \in CellsType
    BY <1>1, <2>1, NoCellsFacts DEF CellsType, Stably, Cells, Keys, Stored
  <2>5. QED
    BY <2>1, <2>2, <2>3, <2>4, VolatileFacts, NoCellsFacts
<1>4. D = {f[v].Data : v \in W} \cap StableCells
  <2>1. HCELL_NIL \notin StableCells
    BY StoreFacts DEF Stored
  <2>2. QED
    BY <1>2, <2>1 DEF DataOf
<1> HIDE DEF f, g, D
<1>5. \A v \in W : v \in OfKind(f, "value") /\ v \in VolatileCells
  <2>1. {} \in SUBSET StoreOf(VolatileKey)
    OBVIOUS
  <2>2. Listing(f, VolatileKey, {})
    BY <1>1, VolatileFacts
  <2>3. QED
    BY <1>1, <2>1, <2>2, VolatileFacts, EntriesFacts
<1>6. OfKind(f, "value") \cap VolatileCells = W
  <2>1. Listing(f, VolatileKey, {})
    BY <1>1, VolatileFacts
  <2>2. QED
    BY <2>1, VolatileFacts DEF Listing
<1> HIDE DEF W
<1>7. /\ Stored = StableCells \cup VolatileCells /\ StableCells \cap VolatileCells = {}
      /\ StableCells \subseteq Stable /\ Free.kind = "free"
      /\ \A c \in Stored : c # HCELL_NIL
  BY VolatileFacts, StoreFacts DEF Stored, Free
<1>8. \A kind \in {"value", "data", "list"} : OfKind(g, kind) = OfKind(f, kind) \cap StableCells
  BY <1>3, <1>7 DEF OfKind
<1>9. Holding(g, S \cup D)
  <2>1. /\ OfKind(g, "value") = OfKind(f, "value") \cap StableCells
        /\ OfKind(g, "data") = OfKind(f, "data") \cap StableCells
        /\ \A c \in StableCells : g[c] = f[c]
    BY <1>3, <1>7, <1>8
  <2>2. /\ S \subseteq StableCells \cap OfKind(f, "data")
        /\ \A v \in OfKind(f, "value") :
             /\ WellMade(f[v])
             /\ f[v].Data # HCELL_NIL => f[v].Data \in OfKind(f, "data") \ S
             /\ f[v].Data # HCELL_NIL /\ v \in StableCells => f[v].Data \in StableCells
        /\ \A v, w \in OfKind(f, "value") :
             f[v].Data = f[w].Data /\ f[v].Data # HCELL_NIL => v = w
        /\ \A d \in OfKind(f, "data") : d \in S \/ \E v \in OfKind(f, "value") : f[v].Data = d
    BY <1>1 DEF Holding
  <2>3. \A d \in D : d \in StableCells /\ \E v \in W : d = f[v].Data
    BY <1>4
  <2>4. D \subseteq StableCells \cap OfKind(f, "data")
    BY <1>5, <1>7, <2>2, <2>3
  <2>5. \A v \in OfKind(g, "value") : f[v].Data # HCELL_NIL => f[v].Data \notin D
    BY <1>5, <1>7, <2>1, <2>2, <2>3
  <2>6. S \cup D \subseteq StableCells \cap OfKind(g, "data")
    BY <2>1, <2>2, <2>4
  <2>7. \A v \in OfKind(g, "value") :
          /\ WellMade(g[v])
          /\ g[v].Data # HCELL_NIL => g[v].Data \in OfKind(g, "data") \ (S \cup D)
          /\ g[v].Data # HCELL_NIL /\ v \in StableCells => g[v].Data \in StableCells
    BY <2>1, <2>2, <2>5
  <2>8. \A v, w \in OfKind(g, "value") :
          g[v].Data = g[w].Data /\ g[v].Data # HCELL_NIL => v = w
    BY <2>1, <2>2
  <2>9. ASSUME NEW d \in OfKind(g, "data")
        PROVE  d \in S \cup D \/ \E v \in OfKind(g, "value") : g[v].Data = d
    <3>1. d \in OfKind(f, "data") /\ d \in StableCells
      BY <2>1, <2>9
    <3>2. CASE d \in S
      BY <3>2
    <3>3. CASE \E v \in OfKind(f, "value") : f[v].Data = d
      <4>1. PICK v \in OfKind(f, "value") : f[v].Data = d
        BY <3>3
      <4>2. CASE v \in StableCells
        BY <2>1, <4>1, <4>2
      <4>3. CASE v \notin StableCells
        <5>1. v \in W
          BY <1>6, <1>7, <4>3 DEF OfKind
        <5>2. QED
          BY <1>4, <3>1, <4>1, <5>1
      <4>4. QED
        BY <4>2, <4>3
    <3>4. QED
      BY <2>2, <3>1, <3>2, <3>3
  <2>10. QED
    BY <2>6, <2>7, <2>8, <2>9 DEF Holding
<1>10. Listing(g, StableKey, {})
  <2>1. Listing(f, StableKey, {}) /\ g[StableKey] = f[StableKey]
    BY <1>1, <1>3, VolatileFacts
  <2>2. {} \in SUBSET StoreOf(StableKey)
    OBVIOUS
  <2>3. \A c \in StoreOf(StableKey) : SameToLists(f, g, c)
    BY <1>3, VolatileFacts DEF SameToLists
  <2> DEFINE X == {}
  <2>4. /\ \A c \in StoreOf(StableKey) : c \notin X \cup X => SameToLists(f, g, c)
        /\ \A c \in X : g[c].kind = "value" /\ (c \in X \/ f[c].kind \in {"free", "data"})
        /\ \A c \in X \ X : g[c].kind \in {"free", "data"}
        /\ X \in SUBSET StoreOf(StableKey) /\ Listing(f, StableKey, X)
    BY <2>1, <2>3
  <2> HIDE DEF X
  <2>5. Listing(g, StableKey, X)
    BY <1>1, <1>3, <2>1, <2>4, VolatileFacts, ListingKept
  <2>6. QED
    BY <2>5 DEF X
<1>11. Listing(g, VolatileKey, {})
  <2>1. g[VolatileKey].Count = 0
    BY <1>3 DEF CHILD_LIST
  <2>2. Entries(g, VolatileKey) = << >>
    BY <2>1 DEF Entries
  <2>3. OfKind(g, "list") \cap StoreOf(VolatileKey) = {} /\ OfKind(g, "value") \cap StoreOf(VolatileKey) = {}
    BY <1>7, <1>8, VolatileFacts
  <2>4. /\ << >> \in Seq(StoreOf(VolatileKey)) /\ Len(<< >>) = 0
        /\ Range(<< >>) = {} /\ IsInjective(<< >>)
    BY DEF Range, IsInjective
  <2>5. QED
    BY <2>1, <2>2, <2>3, <2>4 DEF Listing
<1>12. Sound(g, {}, S \cup D)
  <2>1. \A k \in Keys : {} \cap StoreOf(k) = {}
    OBVIOUS
  <2>2. \A k \in Keys : Listing(g, k, {})
    BY <1>10, <1>11 DEF Keys
  <2>3. QED
    BY <1>3, <1>9, <2>1, <2>2 DEF Sound
<1>13. QED
  BY <1>12 DEF g, f, D

-----------------------------------------------------------------------------
(* The steps *)

\* A call that marks what it changes.
LEMMA CallFacts ==
  ASSUME IInv, NEW g, Call(g), Good(g, {}, stranded.memory), Marked(hive, g)
  PROVE  IInv'
<1>1. /\ hive' = g /\ file' = file /\ stranded' = stranded
      /\ overrun' = ~Fits(g) /\ calls < MaxCalls /\ calls' = calls + 1
  BY DEF Call
<1>2. hive' \in Hives /\ Sound(hive'.cell, {}, stranded'.memory)
  BY <1>1 DEF Good
<1>3. InFile' = InFile
  BY <1>1 DEF InFile
<1>4. InFile' \in Hives /\ Sound(InFile'.cell, {}, stranded'.file)
  BY <1>1, <1>3 DEF IInv
<1>5. ChangesAreDirty'
  <2>1. hive'.dirty = g.dirty /\ hive'.cell = g.cell /\ file' = file
    BY <1>1
  <2>2. \A c \in Stable : hive.cell[c] # file[c] => c \in hive.dirty
    BY DEF IInv, ChangesAreDirty
  <2>3. \A c \in Stable : g.cell[c] # file[c] => c \in g.dirty
    BY <2>2 DEF Marked
  <2>4. QED
    BY <2>1, <2>3 DEF ChangesAreDirty
<1>6. overrun' \in BOOLEAN
  BY <1>1 DEF Fits
<1>7. calls' \in 0 .. MaxCalls
  BY <1>1, SizesAssumption DEF IInv
<1>8. DOMAIN file' = Stable /\ stranded' \in [memory : SUBSET StableCells, file : SUBSET StableCells]
  BY <1>1 DEF IInv
<1>9. QED
  BY <1>2, <1>4, <1>5, <1>6, <1>7, <1>8 DEF IInv

LEMMA SetStep ==
  ASSUME IInv, NEW k \in Keys, NEW name \in Names, NEW p \in Payloads,
         NTRegSetValueExW(k, name, p)
  PROVE  IInv'
<1> DEFINE r == Found(HvMarkCellsDirty(hive, {k}), k, name)
           g == CASE r.cell = HCELL_NIL -> r.hive
                  [] r.cell # HCELL_NIL /\ LengthOf[p] <= 4 -> SetInline(r.hive, r.cell, p)
                  [] OTHER -> SetData(r.hive, r.cell, p)
<1>1. Call(g)
  BY DEF NTRegSetValueExW
<1>2. Good(hive, {}, stranded.memory)
  BY DEF IInv, Good
<1>3. Good(g, {}, stranded.memory) /\ Marked(hive, g)
  BY <1>2, SetValueFacts
<1> HIDE DEF g
<1>4. QED
  BY <1>1, <1>3, CallFacts

LEMMA DeleteStep ==
  ASSUME IInv, NEW k \in Keys, NEW name \in Names, NTRegDeleteValueW(k, name)
  PROVE  IInv'
<1> DEFINE i == CmpFindNameInList(hive, k, name)
           v == ValuesOf(hive, k)[i]
           g == CmpFreeValue(CmpRemoveValueFromList(MarkedForDelete(hive, k, v), k, i), v)
<1>1. i # 0 /\ Call(g)
  BY DEF NTRegDeleteValueW
<1>2. Good(hive, {}, stranded.memory)
  BY DEF IInv, Good
<1>3. Good(g, {}, stranded.memory) /\ Marked(hive, g)
  BY <1>1, <1>2, DeleteFacts
<1> HIDE DEF g
<1>4. QED
  BY <1>1, <1>3, CallFacts

LEMMA FreeKeyStep ==
  ASSUME IInv, NEW k \in Keys, CmpFreeKeyByCell(k)
  PROVE  IInv'
<1> DEFINE g == Emptied(CmpMarkKeyDirty(hive, k), k)
<1>1. Call(g)
  BY DEF CmpFreeKeyByCell
<1>2. Good(hive, {}, stranded.memory)
  BY DEF IInv, Good
<1>3. Good(g, {}, stranded.memory) /\ Marked(hive, g)
  BY <1>2, FreeKeyFacts
<1> HIDE DEF g
<1>4. QED
  BY <1>1, <1>3, CallFacts

LEMMA CopyStep ==
  ASSUME IInv, CmpCopyKeyValueList
  PROVE  IInv'
<1>1. Good(hive, {}, stranded.memory)
  BY DEF IInv, Good
<1>2. PICK g : Call(g) /\ Good(g, {}, stranded.memory) /\ Marked(hive, g)
  BY <1>1, CopyListFacts
<1>3. QED
  BY <1>2, CallFacts

\* Every stable cell in the file is then as in memory.
LEMMA FlushStep ==
  ASSUME IInv, Flush
  PROVE  IInv'
<1> DEFINE f == hive.cell
           D == DataOf(hive, VolatileKey) \cap StableCells
<1>1. /\ hive \in Hives /\ Good(hive, {}, stranded.memory) /\ Sound(f, {}, stranded.memory)
      /\ \A c \in Stable : f[c] # file[c] => c \in hive.dirty
  BY DEF IInv, Good, ChangesAreDirty
<1>2. /\ file' = [c \in Stable |-> IF c \in hive.dirty THEN f[c] ELSE file[c]]
      /\ hive' = [hive EXCEPT !.dirty = {}]
      /\ stranded' = [stranded EXCEPT !.file = stranded.memory \cup D]
      /\ UNCHANGED <<overrun, calls>>
  BY DEF Flush
<1>3. \A c \in Stable : file'[c] = f[c]
  BY <1>1, <1>2
<1>4. hive'.cell = f /\ hive'.dirty = {} /\ hive' \in Hives
  BY <1>1, <1>2 DEF Hives
<1>5. InFile' = [cell |-> Stably(f), dirty |-> {}]
  BY <1>3 DEF InFile, Stably
<1>6. Sound(Stably(f), {}, stranded.memory \cup D)
  BY <1>1, WrittenSound
<1>7. InFile'.cell = Stably(f) /\ InFile' \in Hives
  <2>1. Stably(f) \in CellsType
    BY <1>6 DEF Sound
  <2> DEFINE g == Stably(f)
  <2> HIDE DEF g
  <2>2. QED
    BY <1>5, <2>1 DEF Hives, g
<1> HIDE DEF f, D
<1>8. D \subseteq StableCells
  BY DEF D
<1>9. stranded'.memory = stranded.memory /\ stranded'.file = stranded.memory \cup D
  BY <1>2 DEF IInv
<1>10. Sound(hive'.cell, {}, stranded'.memory) /\ Sound(InFile'.cell, {}, stranded'.file)
  BY <1>1, <1>4, <1>6, <1>7, <1>9
<1>11. ChangesAreDirty' /\ DOMAIN file' = Stable
  BY <1>2, <1>3, <1>4 DEF ChangesAreDirty
<1>12. overrun' \in BOOLEAN /\ calls' \in 0 .. MaxCalls
  BY <1>2 DEF IInv
<1>13. stranded' \in [memory : SUBSET StableCells, file : SUBSET StableCells]
  BY <1>2, <1>8 DEF IInv
<1>14. QED
  BY <1>4, <1>7, <1>10, <1>11, <1>12, <1>13 DEF IInv

\* The file is then as before, and in memory.
LEMMA ReloadStep ==
  ASSUME IInv, Reload
  PROVE  IInv'
<1>1. /\ hive' = InFile /\ stranded' = [stranded EXCEPT !.memory = stranded.file]
      /\ UNCHANGED <<file, overrun, calls>>
  BY DEF Reload
<1>2. InFile' = InFile
  BY <1>1 DEF InFile
<1>3. /\ stranded'.memory = stranded.file /\ stranded'.file = stranded.file
      /\ stranded' \in [memory : SUBSET StableCells, file : SUBSET StableCells]
  BY <1>1 DEF IInv
<1>4. /\ hive' \in Hives /\ Sound(hive'.cell, {}, stranded'.memory)
      /\ InFile' \in Hives /\ Sound(InFile'.cell, {}, stranded'.file)
  BY <1>1, <1>2, <1>3 DEF IInv
<1>5. ChangesAreDirty'
  <2>1. \A c \in Stable : InFile.cell[c] = file[c]
    BY DEF InFile, Stable, Cells
  <2>2. \A c \in Stable : hive'.cell[c] = file'[c]
    BY <1>1, <2>1
  <2>3. QED
    BY <2>2 DEF ChangesAreDirty
<1>6. DOMAIN file' = Stable /\ overrun' \in BOOLEAN /\ calls' \in 0 .. MaxCalls
  BY <1>1 DEF IInv
<1>7. QED
  BY <1>3, <1>4, <1>5, <1>6 DEF IInv

LEMMA InitFacts == Init => IInv
<1> SUFFICES ASSUME Init PROVE IInv
  OBVIOUS
<1>1. /\ hive = [cell |-> NoCells, dirty |-> {}] /\ file = [c \in Stable |-> NoCells[c]]
      /\ overrun = FALSE /\ stranded = [memory |-> {}, file |-> {}] /\ calls = 0
  BY DEF Init
<1>2. Sound(NoCells, {}, {}) /\ NoCells \in CellsType
  BY NoCellsFacts, EmptySound
<1>3. InFile.cell = NoCells /\ InFile.dirty = {} /\ InFile = [cell |-> InFile.cell, dirty |-> InFile.dirty]
  <2>1. \A c \in Stable : file[c] = NoCells[c]
    BY <1>1
  <2>2. NoCells = [c \in Cells |-> NoCells[c]]
    BY <1>2 DEF CellsType
  <2> DEFINE w == [c \in Cells |-> IF c \in Stable THEN file[c] ELSE NoCells[c]]
  <2>3. \A c \in Cells : w[c] = NoCells[c]
    BY <2>1
  <2> HIDE DEF w
  <2>4. w = [c \in Cells |-> w[c]]
    BY DEF w
  <2>5. w = NoCells
    BY <2>2, <2>3, <2>4
  <2>6. InFile = [cell |-> w, dirty |-> {}]
    BY DEF InFile, w
  <2>7. QED
    BY <2>5, <2>6
<1> HIDE DEF InFile
<1>4. hive \in Hives /\ InFile \in Hives
  BY <1>1, <1>2, <1>3 DEF Hives
<1>5. ChangesAreDirty
  BY <1>1 DEF ChangesAreDirty
<1>6. /\ DOMAIN file = Stable /\ stranded \in [memory : SUBSET StableCells, file : SUBSET StableCells]
      /\ overrun \in BOOLEAN /\ calls \in 0 .. MaxCalls
  <2>1. MaxCalls \in Nat
    BY SizesAssumption
  <2>2. calls \in 0 .. MaxCalls
    BY <1>1, <2>1
  <2>3. overrun \in BOOLEAN /\ DOMAIN file = Stable
    BY <1>1
  <2>4. stranded \in [memory : SUBSET StableCells, file : SUBSET StableCells]
    BY <1>1
  <2>5. QED
    BY <2>2, <2>3, <2>4
<1>7. Sound(hive.cell, {}, stranded.memory) /\ Sound(InFile.cell, {}, stranded.file)
  BY <1>1, <1>2, <1>3
<1>8. QED
  BY <1>4, <1>5, <1>6, <1>7 DEF IInv

LEMMA StutterStep ==
  ASSUME IInv, UNCHANGED vars
  PROVE  IInv'
<1>1. hive' = hive /\ file' = file /\ overrun' = overrun /\ stranded' = stranded /\ calls' = calls
  BY DEF vars
<1>2. InFile' = InFile
  BY <1>1 DEF InFile
<1>3. ChangesAreDirty'
  BY <1>1 DEF IInv, ChangesAreDirty
<1>4. QED
  BY <1>1, <1>2, <1>3 DEF IInv

\* The invariant holds in every behaviour: through calls that fail half way, flushes
\* and reloads.
THEOREM Invariant == Spec => []IInv
<1>1. IInv /\ [Next]_vars => IInv'
  <2> SUFFICES ASSUME IInv, [Next]_vars PROVE IInv'
    OBVIOUS
  <2>1. ASSUME NEW k \in Keys, NEW name \in Names, NEW p \in Payloads,
               NTRegSetValueExW(k, name, p)
        PROVE  IInv'
    BY <2>1, SetStep
  <2>2. ASSUME NEW k \in Keys, NEW name \in Names, NTRegDeleteValueW(k, name)
        PROVE  IInv'
    BY <2>2, DeleteStep
  <2>3. ASSUME NEW k \in Keys, CmpFreeKeyByCell(k)
        PROVE  IInv'
    BY <2>3, FreeKeyStep
  <2>4. CASE CmpCopyKeyValueList
    BY <2>4, CopyStep
  <2>5. CASE Flush
    BY <2>5, FlushStep
  <2>6. CASE Reload
    BY <2>6, ReloadStep
  <2>7. CASE UNCHANGED vars
    BY <2>7, StutterStep
  <2>8. QED
    BY <2>1, <2>2, <2>3, <2>4, <2>5, <2>6, <2>7 DEF Next
<1>2. QED
  BY <1>1, InitFacts, PTL DEF Spec

-----------------------------------------------------------------------------
(* What the invariant says *)

\* What a key, its list and its values refer to.
LEMMA OwnedFacts ==
  ASSUME NEW h, NEW S, Good(h, {}, S), NEW k \in Keys
  PROVE  /\ ValuesOf(h, k) = Entries(h.cell, k) /\ IsInjective(Entries(h.cell, k))
         /\ Range(Entries(h.cell, k)) = OfKind(h.cell, "value") \cap StoreOf(k)
         /\ DOMAIN Entries(h.cell, k) = 1 .. h.cell[k].Count
         /\ h.cell[k].Count \in Nat
         /\ h.cell[k].Count = 0 => Range(Entries(h.cell, k)) = {}
         /\ OfKind(h.cell, "list") \cap StoreOf(k)
              = (IF h.cell[k].Count = 0 THEN {} ELSE {h.cell[k].List})
<1>1. h.cell \in CellsType /\ Listing(h.cell, k, {})
  <2>1. {} \cap StoreOf(k) = {}
    OBVIOUS
  <2>2. QED
    BY <2>1 DEF Good, Sound
<1>2. {} \in SUBSET StoreOf(k)
  OBVIOUS
<1>3. ValuesOf(h, k) = Entries(h.cell, k)
  BY <1>1, ValuesAreEntries
<1>4. h.cell[k].Count \in Nat /\ (h.cell[k].Count = 0 <=> Entries(h.cell, k) = << >>)
  BY <1>1, <1>2, EntriesFacts
<1> DEFINE e == Entries(h.cell, k)
<1>5. /\ e \in Seq(StoreOf(k)) /\ Len(e) = h.cell[k].Count /\ IsInjective(e)
      /\ OfKind(h.cell, "list") \cap StoreOf(k) = (IF h.cell[k].Count = 0 THEN {} ELSE {h.cell[k].List})
      /\ OfKind(h.cell, "value") \cap StoreOf(k) = Range(e)
  BY <1>1 DEF Listing
<1> HIDE DEF e
<1>6. DOMAIN e = 1 .. h.cell[k].Count
  BY <1>5
<1>7. Range(<< >>) = {}
  BY DEF Range
<1>8. QED
  BY <1>3, <1>4, <1>5, <1>6, <1>7 DEF e

\* The three kinds of references.
ToList(h, k, r) ==
  /\ h.cell[k].Count # 0 /\ r = [to |-> h.cell[k].List, by |-> k, at |-> 0]
  /\ r.to \in OfKind(h.cell, "list") \cap StoreOf(k)

ToValue(h, k, r) ==
  \E i \in DOMAIN Entries(h.cell, k) :
    /\ r = [to |-> Entries(h.cell, k)[i], by |-> h.cell[k].List, at |-> i]
    /\ r.to \in OfKind(h.cell, "value") \cap StoreOf(k) /\ r.to = Entries(h.cell, k)[i]

ToData(h, k, r) ==
  \E v \in OfKind(h.cell, "value") \cap StoreOf(k) :
    /\ r = [to |-> h.cell[v].Data, by |-> v, at |-> 0]
    /\ h.cell[v].Data # HCELL_NIL /\ r.to = h.cell[v].Data

LEMMA ReferenceFacts ==
  ASSUME NEW h, NEW S, Good(h, {}, S), NEW k \in Keys, NEW r \in References(h, k)
  PROVE  ToList(h, k, r) \/ ToValue(h, k, r) \/ ToData(h, k, r)
<1> DEFINE f == h.cell
           e == Entries(f, k)
<1>1. /\ ValuesOf(h, k) = e /\ Range(e) = OfKind(f, "value") \cap StoreOf(k)
      /\ OfKind(f, "list") \cap StoreOf(k) = (IF f[k].Count = 0 THEN {} ELSE {f[k].List})
  BY OwnedFacts
<1>2. \A v \in OfKind(f, "value") : HasData(f[v]) <=> f[v].Data # HCELL_NIL
  BY ValueFacts DEF Good
<1> HIDE DEF e
<1>3. f[k].Count # 0
  BY DEF References
<1>4. \/ r \in {[to |-> f[k].List, by |-> k, at |-> 0]}
      \/ r \in {[to |-> e[i], by |-> f[k].List, at |-> i] : i \in DOMAIN e}
      \/ r \in {[to |-> f[v].Data, by |-> v, at |-> 0] : v \in {w \in Range(e) : HasData(f[w])}}
  BY <1>1, <1>3 DEF References
<1> HIDE DEF f
<1>5. CASE r \in {[to |-> f[k].List, by |-> k, at |-> 0]}
  <2>1. r = [to |-> f[k].List, by |-> k, at |-> 0]
    BY <1>5
  <2>2. r.to = f[k].List
    BY <2>1
  <2>3. r.to \in OfKind(f, "list") \cap StoreOf(k)
    BY <1>1, <1>3, <2>2
  <2>4. QED
    BY <1>3, <2>1, <2>3 DEF ToList, f
<1>6. CASE r \in {[to |-> e[i], by |-> f[k].List, at |-> i] : i \in DOMAIN e}
  <2>1. PICK i \in DOMAIN e : r = [to |-> e[i], by |-> f[k].List, at |-> i]
    BY <1>6
  <2>2. r.to = e[i]
    BY <2>1
  <2>3. e[i] \in Range(e)
    BY DEF Range
  <2>4. r.to \in OfKind(f, "value") \cap StoreOf(k)
    BY <1>1, <2>2, <2>3
  <2>5. QED
    BY <2>1, <2>2, <2>4 DEF ToValue, f, e
<1>7. CASE r \in {[to |-> f[v].Data, by |-> v, at |-> 0] : v \in {w \in Range(e) : HasData(f[w])}}
  <2>1. PICK v \in Range(e) : HasData(f[v]) /\ r = [to |-> f[v].Data, by |-> v, at |-> 0]
    BY <1>7
  <2>2. r.to = f[v].Data
    BY <2>1
  <2>3. v \in OfKind(f, "value") \cap StoreOf(k)
    BY <1>1
  <2>4. f[v].Data # HCELL_NIL
    BY <1>2, <2>1, <2>3 DEF f
  <2>5. QED
    BY <2>1, <2>2, <2>3, <2>4 DEF ToData, f
<1>8. QED
  BY <1>4, <1>5, <1>6, <1>7

\* No two references lead to the same cell.
LEMMA ReferencesDiffer ==
  ASSUME NEW h, NEW S, Good(h, {}, S), NEW j \in Keys, NEW k \in Keys,
         NEW r \in References(h, j), NEW s \in References(h, k), r.to = s.to
  PROVE  r = s
<1> DEFINE f == h.cell
<1>1. ToList(h, j, r) \/ ToValue(h, j, r) \/ ToData(h, j, r)
  BY ReferenceFacts
<1>2. ToList(h, k, s) \/ ToValue(h, k, s) \/ ToData(h, k, s)
  BY ReferenceFacts
<1>3. \A c \in Stored : c \in StoreOf(j) /\ c \in StoreOf(k) => j = k
  BY StoreFacts
<1>4. \A a, b \in {"list", "value", "data"} : a # b => OfKind(f, a) \cap OfKind(f, b) = {}
  BY DEF OfKind
<1>5. /\ Holding(f, S)
      /\ \A v \in OfKind(f, "value") : f[v].Data # HCELL_NIL => f[v].Data \in OfKind(f, "data")
  <2>1. Holding(f, S)
    BY DEF Good, Sound
  <2>2. QED
    BY <2>1 DEF Holding
<1>6. /\ ToList(h, j, r) => r.to \in OfKind(f, "list")
      /\ ToValue(h, j, r) => r.to \in OfKind(f, "value")
      /\ ToData(h, j, r) => r.to \in OfKind(f, "data")
  BY <1>5 DEF ToList, ToValue, ToData
<1>7. /\ ToList(h, k, s) => s.to \in OfKind(f, "list")
      /\ ToValue(h, k, s) => s.to \in OfKind(f, "value")
      /\ ToData(h, k, s) => s.to \in OfKind(f, "data")
  BY <1>5 DEF ToList, ToValue, ToData
<1>8. CASE ToList(h, j, r)
  <2>1. ToList(h, k, s)
    BY <1>2, <1>4, <1>6, <1>7, <1>8
  <2>2. j = k
    BY <1>3, <1>8, <2>1 DEF ToList, OfKind
  <2>3. QED
    BY <1>8, <2>1, <2>2 DEF ToList
<1>9. CASE ToValue(h, j, r)
  <2>1. ToValue(h, k, s)
    BY <1>2, <1>4, <1>6, <1>7, <1>9
  <2>2. j = k
    BY <1>3, <1>9, <2>1 DEF ToValue, OfKind
  <2>3. IsInjective(Entries(h.cell, j))
    BY OwnedFacts
  <2> DEFINE e == Entries(h.cell, j)
  <2>4. PICK m \in DOMAIN e : r = [to |-> e[m], by |-> h.cell[j].List, at |-> m] /\ r.to = e[m]
    BY <1>9 DEF ToValue
  <2>5. PICK n \in DOMAIN e : s = [to |-> e[n], by |-> h.cell[j].List, at |-> n] /\ s.to = e[n]
    BY <2>1, <2>2 DEF ToValue
  <2>6. m = n
    <3>1. e[m] = e[n]
      BY <2>4, <2>5
    <3> HIDE DEF e
    <3>2. QED
      BY <2>3, <3>1 DEF IsInjective, e
  <2>7. QED
    BY <2>4, <2>5, <2>6
<1>10. CASE ToData(h, j, r)
  <2>1. ToData(h, k, s)
    BY <1>2, <1>4, <1>6, <1>7, <1>10
  <2>2. PICK v \in OfKind(f, "value") : r = [to |-> f[v].Data, by |-> v, at |-> 0]
                                        /\ f[v].Data # HCELL_NIL /\ r.to = f[v].Data
    BY <1>10 DEF ToData
  <2>3. PICK w \in OfKind(f, "value") : s = [to |-> f[w].Data, by |-> w, at |-> 0]
                                        /\ f[w].Data # HCELL_NIL /\ s.to = f[w].Data
    BY <2>1 DEF ToData
  <2>4. v = w
    <3>1. f[v].Data = f[w].Data
      BY <2>2, <2>3
    <3>2. QED
      BY <1>5, <2>2, <3>1 DEF Holding
  <2>5. QED
    BY <2>2, <2>3, <2>4
<1>11. QED
  BY <1>1, <1>8, <1>9, <1>10

\* A list, a value and data that a value has are referred to.
LEMMA ReferredTo ==
  ASSUME NEW h, NEW S, Good(h, {}, S), NEW k \in Keys
  PROVE  /\ \A c \in OfKind(h.cell, "list") \cap StoreOf(k) :
              \E r \in References(h, k) : r.to = c
         /\ \A c \in OfKind(h.cell, "value") \cap StoreOf(k) :
              /\ \E r \in References(h, k) : r.to = c
              /\ h.cell[c].Data # HCELL_NIL => \E r \in References(h, k) : r.to = h.cell[c].Data
<1> DEFINE f == h.cell
           e == Entries(f, k)
           L == {[to |-> f[k].List, by |-> k, at |-> 0]}
           V == {[to |-> e[i], by |-> f[k].List, at |-> i] : i \in DOMAIN e}
           D == {[to |-> f[v].Data, by |-> v, at |-> 0] : v \in {w \in Range(e) : HasData(f[w])}}
<1>1. /\ ValuesOf(h, k) = e /\ Range(e) = OfKind(f, "value") \cap StoreOf(k)
      /\ OfKind(f, "list") \cap StoreOf(k) = (IF f[k].Count = 0 THEN {} ELSE {f[k].List})
      /\ f[k].Count = 0 => Range(e) = {}
  BY OwnedFacts
<1>2. \A v \in OfKind(f, "value") : HasData(f[v]) <=> f[v].Data # HCELL_NIL
  BY ValueFacts DEF Good
<1>3. CASE f[k].Count = 0
  BY <1>1, <1>3
<1>4. CASE f[k].Count # 0
  <2>1. References(h, k) = L \cup V \cup D
    BY <1>1, <1>4 DEF References
  <2>2. \E r \in L : r.to = f[k].List
    <3> DEFINE r == [to |-> f[k].List, by |-> k, at |-> 0]
    <3>1. r.to = f[k].List /\ r \in L
      OBVIOUS
    <3> HIDE DEF r
    <3>2. QED
      BY <3>1
  <2>3. \A c \in Range(e) : \E r \in V : r.to = c
    <3> SUFFICES ASSUME NEW c \in Range(e) PROVE \E r \in V : r.to = c
      OBVIOUS
    <3>1. PICK i \in DOMAIN e : e[i] = c
      BY DEF Range
    <3> DEFINE r == [to |-> e[i], by |-> f[k].List, at |-> i]
    <3>2. r.to = c /\ r \in V
      BY <3>1
    <3> HIDE DEF r, V
    <3>3. QED
      BY <3>2
  <2>4. \A v \in Range(e) : f[v].Data # HCELL_NIL => \E r \in D : r.to = f[v].Data
    <3> SUFFICES ASSUME NEW v \in Range(e), f[v].Data # HCELL_NIL
                 PROVE  \E r \in D : r.to = f[v].Data
      OBVIOUS
    <3> DEFINE r == [to |-> f[v].Data, by |-> v, at |-> 0]
    <3>1. HasData(f[v])
      BY <1>1, <1>2
    <3>2. r.to = f[v].Data /\ r \in D
      BY <3>1
    <3> HIDE DEF r, D
    <3>3. QED
      BY <3>2
  <2>5. /\ \A c \in OfKind(f, "list") \cap StoreOf(k) : c = f[k].List
        /\ \A c \in OfKind(f, "value") \cap StoreOf(k) : c \in Range(e)
    BY <1>1, <1>4
  <2> HIDE DEF L, V, D, e, f
  <2>6. /\ \A c \in OfKind(f, "list") \cap StoreOf(k) : \E r \in References(h, k) : r.to = c
        /\ \A c \in OfKind(f, "value") \cap StoreOf(k) :
             /\ \E r \in References(h, k) : r.to = c
             /\ f[c].Data # HCELL_NIL => \E r \in References(h, k) : r.to = f[c].Data
    BY <2>1, <2>2, <2>3, <2>4, <2>5
  <2>7. QED
    BY <2>6 DEF f
<1>5. QED
  BY <1>3, <1>4

-----------------------------------------------------------------------------
(* The properties *)

\* Cells are of their types: a key, free, a value, data or a list of values; the list
\* and the values of a key are in its own store (CmiAddValueKey, CmpAddValueToList).
THEOREM TypeCorrect == Spec => []TypeOK
<1>1. IInv => TypeOK
  <2> SUFFICES ASSUME IInv PROVE TypeOK
    OBVIOUS
  <2> DEFINE f == hive.cell
  <2>1. /\ f \in CellsType /\ Good(hive, {}, stranded.memory) /\ hive.dirty \subseteq Stable
    BY DEF IInv, Good, Hives
  <2>2. ASSUME NEW c \in Cells
        PROVE  \/ f[c] \in Content(c)
               \/ /\ c \notin Keys /\ f[c].kind = "list"
                  /\ f[c].KeyList \in Seq(Cells) /\ f[c].Size \in Nat
    <3> DEFINE x == f[c]
    <3>1. Stored \subseteq Cells
      BY StoreFacts
    <3>2. CASE c \in Keys
      <4>1. x \in KeyContents
        BY <2>1, <3>2 DEF CellsType
      <4> HIDE DEF x
      <4>2. x \in Content(c)
        BY <3>1, <3>2, <4>1 DEF Content, KeyContents
      <4>3. QED
        BY <4>2 DEF x
    <3>3. CASE c \notin Keys
      <4>1. c \in Stored
        BY <3>3, StoreFacts
      <4>2. x \in {Free} \cup ValueContents \cup DataContents \cup ListContents
        BY <2>1, <4>1 DEF CellsType, StoredContents
      <4> HIDE DEF x
      <4>3. CASE x \in {Free} \cup ValueContents \cup DataContents
        <5>1. x \in Content(c)
          BY <3>3, <4>3 DEF Content, ValueContents, DataContents, Stored
        <5>2. QED
          BY <5>1 DEF x
      <4>4. CASE x \in ListContents
        <5>1. x.kind = "list" /\ x.KeyList \in Seq(Stored) /\ x.Size \in Nat
          BY <4>4 DEF ListContents
        <5>2. x.KeyList \in Seq(Cells)
          BY <3>1, <5>1
        <5>3. QED
          BY <3>3, <5>1, <5>2 DEF x
      <4>5. QED
        BY <4>2, <4>3, <4>4
    <3>4. QED
      BY <3>2, <3>3
  <2>3. ASSUME NEW k \in Keys, f[k].Count > 0
        PROVE  {f[k].List} \cup Range(ValuesOf(hive, k)) \subseteq StoreOf(k)
    <3>1. /\ ValuesOf(hive, k) = Entries(f, k)
          /\ Range(Entries(f, k)) = OfKind(f, "value") \cap StoreOf(k)
          /\ f[k].Count \in Nat
          /\ OfKind(f, "list") \cap StoreOf(k) = (IF f[k].Count = 0 THEN {} ELSE {f[k].List})
      BY <2>1, OwnedFacts
    <3>2. f[k].Count # 0
      BY <2>3, <3>1
    <3>3. QED
      BY <3>1, <3>2
  <2>4. /\ DOMAIN file = Stable /\ overrun \in BOOLEAN /\ calls \in 0 .. MaxCalls
        /\ {stranded.memory, stranded.file} \subseteq SUBSET StableCells
    BY DEF IInv
  <2>5. QED
    BY <2>1, <2>2, <2>3, <2>4 DEF TypeOK
<1>2. QED
  BY <1>1, Invariant, PTL

\* Every cell in use is referred to once, by a key, a list or a value, but for the
\* data that a reload has stranded: no call leaks a cell or frees one in use.
THEOREM OwnedOnce == Spec => []CellsOwnedOnce
<1>1. IInv => CellsOwnedOnce
  <2> SUFFICES ASSUME IInv PROVE CellsOwnedOnce
    OBVIOUS
  <2> DEFINE f == hive.cell
             S == stranded.memory
             R == References(hive, StableKey) \cup References(hive, VolatileKey)
             owned == {r.to : r \in R}
  <2>1. Good(hive, {}, S) /\ f \in CellsType /\ Holding(f, S)
    BY DEF IInv, Good, Hives, Sound
  <2>2. \A r \in R : \E k \in Keys : r \in References(hive, k)
    BY DEF Keys
  <2>3. \A k \in Keys : References(hive, k) \subseteq R
    BY DEF Keys
  <2> HIDE DEF R, f, S
  <2>4. \A r, s \in R : r.to = s.to => r = s
    <3> SUFFICES ASSUME NEW r \in R, NEW s \in R, r.to = s.to PROVE r = s
      OBVIOUS
    <3>1. PICK j \in Keys : r \in References(hive, j)
      BY <2>2
    <3>2. PICK k \in Keys : s \in References(hive, k)
      BY <2>2
    <3>3. QED
      BY <2>1, <3>1, <3>2, ReferencesDiffer
  <2>5. \A c \in Stored : /\ f[c].kind \in {"free", "value", "data", "list"}
                          /\ f[c].kind = "free" <=> f[c] = Free
    BY <2>1, KindFacts
  <2>6. ASSUME NEW r \in R
        PROVE  r.to \in Stored /\ f[r.to] # Free /\ r.to \notin S
    <3>1. PICK k \in Keys : r \in References(hive, k)
      BY <2>2
    <3>2. ToList(hive, k, r) \/ ToValue(hive, k, r) \/ ToData(hive, k, r)
      BY <2>1, <3>1, ReferenceFacts
    <3>3. S \subseteq OfKind(f, "data")
      BY <2>1 DEF Holding
    <3>4. CASE ToList(hive, k, r)
      BY <2>5, <3>3, <3>4 DEF ToList, OfKind, f
    <3>5. CASE ToValue(hive, k, r)
      BY <2>5, <3>3, <3>5 DEF ToValue, OfKind, f
    <3>6. CASE ToData(hive, k, r)
      <4>1. r.to \in OfKind(f, "data") \ S
        BY <2>1, <3>6 DEF ToData, Holding, f
      <4>2. QED
        BY <2>5, <4>1 DEF OfKind
    <3>7. QED
      BY <3>2, <3>4, <3>5, <3>6
  <2>7. owned \cap S = {}
    BY <2>6
  <2>8. ASSUME NEW c \in Stored, f[c] # Free PROVE c \in owned \cup S
    <3>1. PICK k \in Keys : c \in StoreOf(k)
      BY StoreFacts
    <3>2. f[c].kind \in {"value", "data", "list"}
      BY <2>5, <2>8
    <3>3. /\ \A a \in OfKind(f, "list") \cap StoreOf(k) :
               \E r \in References(hive, k) : r.to = a
          /\ \A a \in OfKind(f, "value") \cap StoreOf(k) :
               \E r \in References(hive, k) : r.to = a
      BY <2>1, ReferredTo DEF f
    <3>4. CASE f[c].kind = "list"
      <4>1. \E r \in References(hive, k) : r.to = c
        BY <3>1, <3>3, <3>4 DEF OfKind
      <4>2. QED
        BY <2>3, <4>1
    <3>5. CASE f[c].kind = "value"
      <4>1. \E r \in References(hive, k) : r.to = c
        BY <3>1, <3>3, <3>5 DEF OfKind
      <4>2. QED
        BY <2>3, <4>1
    <3>6. CASE f[c].kind = "data"
      <4>1. c \in S \/ \E v \in OfKind(f, "value") : f[v].Data = c
        BY <2>1, <3>6 DEF Holding, OfKind
      <4>2. CASE c \in S
        BY <4>2
      <4>3. CASE \E v \in OfKind(f, "value") : f[v].Data = c
        <5>1. PICK v \in OfKind(f, "value") : f[v].Data = c
          BY <4>3
        <5>2. PICK j \in Keys : v \in StoreOf(j)
          BY StoreFacts DEF OfKind
        <5>3. c # HCELL_NIL
          BY StoreFacts
        <5>4. \E r \in References(hive, j) : r.to = c
          BY <2>1, <5>1, <5>2, <5>3, ReferredTo DEF f
        <5>5. QED
          BY <2>3, <5>4
      <4>4. QED
        BY <4>1, <4>2, <4>3
    <3>7. QED
      BY <3>2, <3>4, <3>5, <3>6
  <2>9. \A c \in S : c \in Stored /\ f[c] # Free
    <3>1. S \subseteq OfKind(f, "data")
      BY <2>1 DEF Holding
    <3>2. QED
      BY <2>5, <3>1 DEF OfKind
  <2>10. \A c \in owned : c \in Stored /\ f[c] # Free
    BY <2>6
  <2>11. Stored = Cells \ Keys
    BY StoreFacts
  <2> HIDE DEF owned
  <2>12. {c \in Cells \ Keys : f[c] # Free} = owned \cup S
    BY <2>8, <2>9, <2>10, <2>11
  <2>13. QED
    BY <2>4, <2>7, <2>12 DEF CellsOwnedOnce, f, S, R, owned
<1>2. QED
  BY <1>1, Invariant, PTL

\* The entries of every list fit into its cell, when it grows, by one entry or by a
\* batch, and when it is shortened (CmpAddValueToList, CmpRemoveValueFromList).
THEOREM ListsHaveRoom == Spec => []ListsFit
<1>1. IInv => ListsFit
  <2> SUFFICES ASSUME IInv, NEW c \in Cells, hive.cell[c].kind = "list"
               PROVE  EntrySize * Len(hive.cell[c].KeyList) <= hive.cell[c].Size
    BY DEF ListsFit
  <2> DEFINE f == hive.cell
  <2>1. f \in CellsType /\ Sound(f, {}, stranded.memory)
    BY DEF IInv, Sound
  <2>2. c \notin Keys
    BY <2>1 DEF CellsType, KeyContents
  <2>3. c \in Stored
    BY <2>2, StoreFacts
  <2>4. PICK k \in Keys : c \in StoreOf(k)
    BY <2>3, StoreFacts
  <2>5. Listing(f, k, {} \cap StoreOf(k))
    BY <2>1 DEF Sound
  <2>6. c \in OfKind(f, "list") \cap StoreOf(k)
    BY <2>3, <2>4 DEF OfKind
  <2> HIDE DEF f
  <2>7. f[k].Count # 0 /\ c = f[k].List
    BY <2>5, <2>6 DEF Listing
  <2>8. Len(f[c].KeyList) = f[k].Count /\ EntrySize * f[k].Count <= f[c].Size
    BY <2>5, <2>7 DEF Listing, Entries
  <2>9. QED
    BY <2>8 DEF f
<1>2. QED
  BY <1>1, Invariant, PTL

\* What differs from the file is dirty, also after a call that failed half way: the
\* next flush writes all of it (HvMarkCellDirty and its callers).
THEOREM ChangesMarked == Spec => []ChangesAreDirty
<1>1. IInv => ChangesAreDirty
  BY DEF IInv
<1>2. QED
  BY <1>1, Invariant, PTL
=============================================================================
