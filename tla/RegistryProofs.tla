--------------------------- MODULE RegistryProofs ---------------------------
(***************************************************************************)
(* That the registry loses no key but those that are stranded, whatever    *)
(* the number and the size of its blocks; that what it leaves in a file is *)
(* accepted at the next start; and that the descriptors of a hive of one   *)
(* block stay sound, for any calls in any order, with any number of them   *)
(* failing, and over any number of sessions.  That a key held open stays   *)
(* the key it was opened as; and that what callers see of all this is the  *)
(* tree of keys of KeyTree.                                                *)
(*                                                                         *)
(* A session starts from what an earlier one has left in the file, and a   *)
(* flush leaves there what is in memory, for the blocks that are dirty,    *)
(* and what was in the file, for the others.  So the invariant says of the *)
(* file what it says of the hive in memory, and that a cell that is not in *)
(* a dirty block holds the same key in both.  For descriptors that is not  *)
(* so: the count of one changes without a mark.  But a hive of one block   *)
(* is written as a whole, or not at all.                                   *)
(*                                                                         *)
(* The tree of a hive is made level by level from its root.  What is so    *)
(* of every key in it is shown of the least set that has the root and,     *)
(* with a key, its subkeys; that a walk up along the parents ends, by a    *)
(* path of the least length on which it would not.                         *)
(***************************************************************************)
EXTENDS Registry, FiniteSetTheorems, SequenceTheorems, WellFoundedInduction, TLAPS

-----------------------------------------------------------------------------
(* What of a key the other keys depend on *)

\* The name of a key and where it stands in the tree; nothing for another cell.
Place(content) ==
  IF content.kind = "key" THEN <<content.Name, content.Parent, content.SubKeys>> ELSE << >>

\* The key in the cell c is one that a path leads to, or is stranded.
Parented(h, c) ==
  h.cell[c].kind = "key" =>
    \/ c = RootCell
    \/ h.cell[c].Parent \in VolatileCells /\ c \in StableCells
    \/ Is(h, h.cell[c].Parent, "key") /\ c \in SubKeysOf(h, h.cell[c].Parent)

AllParented(h) == \A c \in Cells : Parented(h, c)

\* The keys that a stable key lists in the stable store are keys, and its own.
Listed(h) ==
  \A c \in StableCells : h.cell[c].kind = "key" =>
    \A k \in h.cell[c].SubKeys.Stable : h.cell[k].kind = "key" /\ h.cell[k].Parent = c

RootIsKey(h) == h.cell[RootCell].kind = "key"

\* A cell that the next flush leaves as it is in the file f holds the same key there.
CleanAsIn(h, f) ==
  \A c \in StableCells : BlockOf[c] \notin h.dirty => Place(h.cell[c]) = Place(f[c])

FileOK(f) ==
  /\ f \in [StableCells -> Contents]
  /\ AllParented(HvInitialize(f))

KeysInv ==
  /\ phase \in {"down", "loaded", "memory"} /\ handle \in {"none", "open", "closed"}
  /\ phase = "loaded" => file # None /\ handle # "none"
  /\ phase = "memory" => handle # "open"
  /\ hive \in Hives /\ AllParented(hive)
  /\ IF Up THEN RootIsKey(hive) ELSE hive = EmptyHive
  /\ file # None => FileOK(file)
  /\ phase = "loaded" /\ handle = "open" => CleanAsIn(hive, file)

(* Descriptors *)
IsDescriptor(h, c) == h.cell[c].kind = "security"
DescriptorSound(h, s) ==
  /\ s \in StableCells
  /\ h.cell[s].ReferenceCount >= Cardinality(Users(h, s))
  /\ Is(h, h.cell[s].Flink, "security") /\ h.cell[h.cell[s].Flink].Blink = s
  /\ Is(h, h.cell[s].Blink, "security") /\ h.cell[h.cell[s].Blink].Flink = s

AllSound(h) ==
  /\ \A c \in KeyCellsOf(h) : Is(h, h.cell[c].Security, "security")
  /\ \A s \in Cells : IsDescriptor(h, s) => DescriptorSound(h, s)

SoundInv ==
  /\ AllSound(hive)
  /\ file # None => AllSound(HvInitialize(file))

ListedInv ==
  /\ Listed(hive)
  /\ file # None => Listed(HvInitialize(file)) /\ RootIsKey(HvInitialize(file))


-----------------------------------------------------------------------------
(* Facts of sets, of cells and of what they hold *)

\* The smallest number of a non-empty set.
LEMMA MinFacts ==
  ASSUME NEW T \in SUBSET Nat, T # {}
  PROVE  Min(T) \in T /\ \A n \in T : Min(T) <= n
<1> DEFINE R == OpToRel(<, Nat)
<1>1. IsWellFoundedOn(R, Nat)
  BY NatLessThanWellFounded
<1>2. R = {ss \in Nat \X Nat : ss[1] < ss[2]}
  BY Zenon DEF OpToRel
<1> HIDE DEF R
<1>3. PICK x \in T : \A y \in T : <<y, x>> \notin R
  BY <1>1, WFMin
<1>4. \A y \in T : x <= y
  <2> SUFFICES ASSUME NEW y \in T, ~(x <= y) PROVE <<y, x>> \in R
    BY <1>3
  <2>1. x \in Nat /\ y \in Nat /\ y < x
    OBVIOUS
  <2>2. <<y, x>> \in Nat \X Nat /\ <<y, x>>[1] = y /\ <<y, x>>[2] = x
    BY <2>1
  <2> QED  BY <2>1, <2>2, <1>2
<1> QED  BY <1>3, <1>4 DEF Min

\* A free cell, or none.
LEMMA AllocateFacts ==
  ASSUME NEW h, NEW type \in DOMAIN Storage, FreeIn(h, type) # {}
  PROVE  /\ HvAllocateCell(h, type) \in Storage[type]
         /\ h.cell[HvAllocateCell(h, type)] = FreeCell
<1>1. DOMAIN Storage = {"Stable", "Volatile"}
      /\ Storage["Stable"] = StableCells /\ Storage["Volatile"] = VolatileCells
  BY DEF Storage
<1>2. FreeIn(h, type) \in SUBSET Nat
  BY <1>1, CellsAssumption DEF FreeIn
<1>3. Min(FreeIn(h, type)) \in FreeIn(h, type)
  BY <1>2, MinFacts
<1> QED  BY <1>3 DEF HvAllocateCell, FreeIn

LEMMA ContentFacts ==
  ASSUME NEW x \in Contents
  PROVE  /\ x.kind = "key" <=> x \in Nodes
         /\ x.kind = "security" <=> x \in Descriptors
         /\ x.kind = "free" <=> x = FreeCell
         /\ x.kind \in {"key", "security", "free"}
<1>1. \A y \in Nodes : y.kind = "key"  BY DEF Nodes
<1>2. \A y \in Descriptors : y.kind = "security"  BY DEF Descriptors
<1>3. FreeCell.kind = "free"  BY DEF FreeCell
<1> QED  BY <1>1, <1>2, <1>3 DEF Contents

\* A field that a cell does not have is not written.
LEMMA NoSuchField ==
  ASSUME NEW x \in Contents, NEW v
  PROVE  /\ x.kind # "key" => [x EXCEPT !.SubKeys = v] = x
         /\ x.kind # "security" => [x EXCEPT !.Flink = v] = x /\ [x EXCEPT !.Blink = v] = x
<1>1. ASSUME NEW y \in Nodes
      PROVE  [y EXCEPT !.Flink = v] = y /\ [y EXCEPT !.Blink = v] = y
  BY DEF Nodes
<1>2. ASSUME NEW y \in Descriptors PROVE [y EXCEPT !.SubKeys = v] = y
  BY DEF Descriptors
<1>3. /\ [FreeCell EXCEPT !.SubKeys = v] = FreeCell
      /\ [FreeCell EXCEPT !.Flink = v] = FreeCell
      /\ [FreeCell EXCEPT !.Blink = v] = FreeCell
  BY DEF FreeCell
<1> QED  BY <1>1, <1>2, <1>3, ContentFacts

LEMMA CellsFacts ==
  /\ RootCell \in Cells /\ RootCell \in StableCells
  /\ StableCells \subseteq Cells /\ VolatileCells \subseteq Cells
  /\ StableCells \cap VolatileCells = {}
  /\ HCELL_NIL \notin Cells
  /\ Cells \in SUBSET Nat /\ IsFiniteSet(Cells)
  BY CellsAssumption DEF Cells

\* The blocks of the stable ones of some cells.
Blocks(cs) == {BlockOf[c] : c \in cs \cap StableCells}

LEMMA MarkFacts ==
  ASSUME NEW h \in Hives, NEW cs
  PROVE  /\ HvMarkCellsDirty(h, cs) \in Hives
         /\ HvMarkCellsDirty(h, cs).cell = h.cell
         /\ HvMarkCellsDirty(h, cs).dirty = h.dirty \cup Blocks(cs)
<1> DEFINE D == h.dirty \cup Blocks(cs)
<1>1. D \in SUBSET {BlockOf[c] : c \in StableCells}
  BY DEF Blocks, Hives
<1>2. HvMarkCellsDirty(h, cs) = [h EXCEPT !.dirty = D]
  BY DEF HvMarkCellsDirty, Blocks
<1> HIDE DEF D
<1>3. /\ [h EXCEPT !.dirty = D] \in Hives
      /\ [h EXCEPT !.dirty = D].cell = h.cell
      /\ [h EXCEPT !.dirty = D].dirty = D
  BY <1>1 DEF Hives
<1> QED  BY <1>2, <1>3 DEF D

LEMMA PutFacts ==
  ASSUME NEW h \in Hives, NEW c \in Cells, NEW x \in Contents
  PROVE  /\ Put(h, c, x) \in Hives
         /\ Put(h, c, x).cell = [h.cell EXCEPT ![c] = x]
         /\ Put(h, c, x).dirty = h.dirty \cup Blocks({c})
<1> DEFINE g == [h EXCEPT !.cell[c] = x]
<1>1. g \in Hives /\ g.cell = [h.cell EXCEPT ![c] = x] /\ g.dirty = h.dirty
  BY DEF Hives
<1> HIDE DEF g
<1>2. Put(h, c, x) = HvMarkCellsDirty(g, {c})
  BY DEF Put, g
<1> QED  BY <1>1, <1>2, MarkFacts

-----------------------------------------------------------------------------
(* Creating: what becomes of each cell *)

\* The cell d is what it was, but for the count of the descriptor s.
Counted(h, g, d, s) ==
  g.cell[d] = IF d = s /\ h.cell[d].kind = "security"
              THEN [h.cell[d] EXCEPT !.ReferenceCount = @ + 1] ELSE h.cell[d]

LEMMA ReferenceFacts ==
  ASSUME NEW h \in Hives, NEW s
  PROVE  /\ Reference(h, s) \in Hives
         /\ Reference(h, s).dirty = h.dirty
         /\ \A d \in Cells : Counted(h, Reference(h, s), d, s)
<1>1. CASE Is(h, s, "security")
  <2> DEFINE x == [h.cell[s] EXCEPT !.ReferenceCount = @ + 1]
             g == [h EXCEPT !.cell[s] = x]
  <2>1. s \in Cells /\ h.cell[s] \in Descriptors
    BY <1>1, ContentFacts DEF Is, Hives
  <2>2. x \in Contents
    BY <2>1 DEF Descriptors, Contents
  <2>3. Reference(h, s) = g
    BY <1>1 DEF Reference
  <2>4. x = [h.cell[s] EXCEPT !.ReferenceCount = @ + 1]
    OBVIOUS
  <2> HIDE DEF x
  <2>5. g \in Hives /\ g.dirty = h.dirty /\ g.cell = [h.cell EXCEPT ![s] = x]
    BY <2>1, <2>2 DEF Hives
  <2> HIDE DEF g
  <2>6. \A d \in Cells : g.cell[d] = IF d = s THEN x ELSE h.cell[d]
    BY <2>1, <2>5 DEF Hives
  <2>7. \A d \in Cells : Counted(h, g, d, s)
    BY <2>4, <2>6, <1>1 DEF Counted, Is
  <2> QED  BY <2>3, <2>5, <2>7
<1>2. CASE ~Is(h, s, "security")
  BY <1>2 DEF Reference, Counted, Is
<1> QED  BY <1>1, <1>2

LEMMA NodeFacts ==
  ASSUME NEW name \in Names \cup {""}, NEW parent \in Cells \cup {HCELL_NIL},
         NEW s \in Cells \cup {HCELL_NIL}
  PROVE  CM_KEY_NODE(name, parent, s) \in Nodes
  BY DEF CM_KEY_NODE, Nodes

LEMMA StorageFacts ==
  /\ DOMAIN Storage = {"Stable", "Volatile"}
  /\ Storage["Stable"] = StableCells /\ Storage["Volatile"] = VolatileCells
  /\ \A type \in DOMAIN Storage : Storage[type] \subseteq Cells
<1>1. DOMAIN Storage = {"Stable", "Volatile"}
      /\ Storage["Stable"] = StableCells /\ Storage["Volatile"] = VolatileCells
  BY DEF Storage
<1> QED  BY <1>1, CellsFacts

LEMMA EnterFacts ==
  ASSUME NEW h \in Hives, NEW parent \in Cells, h.cell[parent].kind = "key",
         NEW type \in DOMAIN Storage, NEW c \in Storage[type]
  PROVE  LET g == CmpAddSubKey(h, parent, type, c)
             x == [h.cell[parent] EXCEPT !.SubKeys[type] = @ \cup {c}] IN
         /\ x \in Nodes
         /\ g \in Hives /\ g.dirty = h.dirty
         /\ \A d \in Cells : g.cell[d] = IF d = parent THEN x ELSE h.cell[d]
<1> DEFINE x == [h.cell[parent] EXCEPT !.SubKeys[type] = @ \cup {c}]
           g == [h EXCEPT !.cell[parent] = x]
<1>1. h.cell[parent] \in Nodes
  BY ContentFacts DEF Hives
<1>2. x \in Nodes
  <2> DEFINE K == h.cell[parent].SubKeys
             L == [K EXCEPT ![type] = @ \cup {c}]
  <2>1. K \in [Stable : SUBSET StableCells, Volatile : SUBSET VolatileCells]
    BY <1>1 DEF Nodes
  <2> HIDE DEF K
  <2>2. \/ L = [K EXCEPT !.Stable = @ \cup {c}] /\ c \in StableCells
        \/ L = [K EXCEPT !.Volatile = @ \cup {c}] /\ c \in VolatileCells
    BY StorageFacts
  <2>3. c \in StableCells =>
          [K EXCEPT !.Stable = @ \cup {c}] \in [Stable : SUBSET StableCells, Volatile : SUBSET VolatileCells]
    BY <2>1
  <2>4. c \in VolatileCells =>
          [K EXCEPT !.Volatile = @ \cup {c}] \in [Stable : SUBSET StableCells, Volatile : SUBSET VolatileCells]
    BY <2>1
  <2>5. x = [h.cell[parent] EXCEPT !.SubKeys = L]
    BY DEF K
  <2> HIDE DEF L
  <2>6. L \in [Stable : SUBSET StableCells, Volatile : SUBSET VolatileCells]
    BY <2>2, <2>3, <2>4
  <2> HIDE DEF K
  <2> QED  BY <2>5, <2>6, <1>1 DEF Nodes
<1>3. CmpAddSubKey(h, parent, type, c) = g
  BY DEF CmpAddSubKey
<1> HIDE DEF x
<1>4. g \in Hives /\ g.dirty = h.dirty /\ g.cell = [h.cell EXCEPT ![parent] = x]
  BY <1>2 DEF Hives, Contents
<1> HIDE DEF g
<1>5. \A d \in Cells : g.cell[d] = IF d = parent THEN x ELSE h.cell[d]
  BY <1>4 DEF Hives
<1> QED  BY <1>2, <1>3, <1>4, <1>5 DEF x

\* The key c was entered in parent.
Entered(h, g, parent, name, type, c) ==
  LET s == h.cell[parent].Security IN
  /\ g \in Hives /\ h.dirty \cup Blocks({parent, c}) \subseteq g.dirty
  /\ c \in Storage[type] /\ h.cell[c] = FreeCell
  /\ g.cell[c] = CM_KEY_NODE(name, parent, s)
  /\ g.cell[parent] = [h.cell[parent] EXCEPT !.SubKeys[type] = @ \cup {c}]
  /\ \A d \in Cells \ {c, parent} : Counted(h, g, d, s)

\* It was not, but is counted as a user of the descriptor of parent.
NotEntered(h, g, parent) ==
  /\ g \in Hives /\ h.dirty \subseteq g.dirty
  /\ \A d \in Cells : Counted(h, g, d, h.cell[parent].Security)

LEMMA AddedFacts ==
  ASSUME NEW h \in Hives, NEW parent \in Cells, h.cell[parent].kind = "key", NEW name \in Names,
         NEW type \in DOMAIN Storage, NEW fails \in BOOLEAN
  PROVE  LET r == CmiAddSubKey(h, parent, name, type, fails) IN
         \/ r.cell = HCELL_NIL /\ r.hive = h
         \/ r.cell = HCELL_NIL /\ NotEntered(h, r.hive, parent)
         \/ Entered(h, r.hive, parent, name, type, r.cell)
<1>1. CASE FreeIn(h, type) = {}
  BY <1>1 DEF CmiAddSubKey
<1>2. CASE FreeIn(h, type) # {}
  <2> DEFINE c  == HvAllocateCell(h, type)
             s  == h.cell[parent].Security
             h1 == HvMarkCellsDirty(h, {parent})
             x  == CM_KEY_NODE(name, parent, s)
             h2 == Put(h1, c, x)
             h3 == Reference(h2, s)
             h4 == CmpAddSubKey(h3, parent, type, c)
             h5 == HvFreeCell(h3, c)
  <2>1. c \in Storage[type] /\ h.cell[c] = FreeCell
    BY <1>2, AllocateFacts
  <2>2. h1 \in Hives /\ h1.cell = h.cell /\ h1.dirty = h.dirty \cup Blocks({parent})
    BY MarkFacts
  <2>3. CmiAddSubKey(h, parent, name, type, fails) =
          IF fails THEN [hive |-> h5, cell |-> HCELL_NIL] ELSE [hive |-> h4, cell |-> c]
    <3>1. HvAllocateCell(h1, type) = c
      BY <2>2 DEF HvAllocateCell, FreeIn
    <3>2. CmiCreateSubKey(h1, parent, name, c) = h3
      BY <2>2 DEF CmiCreateSubKey
    <3> HIDE DEF h1, c, h3, h4, h5
    <3>3. CmiAddSubKey(h, parent, name, type, fails) = AddedAt(h1, parent, name, type, fails, c)
      <4>1. CmiAddSubKey(h, parent, name, type, fails) =
              AddedAt(h1, parent, name, type, fails, HvAllocateCell(h, type))
        BY <1>2 DEF CmiAddSubKey, h1
      <4> QED  BY <4>1 DEF c
    <3> QED  BY <3>2, <3>3 DEF AddedAt, h4, h5
  <2>4. c \in Cells /\ c # parent /\ h.cell[parent] \in Nodes /\ s \in Cells \cup {HCELL_NIL}
    <3>1. c \in Cells  BY <2>1, StorageFacts
    <3>2. c # parent  BY <2>1 DEF FreeCell
    <3>3. h.cell[parent] \in Nodes  BY ContentFacts DEF Hives
    <3> QED  BY <3>1, <3>2, <3>3 DEF Nodes
  <2> HIDE DEF c, h1, s
  <2>5. x \in Contents /\ x.kind = "key"
    <3>1. x \in Nodes
      BY <2>4, NodeFacts
    <3> QED  BY <3>1 DEF Contents, Nodes
  <2> HIDE DEF x
  <2>6. /\ h2 \in Hives /\ h2.dirty = h1.dirty \cup Blocks({c})
        /\ \A d \in Cells : h2.cell[d] = IF d = c THEN x ELSE h.cell[d]
    <3>1. /\ h2 \in Hives /\ h2.dirty = h1.dirty \cup Blocks({c})
          /\ h2.cell = [h1.cell EXCEPT ![c] = x]
      <4>1. h1 \in Hives /\ c \in Cells /\ x \in Contents
        BY <2>2, <2>4, <2>5
      <4> QED  BY ONLY <4>1, PutFacts
    <3> QED  BY <2>2, <3>1 DEF Hives
  <2> HIDE DEF h2
  <2>7. /\ h3 \in Hives /\ h3.dirty = h2.dirty
        /\ \A d \in Cells : Counted(h2, h3, d, s)
    BY <2>6, ReferenceFacts
  <2> HIDE DEF h3
  <2>8. /\ h3.cell[c] = x /\ h3.cell[parent] = h.cell[parent]
        /\ \A d \in Cells \ {c} : Counted(h, h3, d, s)
    BY <2>4, <2>5, <2>6, <2>7 DEF Counted
  <2>9. Blocks({parent, c}) = Blocks({parent}) \cup Blocks({c})
    BY DEF Blocks
  <2>10. CASE fails
    <3>1. /\ h5 \in Hives /\ h5.cell = [h3.cell EXCEPT ![c] = FreeCell]
          /\ h5.dirty = h3.dirty \cup Blocks({c})
      <4>1. h3 \in Hives /\ c \in Cells /\ FreeCell \in Contents /\ h5 = Put(h3, c, FreeCell)
        BY <2>4, <2>7 DEF HvFreeCell, Contents
      <4> HIDE DEF h5
      <4> QED  BY <4>1, PutFacts
    <3> HIDE DEF h5
    <3>2. \A d \in Cells : h5.cell[d] = IF d = c THEN FreeCell ELSE h3.cell[d]
      BY <3>1, <2>7 DEF Hives
    <3>3. \A d \in Cells : Counted(h, h5, d, s)
      BY <2>1, <2>8, <3>2 DEF Counted, FreeCell
    <3>4. h.dirty \subseteq h5.dirty
      BY <2>2, <2>6, <2>7, <3>1
    <3>5. NotEntered(h, h5, parent)
      BY <3>1, <3>3, <3>4 DEF NotEntered, s
    <3> QED  BY <2>3, <2>10, <3>5
  <2>11. CASE ~fails
    <3> DEFINE y == [h3.cell[parent] EXCEPT !.SubKeys[type] = @ \cup {c}]
    <3>1. /\ h4 \in Hives /\ h4.dirty = h3.dirty
          /\ \A d \in Cells : h4.cell[d] = IF d = parent THEN y ELSE h3.cell[d]
      <4>1. h3 \in Hives /\ parent \in Cells /\ h3.cell[parent].kind = "key" /\ c \in Storage[type]
        BY <2>1, <2>4, <2>7, <2>8
      <4>2. h4 = CmpAddSubKey(h3, parent, type, c)
        OBVIOUS
      <4> HIDE DEF h4
      <4> QED  BY <4>1, <4>2, EnterFacts
    <3>2. y = [h.cell[parent] EXCEPT !.SubKeys[type] = @ \cup {c}]
      BY <2>8
    <3> HIDE DEF h4, y
    <3>3. h4.cell[c] = CM_KEY_NODE(name, parent, s)
      BY <3>1, <2>4, <2>8 DEF x
    <3>4. h4.cell[parent] = [h.cell[parent] EXCEPT !.SubKeys[type] = @ \cup {c}]
      BY <3>1, <3>2
    <3>5. \A d \in Cells \ {c, parent} : Counted(h, h4, d, s)
      BY <3>1, <2>8 DEF Counted
    <3>6. h.dirty \cup Blocks({parent, c}) \subseteq h4.dirty
      BY <2>2, <2>6, <2>7, <2>9, <3>1
    <3>7. Entered(h, h4, parent, name, type, c)
      BY <2>1, <3>1, <3>3, <3>4, <3>5, <3>6 DEF Entered, s
    <3> QED  BY <2>3, <2>11, <3>7
  <2> QED  BY <2>10, <2>11
<1> QED  BY <1>1, <1>2

-----------------------------------------------------------------------------
(* Creating: keys *)

\* A cell that holds another key in g than in h is in a dirty block.
Marks(h, g) ==
  /\ h.dirty \subseteq g.dirty
  /\ \A c \in StableCells : Place(g.cell[c]) # Place(h.cell[c]) => BlockOf[c] \in g.dirty

\* What every change of a hive keeps.
Kept(h, g) ==
  /\ g \in Hives /\ Marks(h, g)
  /\ AllParented(h) => AllParented(g)
  /\ RootIsKey(h) => RootIsKey(g)

LEMMA KeptTransitive ==
  ASSUME NEW h, NEW g, NEW i, Kept(h, g), Kept(g, i)
  PROVE  Kept(h, i)
<1>1. Marks(h, i)
  BY DEF Kept, Marks
<1> QED  BY <1>1 DEF Kept

LEMMA KeptReflexive == \A h \in Hives : Kept(h, h)
  BY DEF Kept, Marks

\* In g there is a key where there was one in h, in its place and with its subkeys.
Grows(h, g) ==
  \A d \in Cells : h.cell[d].kind = "key" =>
    /\ g.cell[d].kind = "key" /\ g.cell[d].Parent = h.cell[d].Parent
    /\ SubKeysOf(h, d) \subseteq SubKeysOf(g, d)

LEMMA GrowsParented ==
  ASSUME NEW h, NEW g, Grows(h, g), NEW d \in Cells, h.cell[d].kind = "key", Parented(h, d)
  PROVE  Parented(g, d)
  BY DEF Grows, Parented, Is

LEMMA CountedIsSame ==
  ASSUME NEW h \in Hives, NEW g, NEW s, NEW d \in Cells, Counted(h, g, d, s)
  PROVE  /\ g.cell[d].kind = h.cell[d].kind
         /\ Place(g.cell[d]) = Place(h.cell[d])
         /\ h.cell[d].kind # "security" => g.cell[d] = h.cell[d]
<1>1. CASE d = s /\ h.cell[d].kind = "security"
  <2>1. h.cell[d] \in Descriptors
    BY <1>1, ContentFacts DEF Hives
  <2>2. g.cell[d] = [h.cell[d] EXCEPT !.ReferenceCount = @ + 1]
    BY <1>1 DEF Counted
  <2>3. g.cell[d].kind = "security"
    BY <2>1, <2>2 DEF Descriptors
  <2> QED  BY <1>1, <2>3 DEF Place
<1>2. CASE ~(d = s /\ h.cell[d].kind = "security")
  BY <1>2 DEF Counted
<1> QED  BY <1>1, <1>2

LEMMA NotEnteredKept ==
  ASSUME NEW h \in Hives, NEW g, NEW parent, NotEntered(h, g, parent)
  PROVE  Kept(h, g)
<1>1. \A d \in Cells : /\ g.cell[d].kind = h.cell[d].kind
                       /\ Place(g.cell[d]) = Place(h.cell[d])
                       /\ h.cell[d].kind # "security" => g.cell[d] = h.cell[d]
  BY CountedIsSame DEF NotEntered
<1>2. Grows(h, g)
  BY <1>1 DEF Grows, SubKeysOf
<1>3. AllParented(h) => AllParented(g)
  <2> SUFFICES ASSUME AllParented(h), NEW d \in Cells, g.cell[d].kind = "key" PROVE Parented(g, d)
    BY DEF AllParented, Parented
  <2> QED  BY <1>1, <1>2, GrowsParented DEF AllParented
<1>4. Marks(h, g)
  BY <1>1, CellsFacts DEF Marks, NotEntered
<1> QED  BY <1>1, <1>3, <1>4, CellsFacts DEF Kept, NotEntered, RootIsKey

\* The parent of a new key has one more subkey.
LEMMA EnteredParent ==
  ASSUME NEW x \in Nodes, NEW type \in DOMAIN Storage, NEW c
  PROVE  LET y == [x EXCEPT !.SubKeys[type] = @ \cup {c}] IN
         /\ y.kind = "key" /\ y.Parent = x.Parent /\ y.Security = x.Security
         /\ y.SubKeys.Stable \cup y.SubKeys.Volatile =
              x.SubKeys.Stable \cup x.SubKeys.Volatile \cup {c}
<1> DEFINE y == [x EXCEPT !.SubKeys[type] = @ \cup {c}]
<1>1. y.kind = "key" /\ y.Parent = x.Parent /\ y.Security = x.Security
  BY DEF Nodes
<1>2. y.SubKeys = [x.SubKeys EXCEPT ![type] = @ \cup {c}]
  BY DEF Nodes
<1>3. x.SubKeys \in [Stable : SUBSET StableCells, Volatile : SUBSET VolatileCells]
  BY DEF Nodes
<1> DEFINE K == x.SubKeys
<1> HIDE DEF K, y
<1>4. CASE type = "Stable"
  <2>1. y.SubKeys = [K EXCEPT !.Stable = @ \cup {c}]
    BY <1>2, <1>4 DEF K
  <2>2. K \in [Stable : SUBSET StableCells, Volatile : SUBSET VolatileCells]
    BY <1>3 DEF K
  <2>3. y.SubKeys.Stable = K.Stable \cup {c} /\ y.SubKeys.Volatile = K.Volatile
    BY <2>1, <2>2
  <2>4. y.SubKeys.Stable \cup y.SubKeys.Volatile = K.Stable \cup K.Volatile \cup {c}
    BY <2>3
  <2> QED  BY <1>1, <2>4 DEF K, y
<1>5. CASE type = "Volatile"
  <2>1. y.SubKeys = [K EXCEPT !.Volatile = @ \cup {c}]
    BY <1>2, <1>5 DEF K
  <2>2. K \in [Stable : SUBSET StableCells, Volatile : SUBSET VolatileCells]
    BY <1>3 DEF K
  <2>3. y.SubKeys.Volatile = K.Volatile \cup {c} /\ y.SubKeys.Stable = K.Stable
    BY <2>1, <2>2
  <2>4. y.SubKeys.Stable \cup y.SubKeys.Volatile = K.Stable \cup K.Volatile \cup {c}
    BY <2>3
  <2> QED  BY <1>1, <2>4 DEF K, y
<1> QED  BY <1>4, <1>5, StorageFacts DEF y

LEMMA EnteredKept ==
  ASSUME NEW h \in Hives, NEW g, NEW parent \in Cells, h.cell[parent].kind = "key",
         NEW name, NEW type \in DOMAIN Storage, NEW c, Entered(h, g, parent, name, type, c)
  PROVE  Kept(h, g)
<1> DEFINE s == h.cell[parent].Security
<1>0. c \in Cells /\ h.cell[c].kind = "free" /\ c # parent /\ h.cell[parent] \in Nodes
  <2>1. c \in Cells /\ h.cell[c].kind = "free"
    BY StorageFacts DEF Entered, FreeCell
  <2>2. h.cell[parent] \in Nodes
    BY ContentFacts DEF Hives
  <2> QED  BY <2>1, <2>2
<1>1. \A d \in Cells \ {c, parent} :
        /\ g.cell[d].kind = h.cell[d].kind
        /\ Place(g.cell[d]) = Place(h.cell[d])
        /\ h.cell[d].kind # "security" => g.cell[d] = h.cell[d]
  BY CountedIsSame DEF Entered
<1>2. /\ g.cell[parent].kind = "key" /\ g.cell[parent].Parent = h.cell[parent].Parent
      /\ SubKeysOf(g, parent) = SubKeysOf(h, parent) \cup {c}
  <2>1. g.cell[parent] = [h.cell[parent] EXCEPT !.SubKeys[type] = @ \cup {c}]
    BY DEF Entered
  <2> DEFINE x == h.cell[parent]
             y == [x EXCEPT !.SubKeys[type] = @ \cup {c}]
  <2>0. x \in Nodes
    BY <1>0
  <2> HIDE DEF x
  <2>2. /\ y.kind = "key" /\ y.Parent = x.Parent
        /\ y.SubKeys.Stable \cup y.SubKeys.Volatile =
             x.SubKeys.Stable \cup x.SubKeys.Volatile \cup {c}
    BY <2>0, EnteredParent
  <2>3. g.cell[parent] = y
    BY <2>1 DEF x
  <2> HIDE DEF y
  <2> QED  BY <2>2, <2>3 DEF SubKeysOf, x
<1>3. g.cell[c].kind = "key" /\ g.cell[c].Parent = parent
  BY DEF Entered, CM_KEY_NODE
<1>4. Grows(h, g)
  BY <1>0, <1>1, <1>2 DEF Grows, SubKeysOf
<1>5. AllParented(h) => AllParented(g)
  <2> SUFFICES ASSUME AllParented(h), NEW d \in Cells, g.cell[d].kind = "key" PROVE Parented(g, d)
    BY DEF AllParented, Parented
  <2>1. CASE d = c
    BY <1>2, <1>3, <2>1 DEF Parented, Is
  <2>2. CASE d # c
    <3>1. h.cell[d].kind = "key" /\ Parented(h, d)
      BY <1>1, <2>2 DEF AllParented
    <3> QED  BY <1>4, <3>1, GrowsParented
  <2> QED  BY <2>1, <2>2
<1>6. Marks(h, g)
  <2>1. \A d \in {parent, c} \cap StableCells : BlockOf[d] \in g.dirty
    BY DEF Entered, Blocks
  <2> QED  BY <1>1, <2>1, CellsFacts DEF Marks, Entered
<1>7. RootIsKey(h) => RootIsKey(g)
  BY <1>4, CellsFacts DEF RootIsKey, Grows
<1> QED  BY <1>5, <1>6, <1>7 DEF Kept, Entered

-----------------------------------------------------------------------------
(* The walk along a path *)

\* One name of the path.
Walk(at, name, type, fails) ==
  IF ~Is(at.hive, at.cell, "key") THEN [at EXCEPT !.cell = HCELL_NIL]
  ELSE IF CmpFindSubKeyByName(at.hive, at.cell, name) = HCELL_NIL
  THEN CmiAddSubKey(at.hive, at.cell, name, type, fails)
  ELSE [at EXCEPT !.cell = Resolved(CmpFindSubKeyByName(at.hive, at.cell, name))]

\* The function g folds the walk over parts of a path.
Walks(b, path, type, fails, g) ==
  g = [s \in SUBSET DOMAIN path |->
         IF s = {} THEN b ELSE Walk(g[s \ {Max(s)}], path[Max(s)], type, fails)]

LEMMA FoldWalks ==
  ASSUME NEW h, NEW start, NEW path, NEW type, NEW fails,
         \E g : Walks([hive |-> h, cell |-> start], path, type, fails, g)
  PROVE  \E g : /\ Walks([hive |-> h, cell |-> start], path, type, fails, g)
                /\ RegpCreateKey(h, start, path, type, fails) = g[DOMAIN path]
<1> DEFINE b == [hive |-> h, cell |-> start]
           Folds(g) == g = [s \in SUBSET DOMAIN path |->
                              IF s = {} THEN b ELSE Walk(g[s \ {Max(s)}], path[Max(s)], type, fails)]
           w == CHOOSE g : Folds(g)
<1>1. RegpCreateKey(h, start, path, type, fails) = w[DOMAIN path]
  BY DEF RegpCreateKey, FoldLeft, MapThenFoldSet, Walk
<1>2. \A g : Walks(b, path, type, fails, g) <=> Folds(g)
  BY DEF Walks
<1>3. Folds(w)
  BY <1>2
<1> HIDE DEF w
<1> QED  BY <1>1, <1>2, <1>3

LEMMA WalkOfOne ==
  ASSUME NEW h, NEW start, NEW n, NEW type, NEW fails
  PROVE  RegpCreateKey(h, start, <<n>>, type, fails) =
           Walk([hive |-> h, cell |-> start], n, type, fails)
<1> DEFINE path == <<n>>
           b == [hive |-> h, cell |-> start]
           x == Walk(b, n, type, fails)
           w == [s \in SUBSET {1} |-> IF s = {} THEN b ELSE x]
<1>1. DOMAIN path = {1} /\ path[1] = n
  OBVIOUS
<1>2. \A s \in SUBSET {1} : s # {} => s = {1} /\ Max(s) = 1 /\ s \ {Max(s)} = {}
  <2>1. Max({1}) = 1
    BY DEF Max
  <2> QED  BY <2>1
<1> HIDE DEF path, b
<1>3. \A s \in SUBSET {1} : w[s] = IF s = {} THEN b ELSE Walk(w[s \ {Max(s)}], path[Max(s)], type, fails)
  BY <1>1, <1>2
<1> HIDE DEF x
<1>4. w = [s \in SUBSET {1} |-> w[s]]
  OBVIOUS
<1> HIDE DEF w
<1>5. w = [s \in SUBSET {1} |-> IF s = {} THEN b ELSE Walk(w[s \ {Max(s)}], path[Max(s)], type, fails)]
  BY <1>3, <1>4, Zenon
<1>6. Walks(b, path, type, fails, w)
  BY <1>1, <1>5 DEF Walks
<1>7. PICK g : /\ Walks(b, path, type, fails, g)
               /\ RegpCreateKey(h, start, path, type, fails) = g[DOMAIN path]
  BY <1>6, FoldWalks DEF b
<1>8. \A s \in SUBSET {1} : g[s] = IF s = {} THEN b ELSE Walk(g[s \ {Max(s)}], path[Max(s)], type, fails)
  <2>1. g = [s \in SUBSET {1} |-> IF s = {} THEN b ELSE Walk(g[s \ {Max(s)}], path[Max(s)], type, fails)]
    BY <1>1, <1>7 DEF Walks
  <2> QED  BY <2>1, Zenon
<1>9. g[{}] = b
  BY <1>8
<1>10. g[{1}] = Walk(g[{1} \ {Max({1})}], path[Max({1})], type, fails)
  BY <1>8
<1>11. Max({1}) = 1 /\ {1} \ {Max({1})} = {}
  BY <1>2
<1>12. g[{1}] = Walk(b, n, type, fails)
  BY <1>1, <1>9, <1>10, <1>11
<1> QED  BY <1>1, <1>7, <1>12 DEF path, b

LEMMA WalkOfTwo ==
  ASSUME NEW h, NEW start, NEW n, NEW m, NEW type, NEW fails
  PROVE  RegpCreateKey(h, start, <<n, m>>, type, fails) =
           Walk(Walk([hive |-> h, cell |-> start], n, type, fails), m, type, fails)
<1> DEFINE path == <<n, m>>
           b == [hive |-> h, cell |-> start]
           x == Walk(b, n, type, fails)
           y == Walk(b, m, type, fails)
           z == Walk(x, m, type, fails)
           S == SUBSET {1, 2}
           w == [s \in S |-> IF s = {} THEN b ELSE IF s = {1} THEN x ELSE IF s = {2} THEN y ELSE z]
           Body(g, s) == IF s = {} THEN b ELSE Walk(g[s \ {Max(s)}], path[Max(s)], type, fails)
<1>1. DOMAIN path = {1, 2} /\ path[1] = n /\ path[2] = m
  OBVIOUS
<1>2. S = {{}, {1}, {2}, {1, 2}}
  OBVIOUS
<1>3. Max({1}) = 1 /\ Max({2}) = 2 /\ Max({1, 2}) = 2
  BY DEF Max
<1>4. {1} \ {Max({1})} = {} /\ {2} \ {Max({2})} = {} /\ {1, 2} \ {Max({1, 2})} = {1}
  BY <1>3
<1>5. {1} # {} /\ {2} # {} /\ {1, 2} # {} /\ {1} # {2} /\ {1, 2} # {1} /\ {1, 2} # {2}
  OBVIOUS
<1> HIDE DEF path, b
<1>6. w[{}] = b /\ w[{1}] = x /\ w[{2}] = y /\ w[{1, 2}] = z
  BY <1>2, <1>5
<1>7. w = [s \in S |-> w[s]]
  OBVIOUS
<1> HIDE DEF w
<1>8. \A s \in S : w[s] = Body(w, s)
  <2> SUFFICES ASSUME NEW s \in S PROVE w[s] = Body(w, s)
    OBVIOUS
  <2>1. CASE s = {}   BY <1>6, <2>1
  <2>2. CASE s = {1}  BY <1>1, <1>3, <1>4, <1>5, <1>6, <2>2
  <2>3. CASE s = {2}  BY <1>1, <1>3, <1>4, <1>5, <1>6, <2>3
  <2>4. CASE s = {1, 2}
    <3>1. Body(w, s) = Walk(w[{1, 2} \ {Max({1, 2})}], path[Max({1, 2})], type, fails)
      BY <1>5, <2>4
    <3>2. Body(w, s) = z
      BY <3>1, <1>1, <1>3, <1>4, <1>6
    <3> QED  BY <3>2, <1>6, <2>4
  <2> QED  BY <1>2, <2>1, <2>2, <2>3, <2>4
<1>9. w = [s \in S |-> IF s = {} THEN b ELSE Walk(w[s \ {Max(s)}], path[Max(s)], type, fails)]
  BY <1>7, <1>8, Zenon
<1>10. Walks(b, path, type, fails, w)
  BY <1>1, <1>9 DEF Walks
<1>11. PICK g : /\ Walks(b, path, type, fails, g)
                /\ RegpCreateKey(h, start, path, type, fails) = g[DOMAIN path]
  BY <1>10, FoldWalks DEF b
<1>12. \A s \in S : g[s] = Body(g, s)
  <2>1. g = [s \in S |-> IF s = {} THEN b ELSE Walk(g[s \ {Max(s)}], path[Max(s)], type, fails)]
    BY <1>1, <1>11 DEF Walks
  <2> QED  BY <2>1, Zenon
<1>13. g[{}] = b
  BY <1>12
<1>14. g[{1}] = Walk(g[{1} \ {Max({1})}], path[Max({1})], type, fails)
  BY <1>12
<1>15. g[{1, 2}] = Walk(g[{1, 2} \ {Max({1, 2})}], path[Max({1, 2})], type, fails)
  BY <1>12
<1>16. g[{1}] = x
  BY <1>1, <1>3, <1>4, <1>13, <1>14
<1>17. g[{1, 2}] = z
  BY <1>1, <1>3, <1>4, <1>15, <1>16
<1> QED  BY <1>1, <1>11, <1>17 DEF path, b

-----------------------------------------------------------------------------
(* Creating: descriptors *)

LEMMA UsersFacts ==
  ASSUME NEW h, NEW s
  PROVE  IsFiniteSet(Users(h, s)) /\ Cardinality(Users(h, s)) \in Nat
<1>1. Users(h, s) \subseteq Cells
  BY DEF Users, KeyCellsOf
<1> QED  BY <1>1, CellsFacts, FS_Subset, FS_CardinalityType

\* Neither descriptors nor their ring change, and none is counted too low.
LEMMA RingStays ==
  ASSUME NEW h \in Hives, NEW g \in Hives, AllSound(h),
         \A t \in Cells : IsDescriptor(g, t) <=> IsDescriptor(h, t),
         \A t \in Cells : IsDescriptor(h, t) =>
           /\ g.cell[t].Flink = h.cell[t].Flink /\ g.cell[t].Blink = h.cell[t].Blink
           /\ g.cell[t].ReferenceCount >= Cardinality(Users(g, t)),
         \A c \in Cells : g.cell[c].kind = "key" => Is(g, g.cell[c].Security, "security")
  PROVE  AllSound(g)
<1>1. ASSUME NEW t \in Cells, IsDescriptor(g, t) PROVE DescriptorSound(g, t)
  <2>1. IsDescriptor(h, t) /\ DescriptorSound(h, t)
    BY <1>1 DEF AllSound
  <2>2. /\ h.cell[t].Flink \in Cells /\ IsDescriptor(h, h.cell[t].Flink)
        /\ h.cell[t].Blink \in Cells /\ IsDescriptor(h, h.cell[t].Blink)
    BY <2>1 DEF DescriptorSound, Is, IsDescriptor
  <2> QED  BY <2>1, <2>2 DEF DescriptorSound, Is, IsDescriptor
<1> QED  BY <1>1 DEF AllSound, KeyCellsOf

LEMMA CountedRing ==
  ASSUME NEW h \in Hives, NEW g, NEW s, NEW d \in Cells, Counted(h, g, d, s),
         h.cell[d].kind = "security"
  PROVE  /\ g.cell[d].Flink = h.cell[d].Flink /\ g.cell[d].Blink = h.cell[d].Blink
         /\ h.cell[d].ReferenceCount \in Int
         /\ g.cell[d].ReferenceCount = h.cell[d].ReferenceCount + (IF d = s THEN 1 ELSE 0)
<1>1. h.cell[d] \in Descriptors
  BY ContentFacts DEF Hives
<1>2. CASE d = s
  <2>1. g.cell[d] = [h.cell[d] EXCEPT !.ReferenceCount = @ + 1]
    BY <1>2 DEF Counted
  <2> QED  BY <1>1, <1>2, <2>1 DEF Descriptors
<1>3. CASE d # s
  <2>1. g.cell[d] = h.cell[d]
    BY <1>3 DEF Counted
  <2> QED  BY <1>1, <1>3, <2>1 DEF Descriptors
<1> QED  BY <1>2, <1>3

LEMMA NotEnteredSound ==
  ASSUME NEW h \in Hives, NEW g, NEW parent, NotEntered(h, g, parent), AllSound(h)
  PROVE  AllSound(g)
<1> DEFINE s == h.cell[parent].Security
<1>1. \A d \in Cells : /\ g.cell[d].kind = h.cell[d].kind
                       /\ h.cell[d].kind # "security" => g.cell[d] = h.cell[d]
  BY CountedIsSame DEF NotEntered
<1>2. \A t : Users(g, t) = Users(h, t)
  BY <1>1 DEF Users, KeyCellsOf
<1>3. ASSUME NEW t \in Cells, IsDescriptor(h, t)
      PROVE  /\ g.cell[t].Flink = h.cell[t].Flink /\ g.cell[t].Blink = h.cell[t].Blink
             /\ g.cell[t].ReferenceCount >= Cardinality(Users(g, t))
  <2>1. /\ g.cell[t].Flink = h.cell[t].Flink /\ g.cell[t].Blink = h.cell[t].Blink
        /\ h.cell[t].ReferenceCount \in Int
        /\ g.cell[t].ReferenceCount = h.cell[t].ReferenceCount + (IF t = s THEN 1 ELSE 0)
    BY <1>3, CountedRing DEF NotEntered, IsDescriptor
  <2>2. h.cell[t].ReferenceCount >= Cardinality(Users(h, t))
    BY <1>3 DEF AllSound, DescriptorSound
  <2>3. Cardinality(Users(h, t)) \in Nat
    BY UsersFacts
  <2>4. Cardinality(Users(g, t)) = Cardinality(Users(h, t))
    BY <1>2
  <2> QED  BY <2>1, <2>2, <2>3, <2>4
<1>4. \A t \in Cells : IsDescriptor(g, t) <=> IsDescriptor(h, t)
  BY <1>1 DEF IsDescriptor
<1>5. \A c \in Cells : g.cell[c].kind = "key" => Is(g, g.cell[c].Security, "security")
  BY <1>1 DEF AllSound, KeyCellsOf, Is
<1>6. g \in Hives
  BY DEF NotEntered
<1> QED  BY <1>3, <1>4, <1>5, <1>6, RingStays

LEMMA EnteredSound ==
  ASSUME NEW h \in Hives, NEW g, NEW parent \in Cells, h.cell[parent].kind = "key",
         NEW name, NEW type \in DOMAIN Storage, NEW c, Entered(h, g, parent, name, type, c),
         AllSound(h)
  PROVE  AllSound(g)
<1> DEFINE s == h.cell[parent].Security
<1>1. c \in Cells /\ h.cell[c].kind = "free" /\ c # parent /\ h.cell[parent] \in Nodes
  <2>1. c \in Cells /\ h.cell[c].kind = "free"
    BY StorageFacts DEF Entered, FreeCell
  <2>2. h.cell[parent] \in Nodes
    BY ContentFacts DEF Hives
  <2> QED  BY <2>1, <2>2
<1>2. \A d \in Cells \ {c, parent} :
        /\ g.cell[d].kind = h.cell[d].kind
        /\ h.cell[d].kind # "security" => g.cell[d] = h.cell[d]
  BY CountedIsSame DEF Entered
<1>3. g.cell[parent].kind = "key" /\ g.cell[parent].Security = s
  <2> DEFINE x == h.cell[parent]
             y == [x EXCEPT !.SubKeys[type] = @ \cup {c}]
  <2>1. g.cell[parent] = y /\ x \in Nodes
    BY <1>1 DEF Entered
  <2> HIDE DEF x
  <2>2. y.kind = "key" /\ y.Security = x.Security
    BY <2>1, EnteredParent
  <2> HIDE DEF y
  <2> QED  BY <2>1, <2>2 DEF x
<1>4. g.cell[c].kind = "key" /\ g.cell[c].Security = s
  BY DEF Entered, CM_KEY_NODE
<1>5. \A t : Users(g, t) = Users(h, t) \cup (IF t = s THEN {c} ELSE {})
  BY <1>1, <1>2, <1>3, <1>4 DEF Users, KeyCellsOf
<1>6. ASSUME NEW t \in Cells, IsDescriptor(h, t)
      PROVE  /\ g.cell[t].Flink = h.cell[t].Flink /\ g.cell[t].Blink = h.cell[t].Blink
             /\ g.cell[t].ReferenceCount >= Cardinality(Users(g, t))
  <2>1. t # c /\ t # parent
    BY <1>1, <1>6 DEF IsDescriptor
  <2>2. /\ g.cell[t].Flink = h.cell[t].Flink /\ g.cell[t].Blink = h.cell[t].Blink
        /\ h.cell[t].ReferenceCount \in Int
        /\ g.cell[t].ReferenceCount = h.cell[t].ReferenceCount + (IF t = s THEN 1 ELSE 0)
    BY <1>6, <2>1, CountedRing DEF Entered, IsDescriptor
  <2>3. h.cell[t].ReferenceCount >= Cardinality(Users(h, t))
    BY <1>6 DEF AllSound, DescriptorSound
  <2>4. c \notin Users(h, t) /\ IsFiniteSet(Users(h, t)) /\ Cardinality(Users(h, t)) \in Nat
    <3>1. c \notin Users(h, t)
      BY <1>1 DEF Users, KeyCellsOf
    <3> QED  BY <3>1, UsersFacts
  <2>5. Cardinality(Users(g, t)) = Cardinality(Users(h, t)) + (IF t = s THEN 1 ELSE 0)
    <3>1. CASE t = s
      <4>1. Users(g, t) = Users(h, t) \cup {c}
        BY <1>5, <3>1
      <4>2. Cardinality(Users(h, t) \cup {c}) = Cardinality(Users(h, t)) + 1
        BY <2>4, FS_AddElement
      <4> QED  BY <3>1, <4>1, <4>2
    <3>2. CASE t # s
      <4>1. Users(g, t) = Users(h, t)
        BY <1>5, <3>2
      <4> QED  BY <2>4, <3>2, <4>1
    <3> QED  BY <3>1, <3>2
  <2> QED  BY <2>2, <2>3, <2>4, <2>5
<1>7. \A t \in Cells : IsDescriptor(g, t) <=> IsDescriptor(h, t)
  BY <1>1, <1>2, <1>3, <1>4 DEF IsDescriptor
<1>8. \A d \in Cells : g.cell[d].kind = "key" => Is(g, g.cell[d].Security, "security")
  <2>1. Is(h, s, "security")
    BY DEF AllSound, KeyCellsOf
  <2>2. \A t \in Cells : IsDescriptor(h, t) => Is(g, t, "security")
    BY <1>7 DEF IsDescriptor, Is
  <2> QED  BY <1>2, <1>3, <1>4, <2>1, <2>2 DEF AllSound, KeyCellsOf, Is, IsDescriptor
<1>9. g \in Hives
  BY DEF Entered
<1> QED  BY <1>6, <1>7, <1>8, <1>9, RingStays

-----------------------------------------------------------------------------
(* Creating: what the keys list *)

\* Keys in the same places have the same lists.
LEMMA SamePlacesListed ==
  ASSUME NEW h \in Hives, NEW g, Listed(h),
         \A c \in StableCells : Place(g.cell[c]) = Place(h.cell[c])
  PROVE  Listed(g)
<1>1. ASSUME NEW c \in StableCells
      PROVE  /\ g.cell[c].kind = "key" <=> h.cell[c].kind = "key"
             /\ g.cell[c].kind = "key" =>
                  g.cell[c].Parent = h.cell[c].Parent /\ g.cell[c].SubKeys = h.cell[c].SubKeys
  BY DEF Place
<1>2. ASSUME NEW c \in StableCells, g.cell[c].kind = "key", NEW k \in g.cell[c].SubKeys.Stable
      PROVE  g.cell[k].kind = "key" /\ g.cell[k].Parent = c
  <2>1. h.cell[c].kind = "key" /\ k \in h.cell[c].SubKeys.Stable
    BY <1>1, <1>2
  <2>2. h.cell[c] \in Nodes
    BY <2>1, ContentFacts, CellsFacts DEF Hives
  <2>3. k \in StableCells
    BY <2>1, <2>2 DEF Nodes
  <2>4. h.cell[k].kind = "key" /\ h.cell[k].Parent = c
    BY <2>1 DEF Listed
  <2> QED  BY <1>1, <2>3, <2>4
<1> QED  BY <1>2 DEF Listed

LEMMA NotEnteredListed ==
  ASSUME NEW h \in Hives, NEW g, NEW parent, NotEntered(h, g, parent), Listed(h)
  PROVE  Listed(g)
<1>1. \A d \in Cells : Place(g.cell[d]) = Place(h.cell[d])
  BY CountedIsSame DEF NotEntered
<1> QED  BY <1>1, SamePlacesListed, CellsFacts

LEMMA EnteredList ==
  ASSUME NEW x \in Nodes, NEW type \in DOMAIN Storage, NEW c
  PROVE  [x EXCEPT !.SubKeys[type] = @ \cup {c}].SubKeys.Stable \subseteq x.SubKeys.Stable \cup {c}
<1> DEFINE K == x.SubKeys
           L == [K EXCEPT ![type] = @ \cup {c}]
           y == [x EXCEPT !.SubKeys = L]
<1>1. [x EXCEPT !.SubKeys[type] = @ \cup {c}] = y
  OBVIOUS
<1>2. K \in [Stable : SUBSET StableCells, Volatile : SUBSET VolatileCells]
  BY DEF Nodes
<1> HIDE DEF K
<1>3. CASE type = "Stable"
  BY <1>2, <1>3
<1>4. CASE type = "Volatile"
  BY <1>2, <1>4
<1>5. L.Stable \subseteq K.Stable \cup {c}
  <2>1. type = "Stable" => L.Stable \subseteq K.Stable \cup {c}
    BY <1>2
  <2>2. type = "Volatile" => L.Stable \subseteq K.Stable \cup {c}
    BY <1>2
  <2> QED  BY <2>1, <2>2, StorageFacts
<1> HIDE DEF L
<1>6. y.SubKeys = L
  BY DEF Nodes
<1> QED  BY <1>1, <1>5, <1>6 DEF K

LEMMA EnteredListed ==
  ASSUME NEW h \in Hives, NEW g, NEW parent \in Cells, h.cell[parent].kind = "key",
         NEW name, NEW type \in DOMAIN Storage, NEW c, Entered(h, g, parent, name, type, c),
         Listed(h)
  PROVE  Listed(g)
<1>1. c \in Cells /\ h.cell[c].kind = "free" /\ c # parent /\ h.cell[parent] \in Nodes
  <2>1. c \in Cells /\ h.cell[c].kind = "free"
    BY StorageFacts DEF Entered, FreeCell
  <2>2. h.cell[parent] \in Nodes
    BY ContentFacts DEF Hives
  <2> QED  BY <2>1, <2>2
<1>2. ASSUME NEW d \in Cells \ {c, parent}
      PROVE  /\ g.cell[d].kind = "key" <=> h.cell[d].kind = "key"
             /\ g.cell[d].kind = "key" => g.cell[d] = h.cell[d]
  BY CountedIsSame DEF Entered
<1>3. /\ g.cell[parent].kind = "key" /\ g.cell[parent].Parent = h.cell[parent].Parent
      /\ g.cell[parent].SubKeys.Stable \subseteq h.cell[parent].SubKeys.Stable \cup {c}
  <2> DEFINE x == h.cell[parent]
             y == [x EXCEPT !.SubKeys[type] = @ \cup {c}]
  <2>1. g.cell[parent] = y
    BY DEF Entered
  <2>2. x \in Nodes
    BY <1>1
  <2> HIDE DEF x
  <2>3. y.kind = "key" /\ y.Parent = x.Parent
    BY <2>2, EnteredParent
  <2>4. y.SubKeys.Stable \subseteq x.SubKeys.Stable \cup {c}
    BY <2>2, EnteredList
  <2> HIDE DEF y
  <2> QED  BY <2>1, <2>3, <2>4 DEF x
<1>4. /\ g.cell[c].kind = "key" /\ g.cell[c].Parent = parent
      /\ g.cell[c].SubKeys.Stable = {}
  BY DEF Entered, CM_KEY_NODE
<1>5. ASSUME NEW d \in StableCells, h.cell[d].kind = "key", NEW k \in h.cell[d].SubKeys.Stable
      PROVE  g.cell[k].kind = "key" /\ g.cell[k].Parent = d
  <2>1. h.cell[d] \in Nodes
    BY <1>5, ContentFacts, CellsFacts DEF Hives
  <2>2. k \in Cells
    BY <1>5, <2>1, CellsFacts DEF Nodes
  <2>3. h.cell[k].kind = "key" /\ h.cell[k].Parent = d
    BY <1>5 DEF Listed
  <2>4. k # c
    BY <1>1, <2>3
  <2> QED  BY <1>2, <1>3, <2>2, <2>3, <2>4
<1>6. ASSUME NEW d \in StableCells, g.cell[d].kind = "key", NEW k \in g.cell[d].SubKeys.Stable
      PROVE  g.cell[k].kind = "key" /\ g.cell[k].Parent = d
  <2>1. CASE d = c
    BY <1>4, <1>6, <2>1
  <2>2. CASE d = parent
    BY <1>3, <1>4, <1>5, <1>6, <2>2
  <2>3. CASE d \notin {c, parent}
    BY <1>2, <1>5, <1>6, <2>3, CellsFacts
  <2> QED  BY <2>1, <2>2, <2>3
<1> QED  BY <1>6 DEF Listed

-----------------------------------------------------------------------------
(* Creating: all that a call does *)

\* A change of a hive keeps its keys, its lists and its descriptors.
KeptAll(h, g) ==
  /\ Kept(h, g)
  /\ Listed(h) => Listed(g)
  /\ AllSound(h) => AllSound(g)

\* Where a walk has come.
At(at) == DOMAIN at = {"hive", "cell"} /\ at.hive \in Hives

LEMMA KeptAllTransitive ==
  ASSUME NEW h, NEW g, NEW i, KeptAll(h, g), KeptAll(g, i)
  PROVE  KeptAll(h, i)
  BY KeptTransitive DEF KeptAll

LEMMA AddKept ==
  ASSUME NEW h \in Hives, NEW parent \in Cells, h.cell[parent].kind = "key", NEW name \in Names,
         NEW type \in DOMAIN Storage, NEW fails \in BOOLEAN
  PROVE  LET r == CmiAddSubKey(h, parent, name, type, fails) IN At(r) /\ KeptAll(h, r.hive)
<1> DEFINE r == CmiAddSubKey(h, parent, name, type, fails)
<1>1. \/ r.cell = HCELL_NIL /\ r.hive = h
      \/ r.cell = HCELL_NIL /\ NotEntered(h, r.hive, parent)
      \/ Entered(h, r.hive, parent, name, type, r.cell)
  BY AddedFacts
<1>2. DOMAIN r = {"hive", "cell"}
  <2>1. \A x, y : DOMAIN [hive |-> x, cell |-> y] = {"hive", "cell"}
    OBVIOUS
  <2> QED  BY <2>1 DEF CmiAddSubKey, AddedAt
<1> HIDE DEF r
<1>3. KeptAll(h, r.hive)
  <2>1. CASE r.hive = h
    BY <2>1, KeptReflexive DEF KeptAll
  <2>2. CASE NotEntered(h, r.hive, parent)
    BY <2>2, NotEnteredKept, NotEnteredListed, NotEnteredSound DEF KeptAll
  <2>3. CASE Entered(h, r.hive, parent, name, type, r.cell)
    <3>1. Kept(h, r.hive)
      BY <2>3, EnteredKept
    <3>2. AllSound(h) => AllSound(r.hive)
      BY <2>3, EnteredSound
    <3>3. Listed(h) => Listed(r.hive)
      BY <2>3, EnteredListed
    <3> QED  BY <3>1, <3>2, <3>3 DEF KeptAll
  <2> QED  BY <1>1, <2>1, <2>2, <2>3
<1>4. r.hive \in Hives
  BY <1>3 DEF KeptAll, Kept
<1> QED  BY <1>2, <1>3, <1>4 DEF At, r

LEMMA WalkKept ==
  ASSUME NEW at, At(at), NEW name \in Names, NEW type \in DOMAIN Storage, NEW fails \in BOOLEAN
  PROVE  LET r == Walk(at, name, type, fails) IN At(r) /\ KeptAll(at.hive, r.hive)
<1> DEFINE r == Walk(at, name, type, fails)
<1>0. KeptAll(at.hive, at.hive)
  BY KeptReflexive DEF KeptAll, At
<1>1. \A x : At([at EXCEPT !.cell = x]) /\ [at EXCEPT !.cell = x].hive = at.hive
  BY DEF At
<1>2. CASE ~Is(at.hive, at.cell, "key")
  <2>1. r = [at EXCEPT !.cell = HCELL_NIL]
    BY <1>2 DEF Walk
  <2> HIDE DEF r
  <2> QED  BY <2>1, <1>0, <1>1 DEF r
<1>3. CASE /\ Is(at.hive, at.cell, "key")
           /\ CmpFindSubKeyByName(at.hive, at.cell, name) = HCELL_NIL
  <2>1. r = CmiAddSubKey(at.hive, at.cell, name, type, fails)
    BY <1>3 DEF Walk
  <2>2. at.hive \in Hives /\ at.cell \in Cells /\ at.hive.cell[at.cell].kind = "key"
    BY <1>3 DEF At, Is
  <2> HIDE DEF r
  <2> QED  BY <2>1, <2>2, AddKept DEF r
<1>4. CASE /\ Is(at.hive, at.cell, "key")
           /\ CmpFindSubKeyByName(at.hive, at.cell, name) # HCELL_NIL
  <2>1. r = [at EXCEPT !.cell = Resolved(CmpFindSubKeyByName(at.hive, at.cell, name))]
    BY <1>4 DEF Walk
  <2> HIDE DEF r
  <2> QED  BY <2>1, <1>0, <1>1 DEF r
<1> QED  BY <1>2, <1>3, <1>4

\* A path that is looked at has one name or two.
LEMMA CreateKept ==
  ASSUME NEW h \in Hives, NEW start, NEW path,
         \/ \E n \in Names : path = <<n>>
         \/ \E n, m \in Names : path = <<n, m>>,
         NEW type \in DOMAIN Storage, NEW fails \in BOOLEAN
  PROVE  LET r == RegpCreateKey(h, start, path, type, fails) IN At(r) /\ KeptAll(h, r.hive)
<1> DEFINE b == [hive |-> h, cell |-> start]
<1>1. At(b) /\ b.hive = h
  BY DEF At
<1> HIDE DEF b
<1>2. CASE \E n \in Names : path = <<n>>
  <2>1. PICK n \in Names : path = <<n>>
    BY <1>2
  <2>2. RegpCreateKey(h, start, path, type, fails) = Walk(b, n, type, fails)
    BY <2>1, WalkOfOne DEF b
  <2> QED  BY <2>2, <1>1, WalkKept
<1>3. CASE \E n, m \in Names : path = <<n, m>>
  <2>1. PICK n \in Names, m \in Names : path = <<n, m>>
    BY <1>3
  <2> DEFINE x == Walk(b, n, type, fails)
  <2>2. At(x) /\ KeptAll(h, x.hive)
    BY <1>1, WalkKept
  <2>3. RegpCreateKey(h, start, path, type, fails) = Walk(x, m, type, fails)
    BY <2>1, WalkOfTwo DEF b
  <2> HIDE DEF x
  <2> DEFINE y == Walk(x, m, type, fails)
  <2>4. At(y) /\ KeptAll(x.hive, y.hive)
    BY <2>2, WalkKept
  <2> HIDE DEF y
  <2>5. KeptAll(h, y.hive)
    BY <2>2, <2>4, KeptAllTransitive
  <2> QED  BY <2>3, <2>4, <2>5 DEF y
<1> QED  BY <1>2, <1>3

LEMMA PathsAreShort ==
  ASSUME NEW start, NEW path \in PathsFrom(start)
  PROVE  \/ \E n \in Names : path = <<n>>
         \/ \E n, m \in Names : path = <<n, m>>
  BY DEF PathsFrom, Names

-----------------------------------------------------------------------------
(* Deleting: what becomes of each cell *)

\* The key c without the subkey k.
Without(content, k) ==
  [content EXCEPT !.SubKeys = [Stable |-> @.Stable \ {k}, Volatile |-> @.Volatile \ {k}]]

LEMMA WithoutFacts ==
  ASSUME NEW x \in Nodes, NEW k
  PROVE  /\ Without(x, k) \in Nodes
         /\ Without(x, k).kind = "key" /\ Without(x, k).Parent = x.Parent
         /\ Without(x, k).Security = x.Security
         /\ Without(x, k).SubKeys.Stable \cup Without(x, k).SubKeys.Volatile =
              (x.SubKeys.Stable \cup x.SubKeys.Volatile) \ {k}
<1> DEFINE L == [Stable |-> x.SubKeys.Stable \ {k}, Volatile |-> x.SubKeys.Volatile \ {k}]
<1>1. L \in [Stable : SUBSET StableCells, Volatile : SUBSET VolatileCells]
  BY DEF Nodes
<1>2. L.Stable \cup L.Volatile = (x.SubKeys.Stable \cup x.SubKeys.Volatile) \ {k}
  OBVIOUS
<1>3. Without(x, k) = [x EXCEPT !.SubKeys = L]
  BY DEF Without
<1> HIDE DEF L
<1>4. [x EXCEPT !.SubKeys = L] \in Nodes
  BY <1>1 DEF Nodes
<1>5. /\ [x EXCEPT !.SubKeys = L].kind = "key" /\ [x EXCEPT !.SubKeys = L].Parent = x.Parent
      /\ [x EXCEPT !.SubKeys = L].Security = x.Security /\ [x EXCEPT !.SubKeys = L].SubKeys = L
  BY DEF Nodes
<1> QED  BY <1>2, <1>3, <1>4, <1>5

LEMMA RemoveFacts ==
  ASSUME NEW h \in Hives, NEW k \in Cells, h.cell[k].kind = "key"
  PROVE  LET g == CmpRemoveSubKey(h, k)
             p == h.cell[k].Parent IN
         /\ g \in Hives /\ g.dirty = h.dirty
         /\ \A d \in Cells : g.cell[d] = IF d = p /\ h.cell[d].kind = "key"
                                         THEN Without(h.cell[d], k) ELSE h.cell[d]
<1> DEFINE p == h.cell[k].Parent
           x == [h.cell[p] EXCEPT !.SubKeys = [Stable |-> @.Stable \ {k}, Volatile |-> @.Volatile \ {k}]]
           g == [h EXCEPT !.cell[p] = x]
<1>1. CmpRemoveSubKey(h, k) = g
  BY DEF CmpRemoveSubKey
<1>2. p \in Cells => x = IF h.cell[p].kind = "key" THEN Without(h.cell[p], k) ELSE h.cell[p]
  <2> SUFFICES ASSUME p \in Cells
               PROVE  x = IF h.cell[p].kind = "key" THEN Without(h.cell[p], k) ELSE h.cell[p]
    OBVIOUS
  <2>1. h.cell[p] \in Contents
    BY DEF Hives
  <2> QED  BY <2>1, NoSuchField DEF Without
<1>3. p \in Cells => x \in Contents
  <2> SUFFICES ASSUME p \in Cells PROVE x \in Contents
    OBVIOUS
  <2>1. h.cell[p] \in Contents
    BY DEF Hives
  <2>2. h.cell[p].kind = "key" => Without(h.cell[p], k) \in Contents
    BY <2>1, ContentFacts, WithoutFacts DEF Contents
  <2> HIDE DEF x, p
  <2> QED  BY <2>1, <2>2, <1>2
<1>4. g.dirty = h.dirty /\ g.cell = [h.cell EXCEPT ![p] = x] /\ g = [h EXCEPT !.cell = [h.cell EXCEPT ![p] = x]]
  BY DEF Hives
<1> HIDE DEF x, p
<1>5. [h.cell EXCEPT ![p] = x] \in [Cells -> Contents]
  BY <1>3 DEF Hives
<1>6. g \in Hives
  BY <1>4, <1>5 DEF Hives
<1> HIDE DEF g
<1>7. \A d \in Cells : g.cell[d] = IF d = p THEN x ELSE h.cell[d]
  BY <1>4 DEF Hives
<1> QED  BY <1>1, <1>2, <1>4, <1>6, <1>7 DEF p

\* The key k forgets its descriptor.
LEMMA ForgetFacts ==
  ASSUME NEW h \in Hives, NEW k \in Cells, h.cell[k].kind = "key"
  PROVE  LET g == [h EXCEPT !.cell[k].Security = HCELL_NIL] IN
         /\ g \in Hives /\ g.dirty = h.dirty
         /\ g.cell[k].kind = "key" /\ g.cell[k].Security = HCELL_NIL
         /\ \A d \in Cells \ {k} : g.cell[d] = h.cell[d]
<1> DEFINE x == [h.cell[k] EXCEPT !.Security = HCELL_NIL]
           g == [h EXCEPT !.cell[k] = x]
<1>1. [h EXCEPT !.cell[k].Security = HCELL_NIL] = g
  OBVIOUS
<1>2. h.cell[k] \in Nodes
  BY ContentFacts DEF Hives
<1>3. x \in Nodes /\ x.kind = "key" /\ x.Security = HCELL_NIL
  BY <1>2 DEF Nodes
<1> HIDE DEF x
<1>4. g \in Hives /\ g.dirty = h.dirty /\ g.cell = [h.cell EXCEPT ![k] = x]
  BY <1>3 DEF Hives, Contents
<1> HIDE DEF g
<1>5. \A d \in Cells : g.cell[d] = IF d = k THEN x ELSE h.cell[d]
  BY <1>4 DEF Hives
<1> QED  BY <1>1, <1>3, <1>4, <1>5

\* The descriptor s is taken out of the ring.
RingWithout(h, d, s) ==
  IF h.cell[d].kind # "security" THEN h.cell[d]
  ELSE [h.cell[d] EXCEPT !.Blink = IF d = h.cell[s].Flink THEN h.cell[s].Blink ELSE @,
                         !.Flink = IF d = h.cell[s].Blink THEN h.cell[s].Flink ELSE @]

\* A descriptor with other links.
Relinked(x, a, b) == [x EXCEPT !.Blink = a, !.Flink = b]

\* One link is written; a cell that is no descriptor has none.
LinkTo(h, c, field, v) == [h EXCEPT !.cell[c][field] = v]

LEMMA LinkWritten ==
  ASSUME NEW h \in Hives, NEW c, NEW v \in Cells \cup {HCELL_NIL}, NEW field \in {"Flink", "Blink"}
  PROVE  LET g == LinkTo(h, c, field, v) IN
         /\ g \in Hives /\ g.dirty = h.dirty
         /\ \A d \in Cells : g.cell[d] = IF d = c /\ h.cell[d].kind = "security"
                                         THEN [h.cell[d] EXCEPT ![field] = v] ELSE h.cell[d]
<1> DEFINE x == [h.cell[c] EXCEPT ![field] = v]
           g == [h EXCEPT !.cell[c] = x]
<1>1. LinkTo(h, c, field, v) = g
  BY DEF LinkTo
<1>2. c \in Cells => x \in Contents /\ (h.cell[c].kind # "security" => x = h.cell[c])
  <2> SUFFICES ASSUME c \in Cells
               PROVE  x \in Contents /\ (h.cell[c].kind # "security" => x = h.cell[c])
    OBVIOUS
  <2>1. h.cell[c] \in Contents
    BY DEF Hives
  <2>2. CASE h.cell[c].kind = "security"
    <3>1. h.cell[c] \in Descriptors
      BY <2>1, <2>2, ContentFacts
    <3>2. CASE field = "Flink"  BY <3>1, <3>2, <2>2 DEF Descriptors, Contents
    <3>3. CASE field = "Blink"  BY <3>1, <3>3, <2>2 DEF Descriptors, Contents
    <3> QED  BY <3>2, <3>3
  <2>3. CASE h.cell[c].kind # "security"
    <3>1. CASE field = "Flink"  BY <2>1, <2>3, <3>1, NoSuchField
    <3>2. CASE field = "Blink"  BY <2>1, <2>3, <3>2, NoSuchField
    <3> QED  BY <3>1, <3>2
  <2> QED  BY <2>2, <2>3
<1>3. g.dirty = h.dirty /\ g.cell = [h.cell EXCEPT ![c] = x] /\ g = [h EXCEPT !.cell = [h.cell EXCEPT ![c] = x]]
  BY DEF Hives
<1>0. x = [h.cell[c] EXCEPT ![field] = v]
  OBVIOUS
<1> HIDE DEF x
<1>4. [h.cell EXCEPT ![c] = x] \in [Cells -> Contents]
  BY <1>2 DEF Hives
<1>5. g \in Hives
  BY <1>3, <1>4 DEF Hives
<1> HIDE DEF g
<1>6. \A d \in Cells : g.cell[d] = IF d = c THEN x ELSE h.cell[d]
  BY <1>3 DEF Hives
<1>7. \A d \in Cells : g.cell[d] = IF d = c /\ h.cell[d].kind = "security"
                                   THEN [h.cell[d] EXCEPT ![field] = v] ELSE h.cell[d]
  BY <1>0, <1>2, <1>6
<1> QED  BY <1>1, <1>3, <1>5, <1>7

LEMMA RingFacts ==
  ASSUME NEW h \in Hives, NEW s \in Cells, h.cell[s].kind = "security"
  PROVE  LET g == CmpRemoveSecurityCellList(h, s) IN
         /\ g \in Hives /\ g.dirty = h.dirty
         /\ \A d \in Cells : g.cell[d] = RingWithout(h, d, s)
<1> DEFINE F == h.cell[s].Flink
           B == h.cell[s].Blink
           h1 == LinkTo(h, F, "Blink", B)
           h2 == LinkTo(h1, B, "Flink", F)
<1>1. F \in Cells \cup {HCELL_NIL} /\ B \in Cells \cup {HCELL_NIL}
  <2>1. h.cell[s] \in Descriptors
    BY ContentFacts DEF Hives
  <2> QED  BY <2>1 DEF Descriptors
<1>2. CmpRemoveSecurityCellList(h, s) = h2
  BY DEF CmpRemoveSecurityCellList, LinkTo
<1> HIDE DEF F, B
<1>3. /\ h1 \in Hives /\ h1.dirty = h.dirty
      /\ \A d \in Cells : h1.cell[d] = IF d = F /\ h.cell[d].kind = "security"
                                       THEN [h.cell[d] EXCEPT !["Blink"] = B] ELSE h.cell[d]
  BY <1>1, LinkWritten
<1> HIDE DEF h1
<1>4. /\ h2 \in Hives /\ h2.dirty = h1.dirty
      /\ \A d \in Cells : h2.cell[d] = IF d = B /\ h1.cell[d].kind = "security"
                                       THEN [h1.cell[d] EXCEPT !["Flink"] = F] ELSE h1.cell[d]
  BY <1>1, <1>3, LinkWritten
<1> HIDE DEF h2
<1>5. ASSUME NEW d \in Cells PROVE h2.cell[d] = RingWithout(h, d, s)
  <2>1. CASE h.cell[d].kind # "security"
    BY <2>1, <1>3, <1>4 DEF RingWithout
  <2>2. CASE h.cell[d].kind = "security"
    <3> DEFINE x == h.cell[d]
    <3>1. x \in Descriptors
      BY <2>2, ContentFacts DEF Hives
    <3>2. h1.cell[d] = [x EXCEPT !.Blink = IF d = F THEN B ELSE @]
      BY <1>3, <2>2, <3>1 DEF Descriptors
    <3>3. h1.cell[d].kind = "security" /\ h1.cell[d].Flink = x.Flink
      BY <3>1, <3>2 DEF Descriptors
    <3>4. h1.cell[d] \in Descriptors
      BY <1>3, <3>3, ContentFacts DEF Hives
    <3>5. h2.cell[d] = [h1.cell[d] EXCEPT !.Flink = IF d = B THEN F ELSE @]
      BY <1>4, <3>3, <3>4 DEF Descriptors
    <3>6. h2.cell[d] = [x EXCEPT !.Blink = IF d = F THEN B ELSE @, !.Flink = IF d = B THEN F ELSE @]
      BY <3>2, <3>3, <3>5
    <3> QED  BY <3>6, <2>2 DEF RingWithout, F, B
  <2> QED  BY <2>1, <2>2
<1> QED  BY <1>2, <1>3, <1>4, <1>5

\* The key k is gone, and its descriptor counts one user less, or is gone too.
Released(h, g, k) ==
  LET s == h.cell[k].Security IN
  /\ g \in Hives /\ h.dirty \cup Blocks({k}) \subseteq g.dirty
  /\ g.cell[k] = FreeCell
  /\ \/ /\ ~Is(h, s, "security")
        /\ \A d \in Cells \ {k} : g.cell[d] = h.cell[d]
     \/ /\ Is(h, s, "security") /\ h.cell[s].ReferenceCount > 1
        /\ \A d \in Cells \ {k} :
             g.cell[d] = IF d = s THEN [h.cell[d] EXCEPT !.ReferenceCount = @ - 1] ELSE h.cell[d]
     \/ /\ Is(h, s, "security") /\ ~(h.cell[s].ReferenceCount > 1)
        /\ \A d \in Cells \ {k} :
             g.cell[d] = IF d = s THEN FreeCell ELSE RingWithout(h, d, s)

LEMMA FreeFacts ==
  ASSUME NEW h \in Hives, NEW c \in Cells
  PROVE  LET g == HvFreeCell(h, c) IN
         /\ g \in Hives /\ g.dirty = h.dirty \cup Blocks({c})
         /\ \A d \in Cells : g.cell[d] = IF d = c THEN FreeCell ELSE h.cell[d]
<1> DEFINE g == Put(h, c, FreeCell)
<1>1. FreeCell \in Contents
  BY DEF Contents
<1>2. g \in Hives /\ g.dirty = h.dirty \cup Blocks({c}) /\ g.cell = [h.cell EXCEPT ![c] = FreeCell]
  BY <1>1, PutFacts
<1>3. HvFreeCell(h, c) = g
  BY DEF HvFreeCell
<1> HIDE DEF g
<1>4. \A d \in Cells : g.cell[d] = IF d = c THEN FreeCell ELSE h.cell[d]
  BY <1>2 DEF Hives
<1> QED  BY <1>2, <1>3, <1>4

LEMMA ReleaseFacts ==
  ASSUME NEW h \in Hives, NEW k \in Cells, h.cell[k].kind = "key"
  PROVE  Released(h, CmpFreeKeyBody(CmpFreeSecurityDescriptor(h, k), k), k)
<1> DEFINE s == h.cell[k].Security
           f == [h EXCEPT !.cell[k].Security = HCELL_NIL]
           g == CmpFreeSecurityDescriptor(h, k)
           e == HvFreeCell(g, k)
<1>1. /\ f \in Hives /\ f.dirty = h.dirty
      /\ f.cell[k].kind = "key" /\ f.cell[k].Security = HCELL_NIL
      /\ \A d \in Cells \ {k} : f.cell[d] = h.cell[d]
  BY ForgetFacts
<1>2. ~Is(g, g.cell[k].Security, "security") => CmpFreeKeyBody(g, k) = e
  BY DEF CmpFreeKeyBody
<1>3. CASE ~Is(h, s, "security")
  <2>1. g = h
    BY <1>3 DEF CmpFreeSecurityDescriptor
  <2>2. CmpFreeKeyBody(g, k) = e
    BY <1>2, <1>3, <2>1
  <2> HIDE DEF g
  <2>3. /\ e \in Hives /\ e.dirty = h.dirty \cup Blocks({k})
        /\ \A d \in Cells : e.cell[d] = IF d = k THEN FreeCell ELSE h.cell[d]
    <3> DEFINE i == HvFreeCell(h, k)
    <3>1. /\ i \in Hives /\ i.dirty = h.dirty \cup Blocks({k})
          /\ \A d \in Cells : i.cell[d] = IF d = k THEN FreeCell ELSE h.cell[d]
      BY FreeFacts
    <3>2. e = i
      BY <2>1
    <3> HIDE DEF e, i
    <3> QED  BY <3>1, <3>2
  <2> HIDE DEF e
  <2>4. Released(h, e, k)
    BY <1>3, <2>3 DEF Released
  <2> QED  BY <2>2, <2>4 DEF g
<1>4. CASE Is(h, s, "security") /\ h.cell[s].ReferenceCount > 1
  <2> DEFINE x == [h.cell[s] EXCEPT !.ReferenceCount = @ - 1]
  <2>1. s \in Cells /\ s # k /\ h.cell[s] \in Descriptors /\ f.cell[s] = h.cell[s]
    BY <1>1, <1>4, ContentFacts DEF Is, Hives
  <2>2. x \in Contents /\ x.kind = "security"
    BY <2>1 DEF Descriptors, Contents
  <2>3. g = [f EXCEPT !.cell[s].ReferenceCount = @ - 1]
    BY <1>4 DEF CmpFreeSecurityDescriptor
  <2> HIDE DEF f, g
  <2>4. g = [f EXCEPT !.cell[s] = [f.cell[s] EXCEPT !.ReferenceCount = @ - 1]]
    BY <2>3
  <2>5. g = [f EXCEPT !.cell[s] = x]
    BY <2>1, <2>4
  <2>51. x = [h.cell[s] EXCEPT !.ReferenceCount = @ - 1]
    OBVIOUS
  <2> HIDE DEF x, s
  <2>6. g \in Hives /\ g.dirty = f.dirty /\ g.cell = [f.cell EXCEPT ![s] = x]
    BY <1>1, <2>1, <2>2, <2>5 DEF Hives
  <2>7. \A d \in Cells : g.cell[d] = IF d = s THEN x ELSE f.cell[d]
    BY <1>1, <2>6 DEF Hives
  <2>8. ~Is(g, g.cell[k].Security, "security")
    BY <1>1, <2>1, <2>7, CellsFacts DEF Is
  <2>9. CmpFreeKeyBody(g, k) = e
    BY <1>2, <2>8
  <2>10. /\ e \in Hives /\ e.dirty = g.dirty \cup Blocks({k})
         /\ \A d \in Cells : e.cell[d] = IF d = k THEN FreeCell ELSE g.cell[d]
    BY <2>6, FreeFacts
  <2> HIDE DEF e
  <2>11. \A d \in Cells \ {k} :
           e.cell[d] = IF d = s THEN [h.cell[d] EXCEPT !.ReferenceCount = @ - 1] ELSE h.cell[d]
    BY <1>1, <2>51, <2>7, <2>10
  <2>12. e.cell[k] = FreeCell /\ h.dirty \cup Blocks({k}) \subseteq e.dirty
    BY <1>1, <2>6, <2>10
  <2>13. Released(h, e, k)
    BY <1>4, <2>10, <2>11, <2>12 DEF Released, s
  <2> QED  BY <2>9, <2>13 DEF g
<1>5. CASE Is(h, s, "security") /\ ~(h.cell[s].ReferenceCount > 1)
  <2> DEFINE r == CmpRemoveSecurityCellList(f, s)
             q == HvFreeCell(r, s)
  <2>1. s \in Cells /\ s # k /\ f.cell[s] = h.cell[s] /\ f.cell[s].kind = "security"
    BY <1>1, <1>5 DEF Is
  <2>2. g = q
    BY <1>5 DEF CmpFreeSecurityDescriptor
  <2> HIDE DEF f, g, s
  <2>3. /\ r \in Hives /\ r.dirty = f.dirty
        /\ \A d \in Cells : r.cell[d] = RingWithout(f, d, s)
    BY <1>1, <2>1, RingFacts
  <2> HIDE DEF r
  <2>4. /\ q \in Hives /\ q.dirty = r.dirty \cup Blocks({s})
        /\ \A d \in Cells : q.cell[d] = IF d = s THEN FreeCell ELSE r.cell[d]
    BY <2>1, <2>3, FreeFacts
  <2> HIDE DEF q
  <2>5. \A d \in Cells \ {k} : RingWithout(f, d, s) = RingWithout(h, d, s)
    BY <1>1, <2>1 DEF RingWithout
  <2>6. q.cell[k] = f.cell[k]
    <3>1. q.cell[k] = RingWithout(f, k, s)
      BY <2>1, <2>3, <2>4
    <3> QED  BY <3>1, <1>1 DEF RingWithout
  <2>7. ~Is(g, g.cell[k].Security, "security")
    BY <1>1, <2>2, <2>6, CellsFacts DEF Is
  <2>8. CmpFreeKeyBody(g, k) = e
    BY <1>2, <2>7
  <2>9. /\ e \in Hives /\ e.dirty = g.dirty \cup Blocks({k})
        /\ \A d \in Cells : e.cell[d] = IF d = k THEN FreeCell ELSE g.cell[d]
    <3>1. g \in Hives
      BY <2>2, <2>4
    <3> QED  BY <3>1, FreeFacts
  <2> HIDE DEF e
  <2>10. \A d \in Cells \ {k} :
           e.cell[d] = IF d = s THEN FreeCell ELSE RingWithout(h, d, s)
    BY <2>2, <2>3, <2>4, <2>5, <2>9
  <2>11. e.cell[k] = FreeCell /\ h.dirty \cup Blocks({k}) \subseteq e.dirty
    BY <1>1, <2>2, <2>3, <2>4, <2>9
  <2>12. Released(h, e, k)
    BY <1>5, <2>9, <2>10, <2>11 DEF Released, s
  <2> QED  BY <2>8, <2>12 DEF g
<1> QED  BY <1>3, <1>4, <1>5

-----------------------------------------------------------------------------
(* Deleting: keys *)

LEMMA RingWithoutFacts ==
  ASSUME NEW h \in Hives, NEW s \in Cells, h.cell[s].kind = "security", NEW d \in Cells
  PROVE  /\ RingWithout(h, d, s).kind = h.cell[d].kind
         /\ h.cell[d].kind # "security" => RingWithout(h, d, s) = h.cell[d]
         /\ h.cell[d].kind = "security" =>
              /\ RingWithout(h, d, s).ReferenceCount = h.cell[d].ReferenceCount
              /\ RingWithout(h, d, s).Blink =
                   IF d = h.cell[s].Flink THEN h.cell[s].Blink ELSE h.cell[d].Blink
              /\ RingWithout(h, d, s).Flink =
                   IF d = h.cell[s].Blink THEN h.cell[s].Flink ELSE h.cell[d].Flink
<1>1. CASE h.cell[d].kind # "security"
  BY <1>1 DEF RingWithout
<1>2. CASE h.cell[d].kind = "security"
  <2> DEFINE x == h.cell[d]
             v == h.cell[s].Blink
             w == h.cell[s].Flink
             a == IF d = w THEN v ELSE x.Blink
             b == IF d = v THEN w ELSE x.Flink
             y == Relinked(x, a, b)
  <2>1. x \in Descriptors /\ h.cell[s] \in Descriptors
    BY <1>2, ContentFacts DEF Hives
  <2>2. a \in Cells \cup {HCELL_NIL} /\ b \in Cells \cup {HCELL_NIL}
    BY <2>1 DEF Descriptors
  <2>3. RingWithout(h, d, s) = y
    <3>1. RingWithout(h, d, s) = [x EXCEPT !.Blink = IF d = w THEN v ELSE @,
                                           !.Flink = IF d = v THEN w ELSE @]
      BY <1>2 DEF RingWithout
    <3>2. [x EXCEPT !.Blink = IF d = w THEN v ELSE @, !.Flink = IF d = v THEN w ELSE @] =
            [x EXCEPT !.Blink = a, !.Flink = b]
      BY <2>1 DEF Descriptors
    <3> QED  BY <3>1, <3>2 DEF Relinked
  <2> HIDE DEF x, a, b
  <2>4. /\ y.kind = "security" /\ y.ReferenceCount = x.ReferenceCount
        /\ y.Blink = a /\ y.Flink = b
    <3>1. y.ReferenceCount = x.ReferenceCount
      BY <2>1 DEF Relinked, Descriptors
    <3>2. y.kind = "security"
      BY <2>1 DEF Relinked, Descriptors
    <3>3. y.Blink = a
      BY <2>1 DEF Relinked, Descriptors
    <3>4. y.Flink = b
      BY <2>1 DEF Relinked, Descriptors
    <3> QED  BY <3>1, <3>2, <3>3, <3>4
  <2> HIDE DEF y
  <2> QED  BY <1>2, <2>3, <2>4 DEF x, a, b
<1> QED  BY <1>1, <1>2

\* No key but k changes, and no other cell becomes one.
LEMMA ReleasedKeys ==
  ASSUME NEW h \in Hives, NEW g, NEW k \in Cells, Released(h, g, k), NEW d \in Cells \ {k}
  PROVE  /\ h.cell[d].kind # "security" => g.cell[d] = h.cell[d]
         /\ h.cell[d].kind = "security" => g.cell[d].kind # "key"
<1> DEFINE s == h.cell[k].Security
<1>1. CASE g.cell[d] = h.cell[d]
  BY <1>1
<1>2. CASE Is(h, s, "security") /\ d = s /\ g.cell[d] = [h.cell[d] EXCEPT !.ReferenceCount = @ - 1]
  <2>1. h.cell[d] \in Descriptors /\ h.cell[d].kind = "security"
    BY <1>2, ContentFacts DEF Is, Hives
  <2> QED  BY <1>2, <2>1 DEF Descriptors
<1>3. CASE Is(h, s, "security") /\ d = s /\ g.cell[d] = FreeCell
  BY <1>3 DEF Is, FreeCell
<1>4. CASE Is(h, s, "security") /\ g.cell[d] = RingWithout(h, d, s)
  BY <1>4, RingWithoutFacts DEF Is
<1> QED  BY <1>1, <1>2, <1>3, <1>4 DEF Released

\* What deleting a key takes apart: the parent forgets the key, and the key is released.
LEMMA DeletedFacts ==
  ASSUME NEW h \in Hives, NEW k \in Cells, h.cell[k].kind = "key"
  PROVE  LET p == h.cell[k].Parent IN
         \E i \in Hives :
           /\ h.dirty \cup Blocks({k, p}) \subseteq i.dirty
           /\ \A d \in Cells : i.cell[d] = IF d = p /\ h.cell[d].kind = "key"
                                           THEN Without(h.cell[d], k) ELSE h.cell[d]
           /\ Released(i, CmpFreeKeyByCell(h, k), k)
<1> DEFINE p == h.cell[k].Parent
           s == h.cell[k].Security
           cs == {k, p} \cup (IF Is(h, s, "security") THEN {s, h.cell[s].Flink, h.cell[s].Blink} ELSE {})
           h1 == HvMarkCellsDirty(h, cs)
           i == CmpRemoveSubKey(h1, k)
<1>1. CmpMarkKeyDirty(h, k) = h1
  BY DEF CmpMarkKeyDirty
<1>2. CmpFreeKeyByCell(h, k) = CmpFreeKeyBody(CmpFreeSecurityDescriptor(i, k), k)
  BY <1>1 DEF CmpFreeKeyByCell
<1>3. Blocks({k, p}) \subseteq Blocks(cs)
  BY DEF Blocks
<1> HIDE DEF cs
<1>4. h1 \in Hives /\ h1.cell = h.cell /\ h1.dirty = h.dirty \cup Blocks(cs)
  BY MarkFacts
<1> HIDE DEF h1
<1>5. h1.cell[k].kind = "key" /\ h1.cell[k].Parent = p
  BY <1>4
<1>6. /\ i \in Hives /\ i.dirty = h1.dirty
      /\ \A d \in Cells : i.cell[d] = IF d = p /\ h.cell[d].kind = "key"
                                      THEN Without(h.cell[d], k) ELSE h.cell[d]
  BY <1>4, <1>5, RemoveFacts
<1> HIDE DEF i
<1>7. i.cell[k].kind = "key"
  <2>1. h.cell[k] \in Nodes
    BY ContentFacts DEF Hives
  <2> QED  BY <1>6, <2>1, WithoutFacts
<1>8. Released(i, CmpFreeKeyByCell(h, k), k)
  BY <1>2, <1>6, <1>7, ReleaseFacts
<1> QED  BY <1>3, <1>4, <1>6, <1>8

LEMMA DeletedKept ==
  ASSUME NEW h \in Hives, NEW k \in Cells, h.cell[k].kind = "key", k # RootCell,
         SubKeysOf(h, k) = {}
  PROVE  Kept(h, CmpFreeKeyByCell(h, k))
<1> DEFINE p == h.cell[k].Parent
           g == CmpFreeKeyByCell(h, k)
<1>1. PICK i \in Hives :
        /\ h.dirty \cup Blocks({k, p}) \subseteq i.dirty
        /\ \A d \in Cells : i.cell[d] = IF d = p /\ h.cell[d].kind = "key"
                                        THEN Without(h.cell[d], k) ELSE h.cell[d]
        /\ Released(i, g, k)
  BY DeletedFacts
<1> HIDE DEF g
<1>2. g \in Hives /\ i.dirty \cup Blocks({k}) \subseteq g.dirty /\ g.cell[k] = FreeCell
  BY <1>1 DEF Released
<1>3. \A d \in Cells : h.cell[d].kind = "key" => h.cell[d] \in Nodes
  BY ContentFacts DEF Hives
<1>4. \A d \in Cells : i.cell[d].kind = h.cell[d].kind
  BY <1>1, <1>3, WithoutFacts
<1>5. ASSUME NEW d \in Cells \ {k}
      PROVE  /\ g.cell[d].kind = "key" <=> h.cell[d].kind = "key"
             /\ h.cell[d].kind = "key" =>
                  /\ g.cell[d].Parent = h.cell[d].Parent
                  /\ SubKeysOf(h, d) \ {k} \subseteq SubKeysOf(g, d)
             /\ d # p => Place(g.cell[d]) = Place(h.cell[d])
  <2>1. /\ i.cell[d].kind # "security" => g.cell[d] = i.cell[d]
        /\ i.cell[d].kind = "security" => g.cell[d].kind # "key"
    BY <1>1, ReleasedKeys
  <2>2. CASE h.cell[d].kind = "key"
    <3>1. g.cell[d] = i.cell[d] /\ g.cell[d].kind = "key"
      BY <1>4, <2>1, <2>2
    <3>2. CASE d = p
      <4>1. g.cell[d] = Without(h.cell[d], k)
        BY <1>1, <2>2, <3>1, <3>2
      <4>2. g.cell[d].Parent = h.cell[d].Parent /\ SubKeysOf(g, d) = SubKeysOf(h, d) \ {k}
        BY <1>3, <2>2, <4>1, WithoutFacts DEF SubKeysOf
      <4> QED  BY <2>2, <3>1, <3>2, <4>2
    <3>3. CASE d # p
      <4>1. g.cell[d] = h.cell[d]
        BY <1>1, <3>1, <3>3
      <4> QED  BY <2>2, <4>1 DEF SubKeysOf
    <3> QED  BY <3>2, <3>3
  <2>3. CASE h.cell[d].kind # "key"
    <3>1. g.cell[d].kind # "key"
      BY <1>4, <2>1, <2>3
    <3> QED  BY <2>3, <3>1 DEF Place
  <2> QED  BY <2>2, <2>3
<1>6. Marks(h, g)
  <2>1. ASSUME NEW c \in StableCells, Place(g.cell[c]) # Place(h.cell[c]) PROVE BlockOf[c] \in g.dirty
    <3>1. c \in {k, p}
      BY <1>5, <2>1, CellsFacts
    <3>2. BlockOf[c] \in Blocks({k, p})
      BY <3>1 DEF Blocks
    <3> QED  BY <1>1, <1>2, <3>2
  <2> QED  BY <1>1, <1>2, <2>1 DEF Marks
<1>7. AllParented(h) => AllParented(g)
  <2> SUFFICES ASSUME AllParented(h), NEW d \in Cells, g.cell[d].kind = "key" PROVE Parented(g, d)
    BY DEF AllParented, Parented
  <2>1. d # k
    BY <1>2 DEF FreeCell
  <2>2. /\ h.cell[d].kind = "key" /\ Parented(h, d)
        /\ g.cell[d].Parent = h.cell[d].Parent
    BY <1>5, <2>1 DEF AllParented
  <2>3. ASSUME Is(h, h.cell[d].Parent, "key"), d \in SubKeysOf(h, h.cell[d].Parent)
        PROVE  Is(g, h.cell[d].Parent, "key") /\ d \in SubKeysOf(g, h.cell[d].Parent)
    <3>1. h.cell[d].Parent \in Cells \ {k}
      BY <2>3 DEF Is
    <3> QED  BY <1>5, <2>1, <2>3, <3>1 DEF Is
  <2> QED  BY <2>2, <2>3 DEF Parented
<1>8. RootIsKey(h) => RootIsKey(g)
  BY <1>5, CellsFacts DEF RootIsKey
<1> QED  BY <1>2, <1>6, <1>7, <1>8 DEF Kept, g

-----------------------------------------------------------------------------
(* Deleting: descriptors *)

LEMMA ReleasedUsers ==
  ASSUME NEW h \in Hives, NEW g, NEW k \in Cells, Released(h, g, k), NEW t
  PROVE  Users(g, t) = Users(h, t) \ {k}
<1>1. \A d \in Cells \ {k} :
        /\ h.cell[d].kind # "security" => g.cell[d] = h.cell[d]
        /\ h.cell[d].kind = "security" => g.cell[d].kind # "key"
  BY ReleasedKeys
<1>2. g.cell[k].kind # "key"
  BY DEF Released, FreeCell
<1> QED  BY <1>1, <1>2 DEF Users, KeyCellsOf

\* The last user of a descriptor takes it along, and the ring closes.
LEMMA DescriptorGone ==
  ASSUME NEW h \in Hives, NEW g \in Hives, NEW k \in Cells, h.cell[k].kind = "key", AllSound(h),
         NEW s \in Cells, s = h.cell[k].Security,
         h.cell[s].kind = "security", ~(h.cell[s].ReferenceCount > 1),
         Released(h, g, k),
         \A d \in Cells \ {k} : g.cell[d] = IF d = s THEN FreeCell ELSE RingWithout(h, d, s)
  PROVE  AllSound(g)
<1> DEFINE F == h.cell[s].Flink
           B == h.cell[s].Blink
<1>1. s # k /\ DescriptorSound(h, s)
  BY DEF AllSound, IsDescriptor
<1>2. Users(h, s) = {k}
  <2>1. k \in Users(h, s)
    BY DEF Users, KeyCellsOf
  <2>2. IsFiniteSet(Users(h, s)) /\ Cardinality(Users(h, s)) \in Nat
    BY UsersFacts
  <2>3. h.cell[s].ReferenceCount \in Int
    <3>1. h.cell[s] \in Descriptors
      BY ContentFacts DEF Hives
    <3> QED  BY <3>1 DEF Descriptors
  <2>4. Cardinality(Users(h, s)) <= 1
    BY <1>1, <2>2, <2>3 DEF DescriptorSound
  <2>5. IsFiniteSet(Users(h, s) \ {k}) /\ Cardinality(Users(h, s) \ {k}) = Cardinality(Users(h, s)) - 1
    BY <2>1, <2>2, FS_RemoveElement
  <2>6. Cardinality(Users(h, s) \ {k}) = 0
    <3>1. Cardinality(Users(h, s) \ {k}) \in Nat
      BY <2>5, FS_CardinalityType
    <3> QED  BY <2>2, <2>4, <2>5, <3>1
  <2>7. Users(h, s) \ {k} = {}
    BY <2>5, <2>6, FS_EmptySet
  <2> QED  BY <2>1, <2>7
<1>3. \A t : Users(g, t) = Users(h, t) \ {k}
  BY ReleasedUsers
<1>4. g.cell[s] = FreeCell /\ g.cell[k] = FreeCell
  BY <1>1 DEF Released
<1>5. \A d \in Cells \ {k, s} : g.cell[d] = RingWithout(h, d, s)
  OBVIOUS
<1>6. ASSUME NEW d \in Cells \ {k, s}
      PROVE  /\ g.cell[d].kind = h.cell[d].kind
             /\ h.cell[d].kind # "security" => g.cell[d] = h.cell[d]
             /\ h.cell[d].kind = "security" =>
                  /\ g.cell[d].ReferenceCount = h.cell[d].ReferenceCount
                  /\ g.cell[d].Blink = IF d = F THEN B ELSE h.cell[d].Blink
                  /\ g.cell[d].Flink = IF d = B THEN F ELSE h.cell[d].Flink
  BY <1>5, RingWithoutFacts
<1>7. F \in Cells /\ h.cell[F].kind = "security" /\ h.cell[F].Blink = s
      /\ B \in Cells /\ h.cell[B].kind = "security" /\ h.cell[B].Flink = s
  BY <1>1 DEF DescriptorSound, Is
<1> HIDE DEF F, B
<1>8. ASSUME NEW d \in Cells, IsDescriptor(g, d) PROVE DescriptorSound(g, d)
  <2>1. d # k /\ d # s
    BY <1>4, <1>8 DEF IsDescriptor, FreeCell
  <2>2. /\ h.cell[d].kind = "security"
        /\ g.cell[d].ReferenceCount = h.cell[d].ReferenceCount
        /\ g.cell[d].Blink = IF d = F THEN B ELSE h.cell[d].Blink
        /\ g.cell[d].Flink = IF d = B THEN F ELSE h.cell[d].Flink
    BY <1>6, <1>8, <2>1 DEF IsDescriptor
  <2>3. DescriptorSound(h, d)
    BY <2>2 DEF AllSound, IsDescriptor
  <2>4. /\ h.cell[d].Flink \in Cells /\ h.cell[h.cell[d].Flink].kind = "security"
        /\ h.cell[h.cell[d].Flink].Blink = d
        /\ h.cell[d].Blink \in Cells /\ h.cell[h.cell[d].Blink].kind = "security"
        /\ h.cell[h.cell[d].Blink].Flink = d
    BY <2>3 DEF DescriptorSound, Is
  <2>5. /\ g.cell[d].Flink \in Cells /\ g.cell[g.cell[d].Flink].kind = "security"
        /\ g.cell[g.cell[d].Flink].Blink = d
    <3>1. CASE d = B
      <4>1. g.cell[d].Flink = F
        BY <2>2, <3>1
      <4>2. F # s /\ F # k
        BY <1>7, <2>1, <3>1 DEF B
      <4>3. g.cell[F].kind = "security" /\ g.cell[F].Blink = B
        BY <1>6, <1>7, <4>2
      <4> QED  BY <1>7, <3>1, <4>1, <4>3
    <3>2. CASE d # B
      <4> DEFINE e == h.cell[d].Flink
      <4>1. g.cell[d].Flink = e
        BY <2>2, <3>2
      <4>2. e # s /\ e # k
        BY <2>4, <3>2 DEF B
      <4>3. e # F
        BY <1>7, <2>1, <2>4
      <4>4. g.cell[e].kind = "security" /\ g.cell[e].Blink = h.cell[e].Blink
        BY <1>6, <2>4, <4>2, <4>3
      <4> QED  BY <2>4, <4>1, <4>4
    <3> QED  BY <3>1, <3>2
  <2>6. /\ g.cell[d].Blink \in Cells /\ g.cell[g.cell[d].Blink].kind = "security"
        /\ g.cell[g.cell[d].Blink].Flink = d
    <3>1. CASE d = F
      <4>1. g.cell[d].Blink = B
        BY <2>2, <3>1
      <4>2. B # s /\ B # k
        BY <1>7, <2>1, <3>1 DEF F
      <4>3. g.cell[B].kind = "security" /\ g.cell[B].Flink = F
        BY <1>6, <1>7, <4>2
      <4> QED  BY <1>7, <3>1, <4>1, <4>3
    <3>2. CASE d # F
      <4> DEFINE e == h.cell[d].Blink
      <4>1. g.cell[d].Blink = e
        BY <2>2, <3>2
      <4>2. e # s /\ e # k
        BY <2>4, <3>2 DEF F
      <4>3. e # B
        BY <1>7, <2>1, <2>4
      <4>4. g.cell[e].kind = "security" /\ g.cell[e].Flink = h.cell[e].Flink
        BY <1>6, <2>4, <4>2, <4>3
      <4> QED  BY <2>4, <4>1, <4>4
    <3> QED  BY <3>1, <3>2
  <2>7. g.cell[d].ReferenceCount >= Cardinality(Users(g, d))
    <3>1. k \notin Users(h, d)
      BY <2>1 DEF Users
    <3>2. Users(g, d) = Users(h, d)
      BY <1>3, <3>1
    <3> QED  BY <2>2, <2>3, <3>2 DEF DescriptorSound
  <2>8. d \in StableCells
    BY <2>3 DEF DescriptorSound
  <2> QED  BY <2>5, <2>6, <2>7, <2>8 DEF DescriptorSound, Is
<1>9. ASSUME NEW c \in Cells, g.cell[c].kind = "key" PROVE Is(g, g.cell[c].Security, "security")
  <2>1. c # k /\ c # s
    BY <1>4, <1>9 DEF FreeCell
  <2>2. g.cell[c] = h.cell[c]
    BY <1>6, <1>9, <2>1
  <2> DEFINE t == h.cell[c].Security
  <2>3. Is(h, t, "security")
    BY <1>9, <2>2 DEF AllSound, KeyCellsOf
  <2>4. t # s
    <3>1. c \in Users(h, t)
      BY <1>9, <2>2 DEF Users, KeyCellsOf
    <3> QED  BY <1>2, <2>1, <3>1
  <2>5. t # k
    BY <2>3 DEF Is
  <2>6. g.cell[t].kind = "security"
    BY <1>6, <2>3, <2>4, <2>5 DEF Is
  <2> QED  BY <2>2, <2>3, <2>6 DEF Is
<1> QED  BY <1>8, <1>9 DEF AllSound, KeyCellsOf


LEMMA ReleasedSound ==
  ASSUME NEW h \in Hives, NEW g, NEW k \in Cells, h.cell[k].kind = "key", AllSound(h),
         Released(h, g, k)
  PROVE  AllSound(g)
<1> DEFINE s == h.cell[k].Security
<1>1. s \in Cells /\ h.cell[s].kind = "security" /\ Is(h, s, "security")
  BY DEF AllSound, KeyCellsOf, Is
<1>2. g \in Hives /\ g.cell[k] = FreeCell
  BY DEF Released
<1>3. CASE /\ ~(h.cell[s].ReferenceCount > 1)
           /\ \A d \in Cells \ {k} : g.cell[d] = IF d = s THEN FreeCell ELSE RingWithout(h, d, s)
  <2> HIDE DEF s
  <2>1. s = h.cell[k].Security
    BY DEF s
  <2> QED  BY <1>1, <1>2, <1>3, <2>1, DescriptorGone
<1>4. CASE /\ h.cell[s].ReferenceCount > 1
           /\ \A d \in Cells \ {k} :
                g.cell[d] = IF d = s THEN [h.cell[d] EXCEPT !.ReferenceCount = @ - 1] ELSE h.cell[d]
  <2>1. h.cell[s] \in Descriptors /\ s # k
    BY <1>1, ContentFacts DEF Hives
  <2>2. /\ g.cell[s].kind = "security" /\ g.cell[s].Flink = h.cell[s].Flink
        /\ g.cell[s].Blink = h.cell[s].Blink
        /\ h.cell[s].ReferenceCount \in Int
        /\ g.cell[s].ReferenceCount = h.cell[s].ReferenceCount - 1
    <3>1. g.cell[s] = [h.cell[s] EXCEPT !.ReferenceCount = @ - 1]
      BY <1>1, <1>4, <2>1
    <3> QED  BY <2>1, <3>1 DEF Descriptors
  <2>3. \A d \in Cells \ {k, s} : g.cell[d] = h.cell[d]
    BY <1>4
  <2>4. \A t : Users(g, t) = Users(h, t) \ {k}
    BY ReleasedUsers
  <2>5. ASSUME NEW t \in Cells, IsDescriptor(h, t)
        PROVE  /\ g.cell[t].Flink = h.cell[t].Flink /\ g.cell[t].Blink = h.cell[t].Blink
               /\ g.cell[t].ReferenceCount >= Cardinality(Users(g, t))
    <3>1. t # k /\ h.cell[t].ReferenceCount >= Cardinality(Users(h, t))
      BY <2>5 DEF AllSound, DescriptorSound, IsDescriptor
    <3>2. IsFiniteSet(Users(h, t)) /\ Cardinality(Users(h, t)) \in Nat
      BY UsersFacts
    <3>3. CASE t = s
      <4>1. k \in Users(h, t)
        BY <3>3 DEF Users, KeyCellsOf
      <4>2. Cardinality(Users(h, t) \ {k}) = Cardinality(Users(h, t)) - 1
        BY <3>2, <4>1, FS_RemoveElement
      <4>3. Cardinality(Users(g, t)) = Cardinality(Users(h, t)) - 1
        BY <2>4, <4>2
      <4> QED  BY <2>2, <3>1, <3>2, <3>3, <4>3
    <3>4. CASE t # s
      <4>1. g.cell[t] = h.cell[t]
        BY <2>3, <3>1, <3>4
      <4>2. k \notin Users(h, t)
        BY <3>4 DEF Users
      <4>3. Users(g, t) = Users(h, t)
        BY <2>4, <4>2
      <4> QED  BY <3>1, <4>1, <4>3
    <3> QED  BY <3>3, <3>4
  <2>6. \A t \in Cells : IsDescriptor(g, t) <=> IsDescriptor(h, t)
    BY <1>1, <1>2, <2>2, <2>3 DEF IsDescriptor, FreeCell
  <2>7. \A c \in Cells : g.cell[c].kind = "key" => Is(g, g.cell[c].Security, "security")
    <3> SUFFICES ASSUME NEW c \in Cells, g.cell[c].kind = "key"
                 PROVE  Is(g, g.cell[c].Security, "security")
      OBVIOUS
    <3>1. c # k /\ c # s
      BY <1>2, <2>2 DEF FreeCell
    <3>2. g.cell[c] = h.cell[c]
      BY <2>3, <3>1
    <3>3. Is(h, h.cell[c].Security, "security")
      BY <3>2 DEF AllSound, KeyCellsOf
    <3> QED  BY <2>6, <3>2, <3>3 DEF Is, IsDescriptor
  <2> QED  BY <1>2, <2>5, <2>6, <2>7, RingStays
<1> QED  BY <1>1, <1>3, <1>4 DEF Released

LEMMA DeletedSound ==
  ASSUME NEW h \in Hives, NEW k \in Cells, h.cell[k].kind = "key", AllSound(h)
  PROVE  AllSound(CmpFreeKeyByCell(h, k))
<1> DEFINE p == h.cell[k].Parent
           g == CmpFreeKeyByCell(h, k)
<1>1. PICK i \in Hives :
        /\ \A d \in Cells : i.cell[d] = IF d = p /\ h.cell[d].kind = "key"
                                        THEN Without(h.cell[d], k) ELSE h.cell[d]
        /\ Released(i, g, k)
  BY DeletedFacts
<1> HIDE DEF g
<1>2. \A d \in Cells : h.cell[d].kind = "key" => h.cell[d] \in Nodes
  BY ContentFacts DEF Hives
<1>3. \A d \in Cells : /\ i.cell[d].kind = h.cell[d].kind
                       /\ h.cell[d].kind = "key" => i.cell[d].Security = h.cell[d].Security
                       /\ h.cell[d].kind # "key" => i.cell[d] = h.cell[d]
  BY <1>1, <1>2, WithoutFacts
<1>4. \A t : Users(i, t) = Users(h, t)
  BY <1>3 DEF Users, KeyCellsOf
<1>5. AllSound(i)
  <2>1. \A t \in Cells : IsDescriptor(i, t) <=> IsDescriptor(h, t)
    BY <1>3 DEF IsDescriptor
  <2>2. \A t \in Cells : IsDescriptor(h, t) =>
          /\ i.cell[t].Flink = h.cell[t].Flink /\ i.cell[t].Blink = h.cell[t].Blink
          /\ i.cell[t].ReferenceCount >= Cardinality(Users(i, t))
    <3> SUFFICES ASSUME NEW t \in Cells, IsDescriptor(h, t)
                 PROVE  /\ i.cell[t].Flink = h.cell[t].Flink /\ i.cell[t].Blink = h.cell[t].Blink
                        /\ i.cell[t].ReferenceCount >= Cardinality(Users(i, t))
      OBVIOUS
    <3>1. i.cell[t] = h.cell[t]
      BY <1>3 DEF IsDescriptor
    <3>2. h.cell[t].ReferenceCount >= Cardinality(Users(h, t))
      BY DEF AllSound, DescriptorSound
    <3> QED  BY <1>4, <3>1, <3>2
  <2>3. \A c \in Cells : i.cell[c].kind = "key" => Is(i, i.cell[c].Security, "security")
    BY <1>3 DEF AllSound, KeyCellsOf, Is
  <2> QED  BY <2>1, <2>2, <2>3, RingStays
<1>6. i.cell[k].kind = "key"
  BY <1>3
<1> QED  BY <1>1, <1>5, <1>6, ReleasedSound DEF g


-----------------------------------------------------------------------------
(* Deleting: what the keys list *)

LEMMA WithoutList ==
  ASSUME NEW x \in Nodes, NEW k
  PROVE  Without(x, k).SubKeys.Stable = x.SubKeys.Stable \ {k}
<1> DEFINE L == [Stable |-> x.SubKeys.Stable \ {k}, Volatile |-> x.SubKeys.Volatile \ {k}]
<1>1. L.Stable = x.SubKeys.Stable \ {k}
  OBVIOUS
<1>2. Without(x, k) = [x EXCEPT !.SubKeys = L]
  BY DEF Without
<1> HIDE DEF L
<1>3. [x EXCEPT !.SubKeys = L].SubKeys = L
  BY DEF Nodes
<1> QED  BY <1>1, <1>2, <1>3

LEMMA DeletedListed ==
  ASSUME NEW h \in Hives, NEW k \in Cells, h.cell[k].kind = "key", Listed(h)
  PROVE  Listed(CmpFreeKeyByCell(h, k))
<1> DEFINE p == h.cell[k].Parent
           g == CmpFreeKeyByCell(h, k)
<1>1. PICK i \in Hives :
        /\ \A d \in Cells : i.cell[d] = IF d = p /\ h.cell[d].kind = "key"
                                        THEN Without(h.cell[d], k) ELSE h.cell[d]
        /\ Released(i, g, k)
  BY DeletedFacts
<1> HIDE DEF g
<1>2. g.cell[k].kind # "key"
  BY <1>1 DEF Released, FreeCell
<1>3. \A d \in Cells : h.cell[d].kind = "key" => h.cell[d] \in Nodes
  BY ContentFacts DEF Hives
<1>4. ASSUME NEW d \in Cells \ {k}
      PROVE  /\ g.cell[d].kind = "key" <=> h.cell[d].kind = "key"
             /\ h.cell[d].kind = "key" =>
                  /\ g.cell[d].Parent = h.cell[d].Parent
                  /\ g.cell[d].SubKeys.Stable =
                       IF d = p THEN h.cell[d].SubKeys.Stable \ {k} ELSE h.cell[d].SubKeys.Stable
  <2>1. /\ i.cell[d].kind # "security" => g.cell[d] = i.cell[d]
        /\ i.cell[d].kind = "security" => g.cell[d].kind # "key"
    BY <1>1, ReleasedKeys
  <2>2. CASE h.cell[d].kind = "key"
    <3>1. /\ i.cell[d].kind = "key" /\ i.cell[d].Parent = h.cell[d].Parent
          /\ i.cell[d].SubKeys.Stable =
               IF d = p THEN h.cell[d].SubKeys.Stable \ {k} ELSE h.cell[d].SubKeys.Stable
      <4>1. CASE d = p
        <5>1. i.cell[d] = Without(h.cell[d], k) /\ h.cell[d] \in Nodes
          BY <1>1, <1>3, <2>2, <4>1
        <5>2. i.cell[d].kind = "key" /\ i.cell[d].Parent = h.cell[d].Parent
          BY <5>1, WithoutFacts
        <5>3. i.cell[d].SubKeys.Stable = h.cell[d].SubKeys.Stable \ {k}
          BY <5>1, WithoutList
        <5> QED  BY <4>1, <5>2, <5>3
      <4>2. CASE d # p
        BY <1>1, <2>2, <4>2
      <4> QED  BY <4>1, <4>2
    <3> QED  BY <2>1, <2>2, <3>1
  <2>3. CASE h.cell[d].kind # "key"
    BY <1>1, <2>1, <2>3
  <2> QED  BY <2>2, <2>3
<1>5. ASSUME NEW d \in StableCells, g.cell[d].kind = "key", NEW e \in g.cell[d].SubKeys.Stable
      PROVE  g.cell[e].kind = "key" /\ g.cell[e].Parent = d
  <2>1. d # k /\ d \in Cells
    BY <1>2, <1>5, CellsFacts
  <2>2. /\ h.cell[d].kind = "key" /\ e \in h.cell[d].SubKeys.Stable
        /\ d = p => e # k
    BY <1>4, <1>5, <2>1
  <2>3. h.cell[e].kind = "key" /\ h.cell[e].Parent = d
    BY <2>2 DEF Listed
  <2>4. e \in Cells \ {k}
    BY <1>3, <2>1, <2>2, <2>3, CellsFacts DEF Nodes
  <2> QED  BY <1>4, <2>3, <2>4
<1> QED  BY <1>5 DEF Listed, g
-----------------------------------------------------------------------------
(* New hives *)

LEMMA EmptyFacts ==
  /\ EmptyHive \in Hives /\ AllParented(EmptyHive) /\ Listed(EmptyHive) /\ AllSound(EmptyHive)
  /\ \A c \in Cells : EmptyHive.cell[c] = FreeCell
<1>1. EmptyHive \in Hives /\ \A c \in Cells : EmptyHive.cell[c] = FreeCell
  BY DEF EmptyHive, Hives, Contents
<1>2. \A c \in Cells : EmptyHive.cell[c].kind = "free"
  BY <1>1 DEF FreeCell
<1>3. AllParented(EmptyHive)
  BY <1>2 DEF AllParented, Parented
<1>4. AllSound(EmptyHive)
  BY <1>2 DEF AllSound, KeyCellsOf, IsDescriptor
<1>5. Listed(EmptyHive)
  BY <1>2, CellsFacts DEF Listed
<1> QED  BY <1>1, <1>3, <1>4, <1>5

\* What the cells of a new hive hold: its root and, in s, its descriptor.
NewHive(h, s) ==
  /\ h \in Hives /\ s \in StableCells \ {RootCell}
  /\ h.cell[RootCell] = [CM_KEY_NODE("", HCELL_NIL, HCELL_NIL) EXCEPT !.Security = s]
  /\ h.cell[s] = CM_KEY_SECURITY(1, s, s)
  /\ \A d \in Cells \ {RootCell, s} : h.cell[d] = FreeCell

LEMMA ConnectedIsNew == \E s : NewHive(Connected, s)
<1> DEFINE x == CM_KEY_NODE("", HCELL_NIL, HCELL_NIL)
           h == Put(EmptyHive, RootCell, x)
           s == HvAllocateCell(h, "Stable")
           y == [h.cell[RootCell] EXCEPT !.Security = s]
           f == [h EXCEPT !.cell[RootCell] = y]
           z == CM_KEY_SECURITY(1, s, s)
           g == Put(f, s, z)
<1>1. Connected = g
  BY DEF Connected, CmiCreateSecurityKey, CmiInitializeHive, CmCreateRootNode, SecurityKeyAt
<1>2. x \in Nodes
  BY NodeFacts
<1>3. h \in Hives /\ h.cell = [EmptyHive.cell EXCEPT ![RootCell] = x]
  <2>1. x \in Contents
    BY <1>2 DEF Contents
  <2> HIDE DEF x
  <2> QED  BY <2>1, EmptyFacts, CellsFacts, PutFacts
<1> HIDE DEF h, x
<1>4. \A d \in Cells : h.cell[d] = IF d = RootCell THEN x ELSE FreeCell
  BY <1>3, EmptyFacts DEF Hives
<1>5. s \in StableCells /\ h.cell[s] = FreeCell
  <2>1. PICK c \in StableCells : c # RootCell
    BY RoomAssumption, CellsFacts
  <2>2. c \in FreeIn(h, "Stable")
    BY <2>1, <1>4, StorageFacts, CellsFacts DEF FreeIn
  <2>3. "Stable" \in DOMAIN Storage /\ FreeIn(h, "Stable") # {}
    BY <2>2, StorageFacts
  <2>4. s \in Storage["Stable"] /\ h.cell[s] = FreeCell
    BY <2>3, AllocateFacts
  <2> QED  BY <2>4, StorageFacts
<1>6. s # RootCell
  <2>1. x.kind # FreeCell.kind
    BY DEF x, CM_KEY_NODE, FreeCell
  <2> QED  BY <2>1, <1>4, <1>5, CellsFacts
<1> HIDE DEF s
<1>7. y = [x EXCEPT !.Security = s]
  BY <1>4, CellsFacts
<1>8. y \in Contents
  <2>1. s \in Cells
    BY <1>5, CellsFacts
  <2>2. y \in Nodes
    BY <1>2, <1>7, <2>1 DEF Nodes
  <2> QED  BY <2>2 DEF Contents
<1> HIDE DEF y
<1>9. f \in Hives /\ f.cell = [h.cell EXCEPT ![RootCell] = y]
  BY <1>3, <1>8, CellsFacts DEF Hives
<1> HIDE DEF f
<1>10. z \in Contents
  BY <1>5, CellsFacts DEF z, CM_KEY_SECURITY, Contents, Descriptors
<1> HIDE DEF z
<1>11. g \in Hives /\ g.cell = [f.cell EXCEPT ![s] = z]
  <2>1. s \in Cells /\ f \in Hives /\ z \in Contents
    BY <1>5, <1>9, <1>10, CellsFacts
  <2>2. Put(f, s, z) \in Hives /\ Put(f, s, z).cell = [f.cell EXCEPT ![s] = z]
    BY <2>1, PutFacts
  <2> QED  BY <2>2
<1> HIDE DEF g
<1>12. \A d \in Cells : g.cell[d] = IF d = s THEN z ELSE IF d = RootCell THEN y ELSE FreeCell
  BY <1>3, <1>4, <1>9, <1>11 DEF Hives
<1>13. g.cell[RootCell] = y /\ g.cell[s] = z
  BY <1>5, <1>6, <1>12, CellsFacts
<1>14. NewHive(g, s)
  BY <1>5, <1>6, <1>7, <1>11, <1>12, <1>13 DEF NewHive, z, x
<1> QED  BY <1>1, <1>14

LEMMA ConnectedFacts ==
  /\ Connected \in Hives /\ AllParented(Connected) /\ RootIsKey(Connected)
  /\ Listed(Connected) /\ AllSound(Connected)
<1>1. PICK s : NewHive(Connected, s)
  BY ConnectedIsNew
<1> DEFINE h == Connected
<1>2. /\ h.cell[RootCell].kind = "key" /\ h.cell[RootCell].Security = s
      /\ h.cell[s].kind = "security" /\ h.cell[s].ReferenceCount = 1
      /\ h.cell[s].Flink = s /\ h.cell[s].Blink = s
      /\ \A d \in Cells \ {RootCell, s} : h.cell[d].kind = "free"
      /\ h \in Hives /\ s \in StableCells /\ s \in Cells
  <2> HIDE DEF h
  <2>1. NewHive(h, s)
    BY <1>1 DEF h
  <2>2. h.cell[RootCell].kind = "key" /\ h.cell[RootCell].Security = s
    BY <2>1 DEF NewHive, CM_KEY_NODE
  <2>3. /\ h.cell[s].kind = "security" /\ h.cell[s].ReferenceCount = 1
        /\ h.cell[s].Flink = s /\ h.cell[s].Blink = s
    <3>1. h.cell[s] = CM_KEY_SECURITY(1, s, s)
      BY <2>1 DEF NewHive
    <3> QED  BY <3>1 DEF CM_KEY_SECURITY
  <2>4. \A d \in Cells \ {RootCell, s} : h.cell[d].kind = "free"
    <3>1. \A d \in Cells \ {RootCell, s} : h.cell[d] = FreeCell
      BY <2>1 DEF NewHive
    <3>2. FreeCell.kind = "free"
      BY DEF FreeCell
    <3> QED  BY <3>1, <3>2
  <2>5. h \in Hives /\ s \in StableCells /\ s \in Cells
    BY <2>1, CellsFacts DEF NewHive
  <2> QED  BY <2>2, <2>3, <2>4, <2>5
<1> HIDE DEF h
<1>3. \A d \in Cells : h.cell[d].kind = "key" => d = RootCell
  BY <1>2
<1>4. \A d \in Cells : h.cell[d].kind = "security" => d = s
  BY <1>2
<1>5. AllParented(h)
  BY <1>3 DEF AllParented, Parented
<1>6. Cardinality(Users(h, s)) = 1
  <2>1. Users(h, s) = {RootCell}
    BY <1>2, <1>3, CellsFacts DEF Users, KeyCellsOf
  <2> QED  BY <2>1, FS_Singleton
<1>7. AllSound(h)
  <2>1. \A c \in KeyCellsOf(h) : Is(h, h.cell[c].Security, "security")
    BY <1>2, <1>3 DEF KeyCellsOf, Is
  <2>2. DescriptorSound(h, s)
    BY <1>2, <1>6 DEF DescriptorSound, Is
  <2> QED  BY <1>4, <2>1, <2>2 DEF AllSound, IsDescriptor
<1>8. Listed(h)
  <2>1. h.cell[RootCell].SubKeys.Stable = {}
    <3>1. h.cell[RootCell] = [CM_KEY_NODE("", HCELL_NIL, HCELL_NIL) EXCEPT !.Security = s]
      BY <1>1 DEF NewHive, h
    <3>2. h.cell[RootCell].SubKeys = [Stable |-> {}, Volatile |-> {}]
      BY <3>1 DEF CM_KEY_NODE
    <3> QED  BY <3>2
  <2> QED  BY <1>3, <2>1, CellsFacts DEF Listed
<1> QED  BY <1>2, <1>5, <1>7, <1>8 DEF RootIsKey, h

-----------------------------------------------------------------------------
(* Files, and hives that are read from them *)

LEMMA ImageFacts ==
  ASSUME NEW f \in [StableCells -> Contents]
  PROVE  LET h == HvInitialize(f) IN
         /\ h \in Hives /\ h.dirty = {}
         /\ \A c \in StableCells : h.cell[c] = f[c]
         /\ \A c \in Cells \ StableCells : h.cell[c] = FreeCell /\ h.cell[c].kind = "free"
<1>1. FreeCell \in Contents /\ FreeCell.kind = "free"
  BY DEF Contents, FreeCell
<1> QED  BY <1>1, CellsFacts DEF HvInitialize, Hives

\* A file that holds what the hive h holds.
ImageOf(h) == [c \in StableCells |-> h.cell[c]]

LEMMA ImageParented ==
  ASSUME NEW h \in Hives, AllParented(h), NEW f \in [StableCells -> Contents],
         \A c \in StableCells : Place(f[c]) = Place(h.cell[c])
  PROVE  FileOK(f)
<1> DEFINE g == HvInitialize(f)
<1>1. /\ \A c \in StableCells : g.cell[c] = f[c]
      /\ \A c \in Cells \ StableCells : g.cell[c].kind = "free"
  BY ImageFacts
<1> HIDE DEF g
<1>2. ASSUME NEW c \in StableCells
      PROVE  /\ g.cell[c].kind = "key" <=> h.cell[c].kind = "key"
             /\ g.cell[c].kind = "key" =>
                  g.cell[c].Parent = h.cell[c].Parent /\ SubKeysOf(g, c) = SubKeysOf(h, c)
  BY <1>1 DEF Place, SubKeysOf
<1>3. ASSUME NEW c \in Cells, g.cell[c].kind = "key"
      PROVE  Parented(g, c)
  <2> DEFINE p == h.cell[c].Parent
  <2>1. c \in StableCells
    BY <1>1, <1>3
  <2>2. h.cell[c].kind = "key" /\ g.cell[c].Parent = p
    BY <1>2, <1>3, <2>1
  <2>3. \/ c = RootCell
        \/ p \in VolatileCells
        \/ Is(h, p, "key") /\ c \in SubKeysOf(h, p)
    BY <2>2 DEF AllParented, Parented
  <2> HIDE DEF p
  <2>4. CASE Is(h, p, "key") /\ c \in SubKeysOf(h, p) /\ p \notin VolatileCells
    <3>1. p \in StableCells
      BY <2>4 DEF Is, Cells
    <3>2. Is(g, p, "key") /\ c \in SubKeysOf(g, p)
      BY <3>1, <2>4, <1>2 DEF Is
    <3> QED  BY <3>2, <2>2 DEF Parented
  <2> QED  BY <2>1, <2>2, <2>3, <2>4 DEF Parented
<1>4. AllParented(g)
  BY <1>3 DEF AllParented, Parented
<1> QED  BY <1>4 DEF FileOK, g

LEMMA ImageOfFacts ==
  ASSUME NEW h \in Hives, AllParented(h)
  PROVE  FileOK(ImageOf(h))
<1> DEFINE f == ImageOf(h)
<1>1. f \in [StableCells -> Contents] /\ \A c \in StableCells : f[c] = h.cell[c]
  BY CellsFacts DEF ImageOf, Hives
<1> HIDE DEF f
<1>2. \A c \in StableCells : Place(f[c]) = Place(h.cell[c])
  BY <1>1
<1> QED  BY <1>1, <1>2, ImageParented DEF f

LEMMA ImageOfSound ==
  ASSUME NEW h \in Hives, AllSound(h)
  PROVE  AllSound(HvInitialize(ImageOf(h)))
<1> DEFINE f == ImageOf(h)
           g == HvInitialize(f)
<1>1. f \in [StableCells -> Contents] /\ \A c \in StableCells : f[c] = h.cell[c]
  BY CellsFacts DEF ImageOf, Hives
<1> HIDE DEF f
<1>2. /\ g \in Hives
      /\ \A c \in StableCells : g.cell[c] = h.cell[c]
      /\ \A c \in Cells \ StableCells : g.cell[c].kind = "free"
  BY <1>1, ImageFacts
<1> HIDE DEF g
<1>3. ASSUME NEW d, Is(h, d, "security")
      PROVE  d \in StableCells /\ g.cell[d] = h.cell[d] /\ Is(g, d, "security")
  <2>1. d \in StableCells
    BY <1>3 DEF AllSound, IsDescriptor, DescriptorSound, Is
  <2> QED  BY <2>1, <1>2, <1>3 DEF Is
<1>4. ASSUME NEW c \in KeyCellsOf(g)
      PROVE  Is(g, g.cell[c].Security, "security")
  <2>1. c \in StableCells /\ g.cell[c] = h.cell[c] /\ c \in KeyCellsOf(h)
    BY <1>2, CellsFacts DEF KeyCellsOf
  <2>2. Is(h, h.cell[c].Security, "security")
    BY <2>1 DEF AllSound
  <2> QED  BY <2>1, <2>2, <1>3
<1>5. ASSUME NEW s \in Cells, IsDescriptor(g, s)
      PROVE  DescriptorSound(g, s)
  <2>1. s \in StableCells /\ g.cell[s] = h.cell[s] /\ IsDescriptor(h, s)
    BY <1>2, <1>5, CellsFacts DEF IsDescriptor
  <2>2. DescriptorSound(h, s)
    BY <2>1 DEF AllSound
  <2>3. Users(g, s) \subseteq Users(h, s)
    BY <1>2, CellsFacts DEF Users, KeyCellsOf
  <2>4. Cardinality(Users(g, s)) <= Cardinality(Users(h, s))
    BY <2>3, UsersFacts, FS_Subset
  <2>5. h.cell[s].ReferenceCount >= Cardinality(Users(g, s))
    <3>1. h.cell[s].ReferenceCount \in Int
      BY <2>1, ContentFacts, CellsFacts DEF Hives, IsDescriptor, Descriptors
    <3>2. Cardinality(Users(g, s)) \in Nat /\ Cardinality(Users(h, s)) \in Nat
      BY UsersFacts
    <3>3. h.cell[s].ReferenceCount >= Cardinality(Users(h, s))
      BY <2>2 DEF DescriptorSound
    <3> QED  BY <2>4, <3>1, <3>2, <3>3
  <2>6. Is(g, h.cell[s].Flink, "security") /\ g.cell[h.cell[s].Flink].Blink = s
    BY <1>3, <2>2 DEF DescriptorSound
  <2>7. Is(g, h.cell[s].Blink, "security") /\ g.cell[h.cell[s].Blink].Flink = s
    BY <1>3, <2>2 DEF DescriptorSound
  <2> QED  BY <2>1, <2>5, <2>6, <2>7 DEF DescriptorSound
<1> QED  BY <1>4, <1>5 DEF AllSound, g, f

\* A key that forgets its volatile subkeys.
Purged(content) == [content EXCEPT !.SubKeys.Volatile = {}]

LEMMA PurgedFacts ==
  ASSUME NEW x \in Nodes
  PROVE  /\ Purged(x) \in Nodes
         /\ Purged(x).kind = "key" /\ Purged(x).Parent = x.Parent
         /\ Purged(x).Security = x.Security
         /\ Purged(x).SubKeys.Stable = x.SubKeys.Stable
<1> DEFINE L == [x.SubKeys EXCEPT !.Volatile = {}]
<1>1. L \in [Stable : SUBSET StableCells, Volatile : SUBSET VolatileCells]
  BY DEF Nodes
<1>2. L.Stable = x.SubKeys.Stable
  BY DEF Nodes
<1>3. Purged(x) = [x EXCEPT !.SubKeys = L]
  BY DEF Purged
<1> HIDE DEF L
<1>4. [x EXCEPT !.SubKeys = L] \in Nodes
  BY <1>1 DEF Nodes
<1>5. /\ [x EXCEPT !.SubKeys = L].kind = "key" /\ [x EXCEPT !.SubKeys = L].Parent = x.Parent
      /\ [x EXCEPT !.SubKeys = L].Security = x.Security /\ [x EXCEPT !.SubKeys = L].SubKeys = L
  BY DEF Nodes
<1> QED  BY <1>2, <1>3, <1>4, <1>5

\* All that is loaded has been found to be keys.
LEMMA PurgeFacts ==
  ASSUME NEW h \in Hives, \A c \in Loadable(h) : Is(h, c, "key")
  PROVE  LET g == CmpPurgeVolatiles(h) IN
         \E stale \in SUBSET Cells :
           /\ stale = {c \in Loadable(h) : h.cell[c].SubKeys.Volatile # {}}
           /\ g \in Hives /\ g.dirty = h.dirty \cup Blocks(stale)
           /\ \A c \in stale : h.cell[c].kind = "key"
           /\ \A c \in Cells : g.cell[c] = IF c \in stale THEN Purged(h.cell[c]) ELSE h.cell[c]
<1> DEFINE stale == {c \in Loadable(h) : h.cell[c].SubKeys.Volatile # {}}
           cell == [c \in Cells |-> IF c \in stale THEN Purged(h.cell[c]) ELSE h.cell[c]]
           i == [h EXCEPT !.cell = cell]
           g == HvMarkCellsDirty(i, stale)
<1>1. CmpPurgeVolatiles(h) = g
  BY DEF CmpPurgeVolatiles, Purged
<1>2. /\ stale = {c \in Loadable(h) : h.cell[c].SubKeys.Volatile # {}}
      /\ stale \in SUBSET Cells /\ \A c \in stale : h.cell[c].kind = "key"
  BY DEF Is
<1> HIDE DEF stale
<1>3. cell \in [Cells -> Contents]
  <2>1. ASSUME NEW c \in Cells PROVE cell[c] \in Contents
    <3>1. h.cell[c] \in Contents
      BY DEF Hives
    <3>2. c \in stale => Purged(h.cell[c]) \in Contents
      <4>1. c \in stale => h.cell[c] \in Nodes
        BY <1>2, <3>1, ContentFacts
      <4> QED  BY <4>1, PurgedFacts DEF Contents
    <3> QED  BY <3>1, <3>2
  <2> HIDE DEF cell
  <2>2. cell = [c \in Cells |-> cell[c]]
    BY DEF cell
  <2> QED  BY <2>1, <2>2
<1>4. \A c \in Cells : cell[c] = IF c \in stale THEN Purged(h.cell[c]) ELSE h.cell[c]
  OBVIOUS
<1> HIDE DEF cell
<1>5. i \in Hives /\ i.cell = cell /\ i.dirty = h.dirty
  BY <1>3 DEF Hives
<1> HIDE DEF i
<1>6. g \in Hives /\ g.cell = i.cell /\ g.dirty = i.dirty \cup Blocks(stale)
  BY <1>5, MarkFacts
<1> HIDE DEF g
<1> QED  BY <1>1, <1>2, <1>4, <1>5, <1>6

LEMMA PurgeKept ==
  ASSUME NEW f, FileOK(f), \A c \in Loadable(HvInitialize(f)) : Is(HvInitialize(f), c, "key")
  PROVE  KeptAll(HvInitialize(f), CmpPurgeVolatiles(HvInitialize(f)))
<1> DEFINE h == HvInitialize(f)
           g == CmpPurgeVolatiles(h)
<1>1. /\ h \in Hives
      /\ \A c \in Cells \ StableCells : h.cell[c].kind = "free"
  BY ImageFacts DEF FileOK
<1>2. PICK stale \in SUBSET Cells :
        /\ g \in Hives /\ g.dirty = h.dirty \cup Blocks(stale)
        /\ \A c \in stale : h.cell[c].kind = "key"
        /\ \A c \in Cells : g.cell[c] = IF c \in stale THEN Purged(h.cell[c]) ELSE h.cell[c]
  <2>1. \A c \in Loadable(h) : Is(h, c, "key")
    OBVIOUS
  <2> HIDE DEF h
  <2> QED  BY <1>1, <2>1, PurgeFacts
<1> HIDE DEF g, h
<1>3. ASSUME NEW c \in Cells
      PROVE  /\ g.cell[c].kind = h.cell[c].kind
             /\ h.cell[c].kind # "key" => g.cell[c] = h.cell[c]
             /\ h.cell[c].kind = "key" =>
                  /\ g.cell[c].Parent = h.cell[c].Parent /\ g.cell[c].Security = h.cell[c].Security
                  /\ g.cell[c].SubKeys.Stable = h.cell[c].SubKeys.Stable
  <2>1. c \in stale => h.cell[c] \in Nodes
    BY <1>1, <1>2, ContentFacts DEF Hives
  <2> QED  BY <1>2, <2>1, PurgedFacts
<1>4. Marks(h, g)
  BY <1>2, CellsFacts DEF Marks, Blocks
<1>5. ASSUME AllParented(h), NEW c \in Cells, g.cell[c].kind = "key"
      PROVE  Parented(g, c)
  <2> DEFINE p == h.cell[c].Parent
  <2>1. h.cell[c].kind = "key" /\ g.cell[c].Parent = p /\ c \in StableCells
    BY <1>1, <1>3, <1>5
  <2>2. \/ c = RootCell
        \/ p \in VolatileCells
        \/ Is(h, p, "key") /\ c \in SubKeysOf(h, p)
    BY <1>5, <2>1 DEF AllParented, Parented
  <2> HIDE DEF p
  <2>3. CASE Is(h, p, "key") /\ c \in SubKeysOf(h, p)
    <3>1. p \in Cells /\ h.cell[p] \in Nodes
      BY <1>1, <2>3, ContentFacts DEF Is, Hives
    <3>2. c \in h.cell[p].SubKeys.Stable
      BY <2>1, <2>3, <3>1, CellsFacts DEF SubKeysOf, Nodes
    <3>3. Is(g, p, "key") /\ c \in SubKeysOf(g, p)
      BY <1>3, <2>3, <3>1, <3>2 DEF Is, SubKeysOf
    <3> QED  BY <2>1, <3>3 DEF Parented
  <2> QED  BY <2>1, <2>2, <2>3 DEF Parented
<1>6. AllParented(h) => AllParented(g)
  BY <1>5 DEF AllParented, Parented
<1>7. RootIsKey(h) => RootIsKey(g)
  BY <1>3, CellsFacts DEF RootIsKey
<1>8. ASSUME AllSound(h) PROVE AllSound(g)
  <2>1. \A t \in Cells : IsDescriptor(g, t) <=> IsDescriptor(h, t)
    BY <1>3 DEF IsDescriptor
  <2>2. \A t : Users(g, t) = Users(h, t)
    BY <1>3 DEF Users, KeyCellsOf
  <2>3. \A t \in Cells : IsDescriptor(h, t) =>
           /\ g.cell[t].Flink = h.cell[t].Flink /\ g.cell[t].Blink = h.cell[t].Blink
           /\ g.cell[t].ReferenceCount >= Cardinality(Users(g, t))
    BY <1>3, <1>8, <2>2 DEF IsDescriptor, AllSound, DescriptorSound
  <2>4. \A c \in Cells : g.cell[c].kind = "key" => Is(g, g.cell[c].Security, "security")
    BY <1>3, <1>8 DEF AllSound, KeyCellsOf, Is
  <2> QED  BY <1>1, <1>2, <1>8, <2>1, <2>3, <2>4, RingStays
<1>9. ASSUME Listed(h) PROVE Listed(g)
  <2>1. ASSUME NEW c \in StableCells, g.cell[c].kind = "key", NEW k \in g.cell[c].SubKeys.Stable
        PROVE  g.cell[k].kind = "key" /\ g.cell[k].Parent = c
    <3>1. h.cell[c].kind = "key" /\ k \in h.cell[c].SubKeys.Stable
      BY <1>3, <2>1, CellsFacts
    <3>2. h.cell[c] \in Nodes
      BY <1>1, <3>1, ContentFacts, CellsFacts DEF Hives
    <3>3. k \in Cells
      BY <3>1, <3>2, CellsFacts DEF Nodes
    <3>4. h.cell[k].kind = "key" /\ h.cell[k].Parent = c
      BY <1>9, <3>1 DEF Listed
    <3> QED  BY <1>3, <3>3, <3>4
  <2> QED  BY <2>1 DEF Listed
<1> QED  BY <1>2, <1>4, <1>6, <1>7, <1>8, <1>9 DEF KeptAll, Kept, g, h

\* What a flush leaves in the file.
LEMMA SyncedFacts ==
  ASSUME hive \in Hives, AllParented(hive), FileOK(file), CleanAsIn(hive, file)
  PROVE  FileOK(Synced(hive))
<1> DEFINE f == Synced(hive)
<1>1. \A c \in StableCells : f[c] = IF BlockOf[c] \in hive.dirty THEN hive.cell[c] ELSE file[c]
  BY DEF Synced
<1>2. \A c \in StableCells : hive.cell[c] \in Contents /\ file[c] \in Contents
  BY CellsFacts DEF Hives, FileOK
<1>3. f \in [StableCells -> Contents]
  BY <1>2 DEF Synced
<1> HIDE DEF f
<1>4. \A c \in StableCells : Place(f[c]) = Place(hive.cell[c])
  BY <1>1 DEF CleanAsIn
<1> QED  BY <1>3, <1>4, ImageParented DEF f

OneBlock == \A c, d \in StableCells : BlockOf[c] = BlockOf[d]

\* One block is written as a whole, or not at all.
LEMMA SyncedSound ==
  ASSUME hive \in Hives, AllSound(hive), FileOK(file), AllSound(HvInitialize(file)), OneBlock
  PROVE  AllSound(HvInitialize(Synced(hive)))
<1>1. CASE hive.dirty = {}
  <2>1. Synced(hive) = file
    BY <1>1 DEF Synced, FileOK
  <2> QED  BY <2>1
<1>2. CASE hive.dirty # {}
  <2>1. \A c \in StableCells : BlockOf[c] \in hive.dirty
    BY <1>2 DEF Hives, OneBlock
  <2>2. Synced(hive) = ImageOf(hive)
    BY <2>1 DEF Synced, ImageOf
  <2> QED  BY <2>2, ImageOfSound
<1> QED  BY <1>1, <1>2

LEMMA RootIsLoadable == \A h : RootCell \in Loadable(h)
  BY DEF Loadable

\* The root of the first file of another program: its descriptor, and its only subkey.
ForeignRoot(s, k) == [CM_KEY_NODE("", HCELL_NIL, s) EXCEPT !.SubKeys.Stable = {k}]

\* The cells of the first file of another program.
ForeignCells(f, a, b, c) ==
  /\ {a, b, c} \subseteq StableCells \ {RootCell} /\ a # b /\ a # c /\ b # c
  /\ f[RootCell] = ForeignRoot(a, c)
  /\ f[a] = CM_KEY_SECURITY(1, b, b)
  /\ f[b] = CM_KEY_SECURITY(1, a, a)
  /\ f[c] = CM_KEY_NODE(ControlSet001, RootCell, b)
  /\ \A d \in StableCells \ {RootCell, a, b, c} : f[d] = FreeCell

LEMMA ForeignFileCells ==
  ASSUME Foreign
  PROVE  /\ ForeignFile = [d \in StableCells |-> ForeignFile[d]]
         /\ \E a, b, c : ForeignCells(ForeignFile, a, b, c)
<1> DEFINE free == StableCells \ {RootCell}
           a == Min(free)
           b == Min(free \ {a})
           c == Min(free \ {a, b})
<1>1. IsFiniteSet(StableCells) /\ StableCells \in SUBSET Nat /\ RootCell \in StableCells
  BY CellsFacts, FS_Subset
<1>2. Cardinality(StableCells) \in Nat /\ Cardinality(StableCells) > 3
  BY <1>1, RoomAssumption, FS_CardinalityType
<1>3. IsFiniteSet(free) /\ Cardinality(free) = Cardinality(StableCells) - 1
  BY <1>1, FS_RemoveElement
<1>4. free # {}
  BY <1>2, <1>3, FS_EmptySet
<1>5. free \in SUBSET Nat
  BY <1>1
<1>6. a \in free
  BY <1>4, <1>5, MinFacts
<1>7. IsFiniteSet(free \ {a}) /\ Cardinality(free \ {a}) = Cardinality(free) - 1
  <2> HIDE DEF free, a
  <2> QED  BY <1>3, <1>6, FS_RemoveElement
<1>8. free \ {a} # {}
  BY <1>2, <1>3, <1>7, FS_EmptySet
<1>9. b \in free \ {a}
  <2> HIDE DEF free, a
  <2>1. free \ {a} \in SUBSET Nat
    BY <1>5
  <2> QED  BY <1>8, <2>1, MinFacts
<1>10. free \ {a, b} # {}
  <2> HIDE DEF free, a, b
  <2>1. IsFiniteSet((free \ {a}) \ {b}) /\ Cardinality((free \ {a}) \ {b}) = Cardinality(free \ {a}) - 1
    BY <1>7, <1>9, FS_RemoveElement
  <2>2. (free \ {a}) \ {b} # {}
    BY <2>1, <1>2, <1>3, <1>7, FS_EmptySet
  <2> QED  BY <2>2
<1>11. c \in free \ {a, b}
  <2> HIDE DEF free, a, b
  <2>1. free \ {a, b} \in SUBSET Nat
    BY <1>5
  <2> QED  BY <1>10, <2>1, MinFacts
<1>12. ForeignFile =
         [d \in StableCells |->
           CASE d = RootCell -> ForeignRoot(a, c)
             [] d = a -> CM_KEY_SECURITY(1, b, b)
             [] d = b -> CM_KEY_SECURITY(1, a, a)
             [] d = c -> CM_KEY_NODE(ControlSet001, RootCell, b)
             [] OTHER -> FreeCell]
  BY DEF ForeignFile, ForeignRoot
<1>13. {a, b, c} \subseteq StableCells \ {RootCell} /\ a # b /\ a # c /\ b # c
  BY <1>6, <1>9, <1>11
<1> HIDE DEF a, b, c, free
<1> DEFINE f == ForeignFile
<1>14. f = [d \in StableCells |-> f[d]]
  BY <1>12
<1>15. f[RootCell] = ForeignRoot(a, c)
  <2>1. RootCell \in StableCells
    BY <1>1
  <2> HIDE DEF f
  <2>2. f[RootCell] = CASE RootCell = RootCell -> ForeignRoot(a, c)
                        [] RootCell = a -> CM_KEY_SECURITY(1, b, b)
                        [] RootCell = b -> CM_KEY_SECURITY(1, a, a)
                        [] RootCell = c -> CM_KEY_NODE(ControlSet001, RootCell, b)
                        [] OTHER -> FreeCell
    BY <1>12, <2>1 DEF f
  <2> QED  BY <1>13, <2>2
<1>16. f[a] = CM_KEY_SECURITY(1, b, b) /\ f[b] = CM_KEY_SECURITY(1, a, a)
  BY <1>12, <1>13
<1>17. f[c] = CM_KEY_NODE(ControlSet001, RootCell, b)
  BY <1>12, <1>13
<1>18. \A d \in StableCells \ {RootCell, a, b, c} : f[d] = FreeCell
  BY <1>12
<1> HIDE DEF f
<1>19. ForeignCells(f, a, b, c)
  BY <1>13, <1>15, <1>16, <1>17, <1>18 DEF ForeignCells
<1> QED  BY <1>14, <1>19 DEF f

LEMMA ForeignFileFacts ==
  ASSUME Foreign
  PROVE  /\ FileOK(ForeignFile) /\ AllSound(HvInitialize(ForeignFile))
         /\ Listed(HvInitialize(ForeignFile)) /\ RootIsKey(HvInitialize(ForeignFile))
<1> DEFINE f == ForeignFile
           g == HvInitialize(f)
<1>1. PICK a, b, c : ForeignCells(f, a, b, c)
  BY ForeignFileCells
<1>2. f = [d \in StableCells |-> f[d]]
  BY ForeignFileCells
<1> HIDE DEF f
<1>3. {a, b, c} \subseteq Cells /\ {a, b, c} \subseteq StableCells /\ a # b /\ a # c /\ b # c
      /\ RootCell \notin {a, b, c} /\ RootCell \in StableCells
  BY <1>1, CellsFacts DEF ForeignCells
<1> DEFINE x == CM_KEY_NODE("", HCELL_NIL, a)
<1>4. /\ f[RootCell] \in Nodes /\ f[RootCell].kind = "key" /\ f[RootCell].Security = a
      /\ f[RootCell].SubKeys.Stable = {c}
  <2> DEFINE L == [Stable |-> {c}, Volatile |-> {}]
  <2>1. f[RootCell] = [x EXCEPT !.SubKeys = L]
    <3>1. ForeignRoot(a, c) = [x EXCEPT !.SubKeys = L]
      <4>1. x.SubKeys = [Stable |-> {}, Volatile |-> {}]
        BY DEF CM_KEY_NODE
      <4>2. [[Stable |-> {}, Volatile |-> {}] EXCEPT !.Stable = {c}] = L
        OBVIOUS
      <4>3. ForeignRoot(a, c) = [x EXCEPT !.SubKeys.Stable = {c}]
        BY DEF ForeignRoot
      <4> HIDE DEF x, L
      <4>4. ForeignRoot(a, c) = [x EXCEPT !.SubKeys = [x.SubKeys EXCEPT !.Stable = {c}]]
        BY <4>3
      <4> QED  BY <4>1, <4>2, <4>4
    <3> QED  BY <3>1, <1>1 DEF ForeignCells
  <2>2. x \in Nodes /\ x.Security = a
    BY <1>3, NodeFacts DEF CM_KEY_NODE
  <2>3. L \in [Stable : SUBSET StableCells, Volatile : SUBSET VolatileCells] /\ L.Stable = {c}
    BY <1>3
  <2> HIDE DEF x, L
  <2>4. [x EXCEPT !.SubKeys = L] \in Nodes
    BY <2>2, <2>3 DEF Nodes
  <2>5. /\ [x EXCEPT !.SubKeys = L].kind = "key" /\ [x EXCEPT !.SubKeys = L].Security = a
        /\ [x EXCEPT !.SubKeys = L].SubKeys = L
    BY <2>2 DEF Nodes
  <2> QED  BY <2>1, <2>3, <2>4, <2>5
<1>5. /\ f[c] \in Nodes /\ f[c].kind = "key" /\ f[c].Security = b /\ f[c].Parent = RootCell
      /\ f[c].SubKeys.Stable = {}
  <2>1. f[c] = CM_KEY_NODE(ControlSet001, RootCell, b)
    BY <1>1 DEF ForeignCells
  <2>2. f[c] \in Nodes
    BY <2>1, <1>3, NodeFacts, CellsFacts DEF Names
  <2> QED  BY <2>1, <2>2 DEF CM_KEY_NODE
<1>6. /\ f[a] \in Descriptors /\ f[a].kind = "security" /\ f[a].ReferenceCount = 1
      /\ f[a].Flink = b /\ f[a].Blink = b
  <2>1. f[a] = CM_KEY_SECURITY(1, b, b)
    BY <1>1 DEF ForeignCells
  <2> QED  BY <2>1, <1>3 DEF CM_KEY_SECURITY, Descriptors
<1>7. /\ f[b] \in Descriptors /\ f[b].kind = "security" /\ f[b].ReferenceCount = 1
      /\ f[b].Flink = a /\ f[b].Blink = a
  <2>1. f[b] = CM_KEY_SECURITY(1, a, a)
    BY <1>1 DEF ForeignCells
  <2> QED  BY <2>1, <1>3 DEF CM_KEY_SECURITY, Descriptors
<1>8. \A d \in StableCells \ {RootCell, a, b, c} : f[d] = FreeCell /\ f[d].kind = "free"
  <2>1. \A d \in StableCells \ {RootCell, a, b, c} : f[d] = FreeCell
    BY <1>1 DEF ForeignCells
  <2>2. FreeCell.kind = "free"
    BY DEF FreeCell
  <2> QED  BY <2>1, <2>2
<1>9. f \in [StableCells -> Contents]
  <2>1. \A d \in StableCells : f[d] \in Contents
    BY <1>4, <1>5, <1>6, <1>7, <1>8 DEF Contents
  <2> QED  BY <1>2, <2>1
<1>10. /\ g \in Hives
       /\ \A d \in StableCells : g.cell[d] = f[d]
       /\ \A d \in Cells \ StableCells : g.cell[d].kind = "free"
  BY <1>9, ImageFacts
<1> HIDE DEF g
<1>11. \A d \in Cells : g.cell[d].kind = "key" <=> d \in {RootCell, c}
  BY <1>3, <1>4, <1>5, <1>6, <1>7, <1>8, <1>10, CellsFacts
<1>12. \A d \in Cells : g.cell[d].kind = "security" <=> d \in {a, b}
  BY <1>3, <1>4, <1>5, <1>6, <1>7, <1>8, <1>10, CellsFacts
<1>13. AllParented(g)
  <2>1. Is(g, RootCell, "key") /\ c \in SubKeysOf(g, RootCell) /\ g.cell[c].Parent = RootCell
    BY <1>3, <1>4, <1>5, <1>10, <1>11, CellsFacts DEF Is, SubKeysOf
  <2> QED  BY <1>11, <2>1 DEF AllParented, Parented
<1>14. Users(g, a) = {RootCell} /\ Users(g, b) = {c}
  <2>1. KeyCellsOf(g) = {RootCell, c}
    BY <1>3, <1>11, CellsFacts DEF KeyCellsOf
  <2>2. g.cell[RootCell].Security = a /\ g.cell[c].Security = b
    BY <1>3, <1>4, <1>5, <1>10
  <2> QED  BY <1>3, <2>1, <2>2 DEF Users
<1>15. Cardinality(Users(g, a)) = 1 /\ Cardinality(Users(g, b)) = 1
  BY <1>14, FS_Singleton
<1>16. DescriptorSound(g, a) /\ DescriptorSound(g, b)
  BY <1>3, <1>6, <1>7, <1>10, <1>12, <1>15 DEF DescriptorSound, Is
<1>17. \A d \in KeyCellsOf(g) : Is(g, g.cell[d].Security, "security")
  BY <1>3, <1>4, <1>5, <1>10, <1>11, <1>12 DEF KeyCellsOf, Is
<1>18. AllSound(g)
  BY <1>12, <1>16, <1>17 DEF AllSound, IsDescriptor
<1>19. Listed(g)
  <2>1. g.cell[RootCell].SubKeys.Stable = {c} /\ g.cell[c].SubKeys.Stable = {}
    BY <1>3, <1>4, <1>5, <1>10
  <2>2. g.cell[c].kind = "key" /\ g.cell[c].Parent = RootCell
    BY <1>3, <1>5, <1>10, <1>11
  <2>3. \A d \in StableCells : g.cell[d].kind = "key" => d = RootCell \/ d = c
    BY <1>11, CellsFacts
  <2> QED  BY <2>1, <2>2, <2>3 DEF Listed
<1>20. RootIsKey(g)
  BY <1>11, CellsFacts DEF RootIsKey
<1> QED  BY <1>9, <1>13, <1>18, <1>19, <1>20 DEF FileOK, f, g

-----------------------------------------------------------------------------
(* Only stranded keys are lost *)

LEMMA LinkedKept ==
  ASSUME NEW h \in Hives, Linked(WithControlSet(h), WithLink(WithControlSet(h)))
  PROVE  KeptAll(h, hive')
<1> DEFINE at == WithControlSet(h)
           linked == WithLink(at)
<1>1. "Stable" \in DOMAIN Storage /\ "Volatile" \in DOMAIN Storage /\ FALSE \in BOOLEAN
  BY StorageFacts
<1>2. ControlSet001 \in Names /\ CurrentControlSet \in Names
  BY DEF Names
<1>3. At(at) /\ KeptAll(h, at.hive)
  BY <1>1, <1>2, CreateKept DEF WithControlSet
<1>4. hive' = linked.hive
  BY DEF Linked
<1> HIDE DEF at
<1>5. KeptAll(at.hive, linked.hive)
  <2>1. at.hive \in Hives
    BY <1>3 DEF At
  <2> QED  BY <2>1, <1>1, <1>2, CreateKept DEF WithLink
<1> HIDE DEF linked
<1> QED  BY <1>3, <1>4, <1>5, KeptAllTransitive

\* The hive of a session is the one that was read, changed as every call changes it.
LEMMA LoadKept ==
  ASSUME InitializeLoads, FileOK(file)
  PROVE  /\ KeptAll(HvInitialize(file), hive')
         /\ RootIsKey(HvInitialize(file))
<1> DEFINE h == HvInitialize(file)
           g == CmpPurgeVolatiles(h)
<1>1. \A c \in Loadable(h) : Is(h, c, "key")
  BY DEF InitializeLoads, CmpValidateKey
<1>2. KeptAll(h, g)
  BY <1>1, PurgeKept
<1>3. g \in Hives /\ Linked(WithControlSet(g), WithLink(WithControlSet(g)))
  BY <1>2 DEF KeptAll, Kept, InitializeLoads, RegInitializeRegistry
<1>4. RootIsKey(h)
  BY <1>1, RootIsLoadable DEF RootIsKey, Is
<1> HIDE DEF g, h
<1>5. KeptAll(g, hive')
  BY <1>3, LinkedKept
<1>6. KeptAll(h, hive')
  BY <1>2, <1>5, KeptAllTransitive
<1> QED  BY <1>4, <1>6 DEF h

LEMMA MemoryKept ==
  ASSUME InitializeFromInf
  PROVE  KeptAll(Connected, hive')
<1>1. Linked(WithControlSet(Connected), WithLink(WithControlSet(Connected)))
  BY DEF InitializeFromInf, RegInitializeRegistry
<1> QED  BY <1>1, ConnectedFacts, LinkedKept

LEMMA CreateStepKept ==
  ASSUME NEW start, NEW path \in PathsFrom(start), NEW type \in {"Stable", "Volatile"},
         NEW fails \in BOOLEAN, hive \in Hives, NTRegCreateKeyExW(start, path, type, fails)
  PROVE  KeptAll(hive, hive')
<1>1. \/ \E n \in Names : path = <<n>>
      \/ \E n, m \in Names : path = <<n, m>>
  BY PathsAreShort
<1>2. type \in DOMAIN Storage
  BY StorageFacts
<1>3. KeptAll(hive, RegpCreateKey(hive, start, path, type, fails).hive)
  BY <1>1, <1>2, CreateKept
<1> QED  BY <1>3 DEF NTRegCreateKeyExW

LEMMA DeleteStepKept ==
  ASSUME NEW start, NEW path, hive \in Hives, NTRegDeleteKeyW(start, path)
  PROVE  KeptAll(hive, hive')
<1> DEFINE k == RegpOpenKey(start, path)
<1>1. Deletes(k)
  BY DEF NTRegDeleteKeyW
<1> HIDE DEF k
<1>2. /\ k \in Cells /\ hive.cell[k].kind = "key" /\ k # RootCell /\ SubKeysOf(hive, k) = {}
      /\ hive' = CmpFreeKeyByCell(hive, k)
  BY <1>1 DEF Deletes, Is
<1>3. Kept(hive, CmpFreeKeyByCell(hive, k))
  BY <1>2, DeletedKept
<1>4. AllSound(hive) => AllSound(CmpFreeKeyByCell(hive, k))
  BY <1>2, DeletedSound
<1>5. Listed(hive) => Listed(CmpFreeKeyByCell(hive, k))
  BY <1>2, DeletedListed
<1> QED  BY <1>2, <1>3, <1>4, <1>5 DEF KeptAll

\* A call that changes the hive leaves all else that the invariant is about.
LEMMA ChangeKept ==
  ASSUME KeysInv, Up, KeptAll(hive, hive'), UNCHANGED <<phase, handle, file>>
  PROVE  KeysInv'
<1>1. /\ hive' \in Hives /\ AllParented(hive') /\ RootIsKey(hive')
      /\ hive.dirty \subseteq hive'.dirty
      /\ \A c \in StableCells : Place(hive'.cell[c]) # Place(hive.cell[c]) => BlockOf[c] \in hive'.dirty
  BY DEF KeptAll, Kept, Marks, KeysInv
<1>2. CleanAsIn(hive, file) => CleanAsIn(hive', file)
  BY <1>1 DEF CleanAsIn
<1>3. /\ phase' = phase /\ handle' = handle /\ file' = file
  OBVIOUS
<1> QED  BY <1>1, <1>2, <1>3 DEF KeysInv, Up

LEMMA KeysInitially == Init => KeysInv
<1> SUFFICES ASSUME Init PROVE KeysInv
  OBVIOUS
<1>1. phase = "down" /\ handle = "none" /\ hive = EmptyHive
  BY DEF Init
<1>2. file # None => FileOK(file)
  BY ForeignFileFacts DEF Init
<1> QED  BY <1>1, <1>2, EmptyFacts DEF KeysInv, Up

LEMMA KeysKept == KeysInv /\ [Next]_vars => KeysInv'
<1> SUFFICES ASSUME KeysInv, [Next]_vars PROVE KeysInv'
  OBVIOUS
<1>1. CASE InitializeLoads
  <2> DEFINE h == HvInitialize(file)
  <2>1. phase' = "loaded" /\ handle' = "open" /\ file' = file /\ file # None
    BY <1>1 DEF InitializeLoads, RegInitializeRegistry
  <2>2. FileOK(file)
    BY <2>1 DEF KeysInv
  <2>3. KeptAll(h, hive') /\ RootIsKey(h) /\ AllParented(h)
    BY <1>1, <2>2, LoadKept DEF FileOK
  <2>4. \A c \in StableCells : h.cell[c] = file[c]
    BY <2>2, ImageFacts DEF FileOK
  <2> HIDE DEF h
  <2>5. hive' \in Hives /\ AllParented(hive') /\ RootIsKey(hive') /\ Marks(h, hive')
    BY <2>3 DEF KeptAll, Kept
  <2>6. CleanAsIn(hive', file)
    BY <2>4, <2>5 DEF CleanAsIn, Marks
  <2> QED  BY <2>1, <2>2, <2>5, <2>6 DEF KeysInv, Up
<1>2. CASE InitializeFails
  <2>1. phase' = "memory" /\ handle' = "none" /\ file' = file /\ hive' = Connected
    BY <1>2 DEF InitializeFails
  <2> QED  BY <2>1, ConnectedFacts DEF KeysInv, Up
<1>3. CASE InitializeFromInf
  <2>1. phase' = "memory" /\ handle' = "none" /\ file' = file
    BY <1>3 DEF InitializeFromInf, RegInitializeRegistry
  <2>2. KeptAll(Connected, hive')
    BY <1>3, MemoryKept
  <2>3. hive' \in Hives /\ AllParented(hive') /\ RootIsKey(hive')
    BY <2>2, ConnectedFacts DEF KeptAll, Kept
  <2> QED  BY <2>1, <2>3 DEF KeysInv, Up
<1>4. CASE SaveRegistryIntoHive
  <2>1. /\ phase' = phase /\ handle' = "closed" /\ hive' = hive /\ Up
        /\ file' = ImageOf(hive)
    BY <1>4 DEF SaveRegistryIntoHive, ImageOf
  <2>2. FileOK(file')
    BY <2>1, ImageOfFacts DEF KeysInv
  <2>3. file' # None
    BY <2>1, <2>2, NoneAssumption DEF FileOK
  <2> QED  BY <2>1, <2>2, <2>3 DEF KeysInv, Up
<1>5. CASE RegShutdownRegistry
  <2>1. phase' = "down" /\ handle' = handle /\ hive' = EmptyHive
    BY <1>5 DEF RegShutdownRegistry
  <2>2. file' # None => FileOK(file')
    <3>1. CASE handle = "open"
      <4>1. phase = "loaded" /\ file' = Synced(hive)
        BY <1>5, <3>1 DEF RegShutdownRegistry, KeysInv, Up
      <4>2. hive \in Hives /\ AllParented(hive) /\ FileOK(file) /\ CleanAsIn(hive, file)
        BY <3>1, <4>1 DEF KeysInv
      <4> QED  BY <4>1, <4>2, SyncedFacts
    <3>2. CASE handle # "open"
      BY <1>5, <3>2 DEF RegShutdownRegistry, KeysInv
    <3> QED  BY <3>1, <3>2
  <2> QED  BY <2>1, <2>2, EmptyFacts DEF KeysInv, Up
<1>6. CASE Exit
  <2>1. phase' = "down" /\ handle' = "none" /\ hive' = EmptyHive /\ file' = file
    BY <1>6 DEF Exit, Ended
  <2> QED  BY <2>1, EmptyFacts DEF KeysInv, Up
<1>7. ASSUME NEW start \in Starts, NEW path \in PathsFrom(start),
             NEW type \in {"Stable", "Volatile"}, NEW fails \in BOOLEAN,
             NTRegCreateKeyExW(start, path, type, fails)
      PROVE  KeysInv'
  <2>1. hive \in Hives /\ Up /\ UNCHANGED <<phase, handle, file>>
    BY <1>7 DEF NTRegCreateKeyExW, KeysInv
  <2>2. KeptAll(hive, hive')
    BY <1>7, <2>1, CreateStepKept
  <2> QED  BY <2>1, <2>2, ChangeKept
<1>8. ASSUME NEW start \in Starts, NEW path \in PathsFrom(start), NTRegDeleteKeyW(start, path)
      PROVE  KeysInv'
  <2>1. hive \in Hives /\ Up /\ UNCHANGED <<phase, handle, file>>
    BY <1>8 DEF NTRegDeleteKeyW, KeysInv
  <2>2. KeptAll(hive, hive')
    BY <1>8, <2>1, DeleteStepKept
  <2> QED  BY <2>1, <2>2, ChangeKept
<1>9. CASE UNCHANGED <<phase, handle, hive, file>>
  BY <1>9 DEF KeysInv, Up
<1>10. ASSUME NEW start \in Starts, NEW path \in PathsFrom(start), NTRegOpenKeyW(start, path)
       PROVE  KeysInv'
  BY <1>9, <1>10 DEF NTRegOpenKeyW
<1>11. CASE NTRegCloseKey
  BY <1>9, <1>11 DEF NTRegCloseKey
<1>12. CASE UNCHANGED vars
  BY <1>9, <1>12 DEF vars
<1> QED  BY <1>1, <1>2, <1>3, <1>4, <1>5, <1>6, <1>7, <1>8, <1>10, <1>11, <1>12 DEF Next

LEMMA KeysInvariant == Spec => []KeysInv
<1>1. Init => KeysInv
  BY KeysInitially
<1>2. KeysInv /\ [Next]_vars => KeysInv'
  BY KeysKept
<1> QED  BY <1>1, <1>2, PTL DEF Spec

(***************************************************************************)
(* Every cell of the hive in memory and of the file is free or holds a key *)
(* or a descriptor, each key lists its subkeys in the list of the store    *)
(* that they are in, and a hive is in memory exactly while the registry is *)
(* up.                                                                     *)
(***************************************************************************)
THEOREM TypeCorrect == Spec => []TypeOK
<1>1. KeysInv => TypeOK
  <2> SUFFICES ASSUME KeysInv PROVE TypeOK
    OBVIOUS
  <2>1. file # None => file \in [StableCells -> Contents]
    BY DEF KeysInv, FileOK
  <2>2. {c \in Cells : hive.cell[c] # FreeCell} = {} <=> ~Up
    <3>1. CASE Up
      <4>1. FreeCell.kind # "key"
        BY DEF FreeCell
      <4>2. hive.cell[RootCell] # FreeCell
        BY <3>1, <4>1 DEF KeysInv, RootIsKey
      <4> QED  BY <3>1, <4>2, CellsFacts
    <3>2. CASE ~Up
      BY <3>2, EmptyFacts DEF KeysInv
    <3> QED  BY <3>1, <3>2
  <2> QED  BY <2>1, <2>2 DEF TypeOK, KeysInv
<1> QED  BY <1>1, KeysInvariant, PTL

(***************************************************************************)
(* No key cell is lost: a path from the root leads to it, but for a stable *)
(* key below a volatile one.  No order of creating and deleting keys, of   *)
(* failures to enter one in its parent, of exports, flushes and loads      *)
(* leaves another key entered nowhere, also where only some blocks of the  *)
(* hive are written.                                                       *)
(***************************************************************************)
THEOREM KeysNotLost == Spec => []OnlyStrandedKeysLost
<1>1. KeysInv => OnlyStrandedKeysLost
  BY DEF KeysInv, AllParented, Parented, OnlyStrandedKeysLost, KeyCellsOf
<1> QED  BY <1>1, KeysInvariant, PTL

-----------------------------------------------------------------------------
(* Descriptors *)

LEMMA SoundInitially == Init => SoundInv
<1> SUFFICES ASSUME Init PROVE SoundInv
  OBVIOUS
<1>1. hive = EmptyHive
  BY DEF Init
<1>2. file # None => AllSound(HvInitialize(file))
  BY ForeignFileFacts DEF Init
<1> QED  BY <1>1, <1>2, EmptyFacts DEF SoundInv

LEMMA SoundKept ==
  ASSUME OneBlock
  PROVE  KeysInv /\ SoundInv /\ [Next]_vars => SoundInv'
<1> SUFFICES ASSUME KeysInv, SoundInv, [Next]_vars PROVE SoundInv'
  OBVIOUS
<1>0. hive \in Hives /\ AllSound(hive)
  BY DEF KeysInv, SoundInv
<1>1. CASE InitializeLoads
  <2>1. file' = file /\ file # None
    BY <1>1 DEF InitializeLoads
  <2>2. FileOK(file) /\ AllSound(HvInitialize(file))
    BY <2>1 DEF KeysInv, SoundInv
  <2>3. AllSound(hive')
    BY <1>1, <2>2, LoadKept DEF KeptAll
  <2> QED  BY <2>1, <2>2, <2>3 DEF SoundInv
<1>2. CASE InitializeFails
  <2>1. file' = file /\ hive' = Connected
    BY <1>2 DEF InitializeFails
  <2> QED  BY <2>1, ConnectedFacts DEF SoundInv
<1>3. CASE InitializeFromInf
  <2>1. file' = file
    BY <1>3 DEF InitializeFromInf
  <2>2. AllSound(hive')
    BY <1>3, MemoryKept, ConnectedFacts DEF KeptAll
  <2> QED  BY <2>1, <2>2 DEF SoundInv
<1>4. CASE SaveRegistryIntoHive
  <2>1. hive' = hive /\ file' = ImageOf(hive)
    BY <1>4 DEF SaveRegistryIntoHive, ImageOf
  <2>2. AllSound(HvInitialize(ImageOf(hive)))
    BY <1>0, ImageOfSound
  <2> QED  BY <1>0, <2>1, <2>2 DEF SoundInv
<1>5. CASE RegShutdownRegistry
  <2>1. hive' = EmptyHive
    BY <1>5 DEF RegShutdownRegistry
  <2>2. file' # None => AllSound(HvInitialize(file'))
    <3>1. CASE handle = "open"
      <4>1. phase = "loaded" /\ file' = Synced(hive)
        BY <1>5, <3>1 DEF RegShutdownRegistry, KeysInv, Up
      <4>2. FileOK(file) /\ AllSound(HvInitialize(file))
        BY <4>1 DEF KeysInv, SoundInv
      <4> QED  BY <1>0, <4>1, <4>2, SyncedSound
    <3>2. CASE handle # "open"
      BY <1>5, <3>2 DEF RegShutdownRegistry, SoundInv
    <3> QED  BY <3>1, <3>2
  <2> QED  BY <2>1, <2>2, EmptyFacts DEF SoundInv
<1>6. CASE Exit
  <2>1. hive' = EmptyHive /\ file' = file
    BY <1>6 DEF Exit, Ended
  <2> QED  BY <2>1, EmptyFacts DEF SoundInv
<1>7. ASSUME NEW start \in Starts, NEW path \in PathsFrom(start),
             NEW type \in {"Stable", "Volatile"}, NEW fails \in BOOLEAN,
             NTRegCreateKeyExW(start, path, type, fails)
      PROVE  SoundInv'
  <2>1. file' = file
    BY <1>7 DEF NTRegCreateKeyExW
  <2>2. AllSound(hive')
    BY <1>0, <1>7, CreateStepKept DEF KeptAll
  <2> QED  BY <2>1, <2>2 DEF SoundInv
<1>8. ASSUME NEW start \in Starts, NEW path \in PathsFrom(start), NTRegDeleteKeyW(start, path)
      PROVE  SoundInv'
  <2>1. file' = file
    BY <1>8 DEF NTRegDeleteKeyW
  <2>2. AllSound(hive')
    BY <1>0, <1>8, DeleteStepKept DEF KeptAll
  <2> QED  BY <2>1, <2>2 DEF SoundInv
<1>9. CASE UNCHANGED <<hive, file>>
  BY <1>9 DEF SoundInv
<1>10. ASSUME NEW start \in Starts, NEW path \in PathsFrom(start), NTRegOpenKeyW(start, path)
       PROVE  SoundInv'
  BY <1>9, <1>10 DEF NTRegOpenKeyW
<1>11. CASE NTRegCloseKey
  BY <1>9, <1>11 DEF NTRegCloseKey
<1>12. CASE UNCHANGED vars
  BY <1>9, <1>12 DEF vars
<1> QED  BY <1>1, <1>2, <1>3, <1>4, <1>5, <1>6, <1>7, <1>8, <1>10, <1>11, <1>12 DEF Next

(***************************************************************************)
(* In a hive of one block the count of a descriptor is never lower than    *)
(* the number of the keys that use it, no key names a cell that is not a   *)
(* descriptor, and the descriptors form a ring, over any number of         *)
(* sessions.  With more blocks it is not so: a count that was raised is    *)
(* not saved with the key that raised it.                                  *)
(***************************************************************************)
THEOREM DescriptorsStaySound ==
  ASSUME OneBlock
  PROVE  Spec => []DescriptorsSound
<1>1. Init => SoundInv
  BY SoundInitially
<1>2. KeysInv /\ SoundInv /\ [Next]_vars => SoundInv'
  BY SoundKept
<1>3. SoundInv => DescriptorsSound
  BY DEF SoundInv, AllSound, IsDescriptor, DescriptorSound, DescriptorsSound, DescriptorsSigned, KeyCellsOf
<1> QED  BY <1>1, <1>2, <1>3, KeysInvariant, PTL DEF Spec

-----------------------------------------------------------------------------
(* What is saved is accepted *)

\* The function f gives the keys at each of the first N depths below the root.
Levels(h, N, f) ==
  f = [n \in 1 .. N |-> Below(h, IF n = 1 THEN {RootCell} ELSE f[n - 1])]

LEMMA LevelsExist ==
  ASSUME NEW h, NEW N \in Nat
  PROVE  \E f : Levels(h, N, f)
<1> DEFINE T == {M \in Nat : ~\E f : Levels(h, M, f)}
<1> SUFFICES ASSUME T # {} PROVE FALSE
  OBVIOUS
<1> DEFINE M == Min(T)
<1>1. M \in T /\ \A n \in T : M <= n
  <2>1. T \in SUBSET Nat
    OBVIOUS
  <2> HIDE DEF T
  <2> QED  BY <2>1, MinFacts
<1> HIDE DEF M
<1>2. M \in Nat /\ ~\E f : Levels(h, M, f)
  BY <1>1
<1>3. CASE M = 0
  <2> DEFINE f == [n \in 1 .. 0 |-> {}]
  <2>1. Levels(h, 0, f)
    BY DEF Levels
  <2> QED  BY <1>2, <1>3, <2>1
<1>4. CASE M # 0
  <2>1. M - 1 \in Nat /\ M - 1 \notin T
    BY <1>1, <1>2, <1>4
  <2>2. PICK g : Levels(h, M - 1, g)
    BY <2>1
  <2> DEFINE last == Below(h, IF M = 1 THEN {RootCell} ELSE g[M - 1])
             f == [n \in 1 .. M |-> IF n = M THEN last ELSE g[n]]
  <2>3. ASSUME NEW n \in 1 .. M
        PROVE  f[n] = Below(h, IF n = 1 THEN {RootCell} ELSE f[n - 1])
    <3>1. CASE n = M
      <4>1. n # 1 => f[n - 1] = g[M - 1]
        BY <1>2, <3>1
      <4> QED  BY <3>1, <4>1
    <3>2. CASE n # M
      <4>1. n \in 1 .. M - 1
        BY <1>2, <3>2
      <4>2. f[n] = g[n]
        BY <3>2
      <4>3. g[n] = Below(h, IF n = 1 THEN {RootCell} ELSE g[n - 1])
        BY <2>2, <4>1 DEF Levels
      <4>4. n # 1 => f[n - 1] = g[n - 1]
        BY <1>2, <4>1
      <4> HIDE DEF f
      <4> QED  BY <4>2, <4>3, <4>4
    <3> QED  BY <3>1, <3>2
  <2>4. f = [n \in 1 .. M |-> f[n]]
    OBVIOUS
  <2> HIDE DEF f
  <2>5. Levels(h, M, f)
    BY <2>3, <2>4 DEF Levels
  <2> QED  BY <1>2, <2>5
<1> QED  BY <1>3, <1>4

StableKeys(h) == {c \in StableCells : h.cell[c].kind = "key"}

LEMMA BelowIsKeys ==
  ASSUME NEW h \in Hives, Listed(h), NEW cs \in SUBSET StableKeys(h)
  PROVE  Below(h, cs) \subseteq StableKeys(h)
<1>1. ASSUME NEW c \in cs, NEW k \in h.cell[c].SubKeys.Stable
      PROVE  k \in StableKeys(h)
  <2>1. c \in StableCells /\ h.cell[c].kind = "key"
    BY DEF StableKeys
  <2>2. h.cell[c] \in Nodes
    BY <2>1, ContentFacts, CellsFacts DEF Hives
  <2>3. k \in StableCells
    BY <2>2, <1>1 DEF Nodes
  <2>4. h.cell[k].kind = "key"
    BY <2>1, <1>1 DEF Listed
  <2> QED  BY <2>3, <2>4 DEF StableKeys
<1> QED  BY <1>1 DEF Below

LEMMA LoadableIsKeys ==
  ASSUME NEW h \in Hives, Listed(h), RootIsKey(h)
  PROVE  Loadable(h) \subseteq StableKeys(h)
<1> DEFINE N == Cardinality(StableCells)
           level == CHOOSE f : Levels(h, N, f)
<1>1. N \in Nat
  BY CellsFacts, FS_Subset, FS_CardinalityType
<1>2. Loadable(h) = {RootCell} \cup UNION {level[n] : n \in DOMAIN level}
  BY DEF Loadable, Levels
<1> HIDE DEF N
<1>3. Levels(h, N, level)
  BY <1>1, LevelsExist
<1> HIDE DEF level
<1>4. /\ DOMAIN level = 1 .. N
      /\ \A n \in 1 .. N : level[n] = Below(h, IF n = 1 THEN {RootCell} ELSE level[n - 1])
  BY <1>3 DEF Levels
<1>5. RootCell \in StableKeys(h)
  BY CellsFacts DEF RootIsKey, StableKeys
<1> DEFINE T == {n \in 1 .. N : ~(level[n] \subseteq StableKeys(h))}
<1>6. T = {}
  <2> SUFFICES ASSUME T # {} PROVE FALSE
    OBVIOUS
  <2> DEFINE m == Min(T)
  <2>1. m \in T /\ \A n \in T : m <= n
    <3>1. T \in SUBSET Nat
      BY <1>1
    <3> HIDE DEF T
    <3> QED  BY <3>1, MinFacts
  <2> HIDE DEF m
  <2>2. m \in 1 .. N /\ ~(level[m] \subseteq StableKeys(h))
    BY <2>1
  <2> DEFINE cs == IF m = 1 THEN {RootCell} ELSE level[m - 1]
  <2>3. cs \in SUBSET StableKeys(h)
    <3>1. CASE m = 1
      BY <1>5, <3>1
    <3>2. CASE m # 1
      <4>1. m - 1 \in 1 .. N /\ m - 1 \notin T
        BY <1>1, <2>1, <2>2, <3>2
      <4> QED  BY <3>2, <4>1
    <3> QED  BY <3>1, <3>2
  <2>4. level[m] = Below(h, cs)
    BY <1>4, <2>2
  <2> HIDE DEF cs
  <2> QED  BY <2>2, <2>3, <2>4, BelowIsKeys
<1>7. \A n \in 1 .. N : level[n] \subseteq StableKeys(h)
  BY <1>6
<1> QED  BY <1>2, <1>4, <1>5, <1>7

\* A load accepts a hive whose lists are right.
LEMMA ListedIsAccepted ==
  ASSUME NEW h \in Hives, Listed(h), RootIsKey(h), NEW c \in Loadable(h)
  PROVE  CmpValidateKey(h, c)
<1>1. c \in StableCells /\ c \in Cells /\ h.cell[c].kind = "key"
  BY LoadableIsKeys, CellsFacts DEF StableKeys
<1>2. h.cell[c] \in Nodes
  BY <1>1, ContentFacts DEF Hives
<1>3. \A k \in h.cell[c].SubKeys.Stable : k \in Cells /\ h.cell[k].kind = "key" /\ h.cell[k].Parent = c
  BY <1>1, <1>2, CellsFacts DEF Listed, Nodes
<1> QED  BY <1>1, <1>3 DEF CmpValidateKey, Is

\* A file whose keys are in the places of those in memory has their lists.
LEMMA ImageListed ==
  ASSUME NEW h \in Hives, Listed(h), RootIsKey(h), NEW f \in [StableCells -> Contents],
         \A c \in StableCells : Place(f[c]) = Place(h.cell[c])
  PROVE  Listed(HvInitialize(f)) /\ RootIsKey(HvInitialize(f))
<1> DEFINE g == HvInitialize(f)
<1>1. \A c \in StableCells : g.cell[c] = f[c]
  BY ImageFacts
<1> HIDE DEF g
<1>2. \A c \in StableCells : Place(g.cell[c]) = Place(h.cell[c])
  BY <1>1
<1>3. Listed(g)
  BY <1>2, SamePlacesListed
<1>4. g.cell[RootCell].kind = "key"
  BY <1>2, CellsFacts DEF RootIsKey, Place
<1> QED  BY <1>3, <1>4 DEF RootIsKey, g

LEMMA ImageOfListed ==
  ASSUME hive \in Hives, Listed(hive), RootIsKey(hive)
  PROVE  Listed(HvInitialize(ImageOf(hive))) /\ RootIsKey(HvInitialize(ImageOf(hive)))
<1> DEFINE f == ImageOf(hive)
<1>1. f \in [StableCells -> Contents] /\ \A c \in StableCells : f[c] = hive.cell[c]
  BY CellsFacts DEF ImageOf, Hives
<1> HIDE DEF f
<1>2. \A c \in StableCells : Place(f[c]) = Place(hive.cell[c])
  BY <1>1
<1> QED  BY <1>1, <1>2, ImageListed DEF f

LEMMA SyncedListed ==
  ASSUME hive \in Hives, Listed(hive), RootIsKey(hive), FileOK(file), CleanAsIn(hive, file)
  PROVE  Listed(HvInitialize(Synced(hive))) /\ RootIsKey(HvInitialize(Synced(hive)))
<1> DEFINE f == Synced(hive)
<1>1. \A c \in StableCells : f[c] = IF BlockOf[c] \in hive.dirty THEN hive.cell[c] ELSE file[c]
  BY DEF Synced
<1>2. \A c \in StableCells : hive.cell[c] \in Contents /\ file[c] \in Contents
  BY CellsFacts DEF Hives, FileOK
<1>3. f \in [StableCells -> Contents]
  BY <1>2 DEF Synced
<1> HIDE DEF f
<1>4. \A c \in StableCells : Place(f[c]) = Place(hive.cell[c])
  BY <1>1 DEF CleanAsIn
<1> QED  BY <1>3, <1>4, ImageListed DEF f

LEMMA ListedInitially == Init => ListedInv
<1> SUFFICES ASSUME Init PROVE ListedInv
  OBVIOUS
<1>1. hive = EmptyHive
  BY DEF Init
<1>2. file # None => Listed(HvInitialize(file)) /\ RootIsKey(HvInitialize(file))
  BY ForeignFileFacts DEF Init
<1> QED  BY <1>1, <1>2, EmptyFacts DEF ListedInv

LEMMA ListedKept == KeysInv /\ ListedInv /\ [Next]_vars => ListedInv'
<1> SUFFICES ASSUME KeysInv, ListedInv, [Next]_vars PROVE ListedInv'
  OBVIOUS
<1>0. hive \in Hives /\ Listed(hive)
  BY DEF KeysInv, ListedInv
<1>1. CASE InitializeLoads
  <2>1. file' = file /\ file # None
    BY <1>1 DEF InitializeLoads
  <2>2. FileOK(file) /\ Listed(HvInitialize(file)) /\ RootIsKey(HvInitialize(file))
    BY <2>1 DEF KeysInv, ListedInv
  <2>3. Listed(hive')
    BY <1>1, <2>2, LoadKept DEF KeptAll
  <2> QED  BY <2>1, <2>2, <2>3 DEF ListedInv
<1>2. CASE InitializeFails
  <2>1. file' = file /\ hive' = Connected
    BY <1>2 DEF InitializeFails
  <2> QED  BY <2>1, ConnectedFacts DEF ListedInv
<1>3. CASE InitializeFromInf
  <2>1. file' = file
    BY <1>3 DEF InitializeFromInf
  <2>2. Listed(hive')
    BY <1>3, MemoryKept, ConnectedFacts DEF KeptAll
  <2> QED  BY <2>1, <2>2 DEF ListedInv
<1>4. CASE SaveRegistryIntoHive
  <2>1. hive' = hive /\ file' = ImageOf(hive)
    BY <1>4 DEF SaveRegistryIntoHive, ImageOf
  <2>2. Listed(HvInitialize(ImageOf(hive))) /\ RootIsKey(HvInitialize(ImageOf(hive)))
    <3>1. RootIsKey(hive)
      BY <1>4 DEF SaveRegistryIntoHive, KeysInv
    <3> QED  BY <1>0, <3>1, ImageOfListed
  <2> QED  BY <1>0, <2>1, <2>2 DEF ListedInv
<1>5. CASE RegShutdownRegistry
  <2>1. hive' = EmptyHive
    BY <1>5 DEF RegShutdownRegistry
  <2>2. file' # None => Listed(HvInitialize(file')) /\ RootIsKey(HvInitialize(file'))
    <3>1. CASE handle = "open"
      <4>1. phase = "loaded" /\ file' = Synced(hive)
        BY <1>5, <3>1 DEF RegShutdownRegistry, KeysInv, Up
      <4>2. RootIsKey(hive) /\ FileOK(file) /\ CleanAsIn(hive, file)
        BY <3>1, <4>1 DEF KeysInv, Up
      <4> QED  BY <1>0, <4>1, <4>2, SyncedListed
    <3>2. CASE handle # "open"
      BY <1>5, <3>2 DEF RegShutdownRegistry, ListedInv
    <3> QED  BY <3>1, <3>2
  <2> QED  BY <2>1, <2>2, EmptyFacts DEF ListedInv
<1>6. CASE Exit
  <2>1. hive' = EmptyHive /\ file' = file
    BY <1>6 DEF Exit, Ended
  <2> QED  BY <2>1, EmptyFacts DEF ListedInv
<1>7. ASSUME NEW start \in Starts, NEW path \in PathsFrom(start),
             NEW type \in {"Stable", "Volatile"}, NEW fails \in BOOLEAN,
             NTRegCreateKeyExW(start, path, type, fails)
      PROVE  ListedInv'
  <2>1. file' = file
    BY <1>7 DEF NTRegCreateKeyExW
  <2>2. Listed(hive')
    BY <1>0, <1>7, CreateStepKept DEF KeptAll
  <2> QED  BY <2>1, <2>2 DEF ListedInv
<1>8. ASSUME NEW start \in Starts, NEW path \in PathsFrom(start), NTRegDeleteKeyW(start, path)
      PROVE  ListedInv'
  <2>1. file' = file
    BY <1>8 DEF NTRegDeleteKeyW
  <2>2. Listed(hive')
    BY <1>0, <1>8, DeleteStepKept DEF KeptAll
  <2> QED  BY <2>1, <2>2 DEF ListedInv
<1>9. CASE UNCHANGED <<hive, file>>
  BY <1>9 DEF ListedInv
<1>10. ASSUME NEW start \in Starts, NEW path \in PathsFrom(start), NTRegOpenKeyW(start, path)
       PROVE  ListedInv'
  BY <1>9, <1>10 DEF NTRegOpenKeyW
<1>11. CASE NTRegCloseKey
  BY <1>9, <1>11 DEF NTRegCloseKey
<1>12. CASE UNCHANGED vars
  BY <1>9, <1>12 DEF vars
<1> QED  BY <1>1, <1>2, <1>3, <1>4, <1>5, <1>6, <1>7, <1>8, <1>10, <1>11, <1>12 DEF Next

(***************************************************************************)
(* What a session leaves in the file, by a flush of only some blocks, by   *)
(* an export or by its end without either, the check of the next one       *)
(* accepts: all that is listed from the root down are keys that name as    *)
(* their parent the key that lists them.                                   *)
(***************************************************************************)
THEOREM SavesAccepted == Spec => []SavedIsAccepted
<1>1. Init => ListedInv
  BY ListedInitially
<1>2. KeysInv /\ ListedInv /\ [Next]_vars => ListedInv'
  BY ListedKept
<1>3. KeysInv /\ ListedInv => SavedIsAccepted
  <2> SUFFICES ASSUME KeysInv, ListedInv, file # None,
                      NEW c \in Loadable(HvInitialize(file))
               PROVE  CmpValidateKey(HvInitialize(file), c)
    BY DEF SavedIsAccepted
  <2>1. HvInitialize(file) \in Hives
    BY ImageFacts DEF KeysInv, FileOK
  <2>2. Listed(HvInitialize(file)) /\ RootIsKey(HvInitialize(file))
    BY DEF ListedInv
  <2> QED  BY <2>1, <2>2, ListedIsAccepted
<1> QED  BY <1>1, <1>2, <1>3, KeysInvariant, PTL DEF Spec

-----------------------------------------------------------------------------
(* Levels of a tree *)

\* L gives levels of cells, each below the one before: the parent of a cell, which
\* par gives, is one level up.  The root has no parent.
Layered(K, root, par, N, L) ==
  /\ DOMAIN L = 0 .. N /\ L[0] = {root} /\ root \in K /\ par[root] \notin K
  /\ \A n \in 0 .. N : L[n] \subseteq K
  /\ \A n \in 0 .. N - 1 : \A c \in L[n + 1] : par[c] \in L[n]

LEMMA OneLevel ==
  ASSUME NEW K, NEW root, NEW par, NEW N \in Nat, NEW L, Layered(K, root, par, N, L)
  PROVE  \A m, n \in 0 .. N : \A c \in L[m] : c \in L[n] => m = n
<1> DEFINE T == {i \in 0 .. N : \E j \in 0 .. N : i # j /\ \E d \in L[i] : d \in L[j]}
<1>1. ASSUME NEW j \in 0 .. N, j # 0, root \in L[j] PROVE FALSE
  <2>1. j - 1 \in 0 .. N - 1 /\ j - 1 \in 0 .. N /\ (j - 1) + 1 = j
    BY <1>1
  <2>2. par[root] \in L[j - 1]
    BY <1>1, <2>1 DEF Layered
  <2> QED  BY <2>1, <2>2 DEF Layered
<1>2. ASSUME T # {} PROVE FALSE
  <2> DEFINE i == Min(T)
  <2>1. i \in T /\ \A x \in T : i <= x
    <3>1. T \in SUBSET Nat
      OBVIOUS
    <3> HIDE DEF T
    <3> QED  BY <3>1, <1>2, MinFacts
  <2> HIDE DEF i
  <2>2. PICK j \in 0 .. N : i # j /\ \E d \in L[i] : d \in L[j]
    BY <2>1
  <2>3. PICK d \in L[i] : d \in L[j]
    BY <2>2
  <2>4. i \in 0 .. N
    BY <2>1
  <2>5. i # 0
    BY <1>1, <2>2, <2>3 DEF Layered
  <2>6. j # 0
    BY <1>1, <2>3, <2>4, <2>5 DEF Layered
  <2>7. /\ i - 1 \in 0 .. N - 1 /\ (i - 1) + 1 = i /\ i - 1 \in 0 .. N
        /\ j - 1 \in 0 .. N - 1 /\ (j - 1) + 1 = j /\ j - 1 \in 0 .. N
        /\ i - 1 # j - 1 /\ ~(i <= i - 1)
    BY <2>2, <2>4, <2>5, <2>6
  <2>8. par[d] \in L[i - 1] /\ par[d] \in L[j - 1]
    BY <2>3, <2>7 DEF Layered
  <2>9. i - 1 \in T
    BY <2>7, <2>8
  <2> QED  BY <2>1, <2>7, <2>9
<1>3. T = {}
  BY <1>2
<1> QED  BY <1>3

\* A cell of level n has n others above it.
LEMMA LevelsAreFew ==
  ASSUME NEW K, IsFiniteSet(K), NEW root, NEW par, NEW N \in Nat, NEW L,
         Layered(K, root, par, N, L), NEW n \in 0 .. N, NEW c \in L[n]
  PROVE  n < Cardinality(K)
<1>0. \A a, b \in 0 .. N : \A e \in L[a] : e \in L[b] => a = b
  BY OneLevel
<1> DEFINE Above(i, d, S) == /\ S \in SUBSET K /\ IsFiniteSet(S) /\ Cardinality(S) = i + 1 /\ d \in S
                             /\ \A e \in S : \E j \in 0 .. i : e \in L[j]
           T == {i \in 0 .. N : \E d \in L[i] : ~\E S : Above(i, d, S)}
<1>1. ASSUME T # {} PROVE FALSE
  <2> DEFINE i == Min(T)
  <2>1. i \in T /\ \A x \in T : i <= x
    <3>1. T \in SUBSET Nat
      OBVIOUS
    <3> HIDE DEF T
    <3> QED  BY <3>1, <1>1, MinFacts
  <2> HIDE DEF i
  <2>2. i \in 0 .. N
    BY <2>1
  <2>3. PICK d \in L[i] : ~\E S : Above(i, d, S)
    BY <2>1
  <2>4. CASE i = 0
    <3>1. d = root /\ root \in K /\ root \in L[0]
      BY <2>3, <2>4 DEF Layered
    <3>2. IsFiniteSet({root}) /\ Cardinality({root}) = 1
      BY FS_Singleton
    <3>3. Above(0, d, {root})
      BY <3>1, <3>2
    <3> HIDE DEF Above
    <3> QED  BY <2>3, <2>4, <3>3
  <2>5. CASE i # 0
    <3>1. /\ i - 1 \in 0 .. N - 1 /\ (i - 1) + 1 = i /\ i - 1 \in 0 .. N /\ ~(i <= i - 1)
          /\ \A j \in 0 .. i - 1 : j \in 0 .. i /\ j \in 0 .. N /\ j # i
          /\ i \in 0 .. i
      BY <2>2, <2>5
    <3>2. par[d] \in L[i - 1]
      BY <2>3, <3>1 DEF Layered
    <3>3. i - 1 \notin T
      BY <2>1, <3>1
    <3>4. PICK S : Above(i - 1, par[d], S)
      BY <3>1, <3>2, <3>3
    <3>5. /\ S \in SUBSET K /\ IsFiniteSet(S) /\ Cardinality(S) = i
          /\ \A e \in S : \E j \in 0 .. i - 1 : e \in L[j]
      BY <3>1, <3>4
    <3>6. d \notin S
      <4> SUFFICES ASSUME d \in S PROVE FALSE
        OBVIOUS
      <4>1. PICK j \in 0 .. i - 1 : d \in L[j]
        BY <3>5
      <4>2. j \in 0 .. N /\ j # i
        BY <3>1
      <4>3. i = j
        BY <1>0, <2>2, <2>3, <4>1, <4>2
      <4> QED  BY <4>2, <4>3
    <3>7. d \in K
      BY <2>2, <2>3 DEF Layered
    <3>8. IsFiniteSet(S \cup {d}) /\ Cardinality(S \cup {d}) = i + 1
      BY <3>5, <3>6, FS_AddElement
    <3>9. \A e \in S \cup {d} : \E j \in 0 .. i : e \in L[j]
      BY <2>3, <3>1, <3>5
    <3>10. Above(i, d, S \cup {d})
      BY <3>5, <3>7, <3>8, <3>9
    <3> HIDE DEF Above
    <3> QED  BY <2>3, <3>10
  <2> QED  BY <2>4, <2>5
<1>2. T = {}
  BY <1>1
<1>3. PICK S : Above(n, c, S)
  BY <1>2
<1>4. S \in SUBSET K /\ Cardinality(S) = n + 1
  BY <1>3
<1>5. Cardinality(S) <= Cardinality(K) /\ Cardinality(K) \in Nat
  BY <1>4, FS_Subset, FS_CardinalityType
<1> QED  BY <1>4, <1>5

-----------------------------------------------------------------------------
(* The tree of the keys that paths lead to *)

Place0 == [cell |-> RootCell, path |-> << >>]

\* The keys one name further down than p.
ChildrenOf(h, p) ==
  {[cell |-> k, path |-> Append(p.path, h.cell[k].Name)] :
     k \in {c \in SubKeysOf(h, p.cell) : Is(h, c, "key")}}

\* The function f gives the keys at each of the depths 0 to N.
Depths(h, N, f) ==
  f = [n \in 0 .. N |-> IF n = 0 THEN {Place0} ELSE UNION {ChildrenOf(h, p) : p \in f[n - 1]}]

LEMMA DepthsExist ==
  ASSUME NEW h, NEW N \in Nat
  PROVE  \E f : Depths(h, N, f)
<1> DEFINE T == {M \in Nat : ~\E f : Depths(h, M, f)}
<1> SUFFICES ASSUME T # {} PROVE FALSE
  OBVIOUS
<1> DEFINE M == Min(T)
<1>1. M \in T /\ \A n \in T : M <= n
  <2>1. T \in SUBSET Nat
    OBVIOUS
  <2> HIDE DEF T
  <2> QED  BY <2>1, MinFacts
<1> HIDE DEF M
<1>2. M \in Nat /\ ~\E f : Depths(h, M, f)
  BY <1>1
<1>3. CASE M = 0
  <2> DEFINE f == [n \in 0 .. 0 |-> {Place0}]
  <2>1. \A n \in 0 .. 0 : f[n] = IF n = 0 THEN {Place0} ELSE UNION {ChildrenOf(h, p) : p \in f[n - 1]}
    OBVIOUS
  <2>2. f = [n \in 0 .. 0 |-> f[n]]
    OBVIOUS
  <2> HIDE DEF f
  <2>3. Depths(h, 0, f)
    BY <2>1, <2>2 DEF Depths
  <2> QED  BY <1>2, <1>3, <2>3
<1>4. CASE M # 0
  <2>1. M - 1 \in Nat /\ M - 1 \notin T
    BY <1>1, <1>2, <1>4
  <2>2. PICK g : Depths(h, M - 1, g)
    BY <2>1
  <2> DEFINE Next0(x) == UNION {ChildrenOf(h, p) : p \in x}
             f == [n \in 0 .. M |-> IF n = M THEN Next0(g[M - 1]) ELSE g[n]]
  <2>0. \A n \in 0 .. M - 1 : g[n] = IF n = 0 THEN {Place0} ELSE Next0(g[n - 1])
    BY <2>2 DEF Depths
  <2> HIDE DEF Next0
  <2>3. ASSUME NEW n \in 0 .. M
        PROVE  f[n] = IF n = 0 THEN {Place0} ELSE Next0(f[n - 1])
    <3>1. CASE n = M
      <4>1. n # 0 /\ n - 1 \in 0 .. M /\ n - 1 # M
        BY <1>2, <1>4, <3>1
      <4>2. f[n - 1] = g[M - 1]
        BY <3>1, <4>1
      <4> QED  BY <3>1, <4>1, <4>2
    <3>2. CASE n # M
      <4>1. n \in 0 .. M - 1
        BY <1>2, <3>2
      <4>2. f[n] = g[n]
        BY <3>2
      <4>3. g[n] = IF n = 0 THEN {Place0} ELSE Next0(g[n - 1])
        BY <2>0, <4>1
      <4>4. n # 0 => f[n - 1] = g[n - 1]
        BY <1>2, <4>1
      <4> HIDE DEF f
      <4> QED  BY <4>2, <4>3, <4>4
    <3> QED  BY <3>1, <3>2
  <2>4. f = [n \in 0 .. M |-> f[n]]
    OBVIOUS
  <2> HIDE DEF f
  <2>5. Depths(h, M, f)
    BY <2>3, <2>4 DEF Depths, Next0
  <2> QED  BY <1>2, <2>5
<1> QED  BY <1>3, <1>4

\* The levels of the tree of h.
LEMMA TreeLevels ==
  ASSUME NEW h
  PROVE  \E f : LET N == Cardinality(KeyCellsOf(h)) IN
           /\ N \in Nat /\ DOMAIN f = 0 .. N
           /\ f[0] = {Place0}
           /\ \A n \in 0 .. N : n # 0 => f[n] = UNION {ChildrenOf(h, p) : p \in f[n - 1]}
           /\ Tree(h) = UNION {f[n] : n \in 0 .. N}
<1> DEFINE N == Cardinality(KeyCellsOf(h))
           level == CHOOSE f : Depths(h, N, f)
<1>1. N \in Nat
  <2>1. KeyCellsOf(h) \subseteq Cells
    BY DEF KeyCellsOf
  <2> QED  BY <2>1, CellsFacts, FS_Subset, FS_CardinalityType
<1>2. Tree(h) = UNION {level[n] : n \in DOMAIN level}
  BY DEF Tree, Depths, ChildrenOf, Place0
<1> HIDE DEF N
<1>3. Depths(h, N, level)
  BY <1>1, DepthsExist
<1> HIDE DEF level
<1>4. /\ DOMAIN level = 0 .. N
      /\ \A n \in 0 .. N : level[n] = IF n = 0 THEN {Place0} ELSE UNION {ChildrenOf(h, p) : p \in level[n - 1]}
  BY <1>3 DEF Depths
<1>5. 0 \in 0 .. N
  BY <1>1
<1> QED  BY <1>1, <1>2, <1>4, <1>5 DEF N

\* A set of keys and paths that has the root, and with a key its subkeys.
Closed(h, X) == Place0 \in X /\ \A p \in X : ChildrenOf(h, p) \subseteq X

\* The tree is the least such set.
LEMMA TreeLeast ==
  ASSUME NEW h, NEW X, Closed(h, X)
  PROVE  Tree(h) \subseteq X
<1> DEFINE N == Cardinality(KeyCellsOf(h))
<1>1. PICK f : /\ N \in Nat /\ DOMAIN f = 0 .. N
               /\ f[0] = {Place0}
               /\ \A n \in 0 .. N : n # 0 => f[n] = UNION {ChildrenOf(h, p) : p \in f[n - 1]}
               /\ Tree(h) = UNION {f[n] : n \in 0 .. N}
  BY TreeLevels
<1> HIDE DEF N
<1> DEFINE T == {n \in 0 .. N : ~(f[n] \subseteq X)}
<1>2. ASSUME T # {} PROVE FALSE
  <2> DEFINE m == Min(T)
  <2>1. m \in T /\ \A n \in T : m <= n
    <3>1. T \in SUBSET Nat
      BY <1>1
    <3> HIDE DEF T
    <3> QED  BY <3>1, <1>2, MinFacts
  <2> HIDE DEF m
  <2>2. m \in 0 .. N /\ ~(f[m] \subseteq X)
    BY <2>1
  <2>3. m # 0
    BY <1>1, <2>2 DEF Closed
  <2>4. m - 1 \in 0 .. N /\ ~(m <= m - 1)
    BY <1>1, <2>2, <2>3
  <2>5. f[m - 1] \subseteq X
    BY <2>1, <2>4
  <2>6. f[m] = UNION {ChildrenOf(h, p) : p \in f[m - 1]}
    BY <1>1, <2>2, <2>3
  <2>7. f[m] \subseteq X
    BY <2>5, <2>6 DEF Closed
  <2> QED  BY <2>2, <2>7
<1>3. \A n \in 0 .. N : f[n] \subseteq X
  BY <1>2
<1> QED  BY <1>1, <1>3

LEMMA RootInTree == \A h : Place0 \in Tree(h)
<1> SUFFICES ASSUME NEW h PROVE Place0 \in Tree(h)
  OBVIOUS
<1> DEFINE N == Cardinality(KeyCellsOf(h))
<1>1. PICK f : /\ N \in Nat /\ DOMAIN f = 0 .. N
               /\ f[0] = {Place0}
               /\ \A n \in 0 .. N : n # 0 => f[n] = UNION {ChildrenOf(h, p) : p \in f[n - 1]}
               /\ Tree(h) = UNION {f[n] : n \in 0 .. N}
  BY TreeLevels
<1> HIDE DEF N
<1>2. 0 \in 0 .. N
  BY <1>1
<1> QED  BY <1>1, <1>2

\* Each key of the tree but the root is the subkey of another.
LEMMA TreeParent ==
  ASSUME NEW h, NEW x \in Tree(h), x # Place0
  PROVE  \E p \in Tree(h) : x \in ChildrenOf(h, p)
<1> DEFINE N == Cardinality(KeyCellsOf(h))
<1>1. PICK f : /\ N \in Nat /\ DOMAIN f = 0 .. N
               /\ f[0] = {Place0}
               /\ \A n \in 0 .. N : n # 0 => f[n] = UNION {ChildrenOf(h, p) : p \in f[n - 1]}
               /\ Tree(h) = UNION {f[n] : n \in 0 .. N}
  BY TreeLevels
<1> HIDE DEF N
<1>2. PICK n \in 0 .. N : x \in f[n]
  BY <1>1
<1>3. n # 0
  BY <1>1, <1>2
<1>4. n - 1 \in 0 .. N
  BY <1>1, <1>3
<1>5. PICK p \in f[n - 1] : x \in ChildrenOf(h, p)
  BY <1>1, <1>2, <1>3
<1>6. p \in Tree(h)
  BY <1>1, <1>4, <1>5
<1> QED  BY <1>5, <1>6

LEMMA TreeKeys ==
  ASSUME NEW h, RootIsKey(h), NEW x \in Tree(h)
  PROVE  /\ x = [cell |-> x.cell, path |-> x.path]
         /\ x.cell \in Cells /\ h.cell[x.cell].kind = "key"
<1> DEFINE X == {y \in Tree(h) : /\ y = [cell |-> y.cell, path |-> y.path]
                                 /\ y.cell \in Cells /\ h.cell[y.cell].kind = "key"}
<1>1. CASE x = Place0
  BY <1>1, CellsFacts DEF Place0, RootIsKey
<1>2. CASE x # Place0
  <2>1. PICK p \in Tree(h) : x \in ChildrenOf(h, p)
    BY <1>2, TreeParent
  <2>2. PICK k \in SubKeysOf(h, p.cell) : /\ Is(h, k, "key")
                                         /\ x = [cell |-> k, path |-> Append(p.path, h.cell[k].Name)]
    BY <2>1 DEF ChildrenOf
  <2> QED  BY <2>2 DEF Is
<1> QED  BY <1>1, <1>2

(***************************************************************************)
(* The keys that paths lead to hang together: each names as its parent the *)
(* key that lists it, and no key lists the root.                           *)
(***************************************************************************)
Rooted(h) ==
  /\ RootIsKey(h) /\ h.cell[RootCell].Parent = HCELL_NIL
  /\ \A p \in Tree(h) : \A c \in SubKeysOf(h, p.cell) :
       Is(h, c, "key") => h.cell[c].Parent = p.cell

\* What the levels of such a tree are.
LEMMA RootedLevels ==
  ASSUME NEW h, Rooted(h)
  PROVE  \E f : LET N == Cardinality(KeyCellsOf(h))
                    K == KeyCellsOf(h) IN
           /\ N \in Nat
           /\ f[0] = {Place0}
           /\ \A n \in 0 .. N : n # 0 => f[n] = UNION {ChildrenOf(h, p) : p \in f[n - 1]}
           /\ Tree(h) = UNION {f[n] : n \in 0 .. N}
           /\ Layered(K, RootCell, [c \in K |-> h.cell[c].Parent], N,
                      [n \in 0 .. N |-> {x.cell : x \in f[n]}])
<1> DEFINE K == KeyCellsOf(h)
           N == Cardinality(K)
<1>1. PICK f : /\ N \in Nat /\ DOMAIN f = 0 .. N
               /\ f[0] = {Place0}
               /\ \A n \in 0 .. N : n # 0 => f[n] = UNION {ChildrenOf(h, p) : p \in f[n - 1]}
               /\ Tree(h) = UNION {f[n] : n \in 0 .. N}
  BY TreeLevels
<1> HIDE DEF N
<1> DEFINE par == [c \in K |-> h.cell[c].Parent]
           L == [n \in 0 .. N |-> {x.cell : x \in f[n]}]
<1>2. \A c : c \in K <=> c \in Cells /\ h.cell[c].kind = "key"
  BY DEF KeyCellsOf
<1>3. RootCell \in K /\ HCELL_NIL \notin K
  BY <1>2, CellsFacts DEF Rooted, RootIsKey
<1> HIDE DEF K
<1>4. par[RootCell] \notin K
  BY <1>3 DEF Rooted
<1>5. 0 \in 0 .. N /\ L[0] = {RootCell}
  <2>1. 0 \in 0 .. N
    BY <1>1
  <2>2. Place0.cell = RootCell
    BY DEF Place0
  <2> QED  BY <1>1, <2>1, <2>2
<1>6. ASSUME NEW n \in 0 .. N PROVE L[n] \subseteq K
  <2>1. ASSUME NEW x \in f[n] PROVE x.cell \in K
    <3>1. x \in Tree(h)
      BY <1>1, <2>1
    <3> QED  BY <3>1, <1>2, TreeKeys DEF Rooted
  <2> QED  BY <2>1
<1>7. ASSUME NEW n \in 0 .. N - 1, NEW c \in L[n + 1] PROVE par[c] \in L[n]
  <2>1. n \in 0 .. N /\ n + 1 \in 0 .. N /\ n + 1 # 0 /\ (n + 1) - 1 = n
    BY <1>1
  <2>2. PICK x \in f[n + 1] : c = x.cell
    BY <1>7, <2>1
  <2>3. PICK p \in f[n] : x \in ChildrenOf(h, p)
    BY <1>1, <2>1, <2>2
  <2>4. p \in Tree(h)
    BY <1>1, <2>1
  <2>5. PICK k \in SubKeysOf(h, p.cell) : /\ Is(h, k, "key")
                                         /\ x = [cell |-> k, path |-> Append(p.path, h.cell[k].Name)]
    BY <2>3 DEF ChildrenOf
  <2>6. c = k /\ k \in K
    BY <2>2, <2>5, <1>2 DEF Is
  <2>7. h.cell[k].Parent = p.cell
    BY <2>4, <2>5 DEF Rooted
  <2>8. par[c] = p.cell
    BY <2>6, <2>7
  <2>9. L[n] = {y.cell : y \in f[n]}
    BY <2>1
  <2> HIDE DEF L, par
  <2>10. p.cell \in L[n]
    BY <2>3, <2>9
  <2> QED  BY <2>8, <2>10
<1>8. Layered(K, RootCell, par, N, L)
  <2>1. DOMAIN L = 0 .. N
    OBVIOUS
  <2> HIDE DEF L, par
  <2> QED  BY <2>1, <1>3, <1>4, <1>5, <1>6, <1>7 DEF Layered
<1> QED  BY <1>1, <1>8 DEF N, K

LEMMA KeysAreFinite == \A h : IsFiniteSet(KeyCellsOf(h))
  BY CellsFacts, FS_Subset DEF KeyCellsOf

\* It is deep enough for all keys.
LEMMA RootedClosed ==
  ASSUME NEW h, Rooted(h)
  PROVE  Closed(h, Tree(h))
<1> DEFINE K == KeyCellsOf(h)
           N == Cardinality(K)
           par == [c \in K |-> h.cell[c].Parent]
           L(f) == [n \in 0 .. N |-> {x.cell : x \in f[n]}]
<1>1. PICK f : /\ N \in Nat
               /\ f[0] = {Place0}
               /\ \A n \in 0 .. N : n # 0 => f[n] = UNION {ChildrenOf(h, p) : p \in f[n - 1]}
               /\ Tree(h) = UNION {f[n] : n \in 0 .. N}
               /\ Layered(K, RootCell, par, N, L(f))
  BY RootedLevels
<1>2. IsFiniteSet(K)
  BY KeysAreFinite
<1> HIDE DEF K, par
<1>3. ASSUME NEW p \in Tree(h) PROVE ChildrenOf(h, p) \subseteq Tree(h)
  <2>1. PICK n \in 0 .. N : p \in f[n]
    BY <1>1
  <2>2. p.cell \in L(f)[n]
    BY <2>1
  <2> DEFINE M == L(f)
  <2>3. Layered(K, RootCell, par, N, M) /\ p.cell \in M[n] /\ N \in Nat
    BY <1>1, <2>2
  <2> HIDE DEF M
  <2>4. n < N
    BY <2>3, <1>2, LevelsAreFew
  <2>5. n + 1 \in 0 .. N /\ n + 1 # 0 /\ (n + 1) - 1 = n
    BY <1>1, <2>1, <2>4
  <2> HIDE DEF N
  <2>6. f[n + 1] = UNION {ChildrenOf(h, q) : q \in f[n]}
    BY <1>1, <2>5
  <2>7. ChildrenOf(h, p) \subseteq f[n + 1]
    BY <2>1, <2>6
  <2> QED  BY <1>1, <2>5, <2>7
<1> QED  BY <1>3, RootInTree DEF Closed

\* One path leads to a key.
LEMMA RootedOnePath ==
  ASSUME NEW h, Rooted(h), NEW x \in Tree(h), NEW y \in Tree(h), x.cell = y.cell
  PROVE  x = y
<1> DEFINE K == KeyCellsOf(h)
           N == Cardinality(K)
           par == [c \in K |-> h.cell[c].Parent]
           L(f) == [n \in 0 .. N |-> {z.cell : z \in f[n]}]
<1>1. PICK f : /\ N \in Nat
               /\ f[0] = {Place0}
               /\ \A n \in 0 .. N : n # 0 => f[n] = UNION {ChildrenOf(h, p) : p \in f[n - 1]}
               /\ Tree(h) = UNION {f[n] : n \in 0 .. N}
               /\ Layered(K, RootCell, par, N, L(f))
  BY RootedLevels
<1> HIDE DEF K, par
<1> HIDE DEF N
<1> DEFINE T == {n \in 0 .. N : \E u \in f[n] : \E v \in f[n] : u.cell = v.cell /\ u # v}
<1>2. ASSUME T # {} PROVE FALSE
  <2> DEFINE m == Min(T)
  <2>1. m \in T /\ \A n \in T : m <= n
    <3>1. T \in SUBSET Nat
      BY <1>1
    <3> HIDE DEF T
    <3> QED  BY <3>1, <1>2, MinFacts
  <2> HIDE DEF m
  <2>2. m \in 0 .. N
    BY <2>1
  <2>3. PICK u \in f[m], v \in f[m] : u.cell = v.cell /\ u # v
    BY <2>1
  <2>4. m # 0
    BY <1>1, <2>3
  <2>5. m - 1 \in 0 .. N /\ ~(m <= m - 1)
    BY <1>1, <2>2, <2>4
  <2>6. f[m] = UNION {ChildrenOf(h, p) : p \in f[m - 1]}
    BY <1>1, <2>2, <2>4
  <2>7. PICK p \in f[m - 1] : u \in ChildrenOf(h, p)
    BY <2>3, <2>6
  <2>8. PICK q \in f[m - 1] : v \in ChildrenOf(h, q)
    BY <2>3, <2>6
  <2>9. PICK k \in SubKeysOf(h, p.cell) : /\ Is(h, k, "key")
                                         /\ u = [cell |-> k, path |-> Append(p.path, h.cell[k].Name)]
    BY <2>7 DEF ChildrenOf
  <2>10. PICK l \in SubKeysOf(h, q.cell) : /\ Is(h, l, "key")
                                          /\ v = [cell |-> l, path |-> Append(q.path, h.cell[l].Name)]
    BY <2>8 DEF ChildrenOf
  <2>11. p \in Tree(h) /\ q \in Tree(h)
    BY <1>1, <2>5, <2>7, <2>8
  <2>12. h.cell[k].Parent = p.cell /\ h.cell[l].Parent = q.cell
    BY <2>9, <2>10, <2>11 DEF Rooted
  <2>13. k = l
    BY <2>3, <2>9, <2>10
  <2>14. p.cell = q.cell
    BY <2>12, <2>13
  <2>15. p = q
    BY <2>1, <2>5, <2>7, <2>8, <2>14
  <2>16. u = v
    BY <2>9, <2>10, <2>13, <2>15
  <2> QED  BY <2>3, <2>16
<1>3. PICK n \in 0 .. N : x \in f[n]
  BY <1>1
<1>4. PICK m \in 0 .. N : y \in f[m]
  BY <1>1
<1> DEFINE M == L(f)
<1>5. Layered(K, RootCell, par, N, M) /\ x.cell \in M[n] /\ x.cell \in M[m] /\ N \in Nat
  BY <1>1, <1>3, <1>4
<1> HIDE DEF M
<1>6. n = m
  BY <1>5, OneLevel
<1> QED  BY <1>2, <1>3, <1>4, <1>6

\* In memory all that they list are keys; in a file a volatile key is a cell that is free.
Hanging(h) ==
  Rooted(h) /\ \A p \in Tree(h) : \A c \in SubKeysOf(h, p.cell) : Is(h, c, "key")

LEMMA TreeClosed ==
  ASSUME NEW h, Hanging(h)
  PROVE  Closed(h, Tree(h))
  BY RootedClosed DEF Hanging

LEMMA OnePath ==
  ASSUME NEW h, Hanging(h), NEW x \in Tree(h), NEW y \in Tree(h), x.cell = y.cell
  PROVE  x = y
  BY RootedOnePath DEF Hanging

\* A path leads to the cell.
Reached(h, c) == \E x \in Tree(h) : x.cell = c

\* If there is a key in the cell, it is one that a path leads to.
Loose(h, c) == Is(h, c, "key") => Reached(h, c)

\* All that was reached in h is reached in g, by the same paths.
Extends(h, g) ==
  /\ Hanging(g) /\ Tree(h) \subseteq Tree(g)
  /\ \A c : Loose(h, c) => Loose(g, c)

LEMMA ExtendsTransitive ==
  ASSUME NEW h, NEW g, NEW i, Extends(h, g), Extends(g, i)
  PROVE  Extends(h, i)
  BY DEF Extends

LEMMA ExtendsReflexive ==
  ASSUME NEW h, Hanging(h)
  PROVE  Extends(h, h)
  BY DEF Extends

\* The subkeys of a key of the tree are in it as well.
LEMMA ChildReached ==
  ASSUME NEW h, Hanging(h), NEW p \in Tree(h), NEW k \in SubKeysOf(h, p.cell)
  PROVE  [cell |-> k, path |-> Append(p.path, h.cell[k].Name)] \in Tree(h)
<1>1. Is(h, k, "key")
  BY DEF Hanging, Rooted
<1>2. [cell |-> k, path |-> Append(p.path, h.cell[k].Name)] \in ChildrenOf(h, p)
  BY <1>1 DEF ChildrenOf
<1> QED  BY <1>2, TreeClosed DEF Closed

\* Whatever becomes of the cells that are no keys.
LEMMA SameKeysSameTree ==
  ASSUME NEW h, NEW g, Rooted(h),
         \A d \in Cells :
           /\ g.cell[d].kind = "key" <=> h.cell[d].kind = "key"
           /\ h.cell[d].kind = "key" =>
                /\ g.cell[d].Name = h.cell[d].Name /\ g.cell[d].Parent = h.cell[d].Parent
                /\ SubKeysOf(g, d) = SubKeysOf(h, d)
  PROVE  Rooted(g) /\ Tree(g) = Tree(h) /\ (Hanging(h) => Hanging(g))
<1>1. ASSUME NEW p, p.cell \in Cells, h.cell[p.cell].kind = "key"
      PROVE  ChildrenOf(g, p) = ChildrenOf(h, p)
  <2>1. SubKeysOf(g, p.cell) = SubKeysOf(h, p.cell)
    BY <1>1
  <2>2. \A c : Is(g, c, "key") <=> Is(h, c, "key")
    BY DEF Is
  <2>3. \A c : Is(h, c, "key") => g.cell[c].Name = h.cell[c].Name
    BY DEF Is
  <2> QED  BY <2>1, <2>2, <2>3 DEF ChildrenOf
<1>2. \A p \in Tree(h) : p.cell \in Cells /\ h.cell[p.cell].kind = "key"
  BY TreeKeys DEF Rooted
<1>3. Closed(g, Tree(h))
  BY <1>1, <1>2, RootedClosed DEF Closed
<1>4. Tree(g) \subseteq Tree(h)
  BY <1>3, TreeLeast
<1>5. Rooted(g)
  <2>1. RootIsKey(g) /\ g.cell[RootCell].Parent = HCELL_NIL
    BY CellsFacts DEF Rooted, RootIsKey
  <2>2. ASSUME NEW p \in Tree(g), NEW c \in SubKeysOf(g, p.cell)
        PROVE  Is(g, c, "key") => g.cell[c].Parent = p.cell
    <3>1. p \in Tree(h) /\ c \in SubKeysOf(h, p.cell)
      BY <1>2, <1>4, <2>2
    <3>2. Is(h, c, "key") => h.cell[c].Parent = p.cell
      BY <3>1 DEF Rooted
    <3> QED  BY <3>2 DEF Is
  <2> QED  BY <2>1, <2>2 DEF Rooted
<1>6. Closed(h, Tree(g))
  <2>1. Closed(g, Tree(g))
    BY <1>5, RootedClosed
  <2> QED  BY <1>1, <1>2, <1>4, <2>1 DEF Closed
<1>7. Tree(h) \subseteq Tree(g)
  BY <1>6, TreeLeast
<1>8. ASSUME Hanging(h) PROVE Hanging(g)
  <2>1. \A p \in Tree(g) : \A c \in SubKeysOf(g, p.cell) : Is(g, c, "key")
    BY <1>2, <1>4, <1>8 DEF Hanging, Is
  <2> QED  BY <1>5, <2>1 DEF Hanging
<1> QED  BY <1>4, <1>5, <1>7, <1>8

\* The new key c, without subkeys, is all that is new, but for the list of its parent.
EnteredKey(h, g, parent, name, c) ==
  /\ parent \in Cells /\ h.cell[parent].kind = "key"
  /\ c \in Cells /\ h.cell[c].kind # "key"
  /\ g.cell[c].kind = "key" /\ g.cell[c].Parent = parent /\ g.cell[c].Name = name
  /\ SubKeysOf(g, c) = {}
  /\ \A d \in Cells \ {c} :
       /\ g.cell[d].kind = "key" <=> h.cell[d].kind = "key"
       /\ h.cell[d].kind = "key" =>
            /\ g.cell[d].Name = h.cell[d].Name /\ g.cell[d].Parent = h.cell[d].Parent
            /\ SubKeysOf(g, d) = SubKeysOf(h, d) \cup (IF d = parent THEN {c} ELSE {})

LEMMA EnteredIsEnteredKey ==
  ASSUME NEW h \in Hives, NEW g, NEW parent \in Cells, h.cell[parent].kind = "key",
         NEW name, NEW type \in DOMAIN Storage, NEW c, Entered(h, g, parent, name, type, c)
  PROVE  EnteredKey(h, g, parent, name, c)
<1>1. c \in Cells /\ h.cell[c].kind = "free" /\ c # parent /\ h.cell[parent] \in Nodes
  <2>1. c \in Cells /\ h.cell[c].kind = "free"
    BY StorageFacts DEF Entered, FreeCell
  <2>2. h.cell[parent] \in Nodes
    BY ContentFacts DEF Hives
  <2> QED  BY <2>1, <2>2
<1>2. \A d \in Cells \ {c, parent} :
        /\ g.cell[d].kind = h.cell[d].kind
        /\ h.cell[d].kind # "security" => g.cell[d] = h.cell[d]
  BY CountedIsSame DEF Entered
<1>3. /\ g.cell[parent].kind = "key" /\ g.cell[parent].Parent = h.cell[parent].Parent
      /\ g.cell[parent].Name = h.cell[parent].Name
      /\ SubKeysOf(g, parent) = SubKeysOf(h, parent) \cup {c}
  <2> DEFINE x == h.cell[parent]
             y == [x EXCEPT !.SubKeys[type] = @ \cup {c}]
  <2>1. g.cell[parent] = y
    BY DEF Entered
  <2>2. x \in Nodes
    BY <1>1
  <2> HIDE DEF x
  <2>3. /\ y.kind = "key" /\ y.Parent = x.Parent
        /\ y.SubKeys.Stable \cup y.SubKeys.Volatile =
             x.SubKeys.Stable \cup x.SubKeys.Volatile \cup {c}
    BY <2>2, EnteredParent
  <2>4. y.Name = x.Name
    BY <2>2 DEF Nodes
  <2> HIDE DEF y
  <2> QED  BY <2>1, <2>3, <2>4 DEF SubKeysOf, x
<1>4. g.cell[c].kind = "key" /\ g.cell[c].Parent = parent /\ g.cell[c].Name = name
  BY DEF Entered, CM_KEY_NODE
<1>5. SubKeysOf(g, c) = {}
  BY DEF Entered, CM_KEY_NODE, SubKeysOf
<1>6. ASSUME NEW d \in Cells \ {c}
      PROVE  /\ g.cell[d].kind = "key" <=> h.cell[d].kind = "key"
             /\ h.cell[d].kind = "key" =>
                  /\ g.cell[d].Name = h.cell[d].Name /\ g.cell[d].Parent = h.cell[d].Parent
                  /\ SubKeysOf(g, d) = SubKeysOf(h, d) \cup (IF d = parent THEN {c} ELSE {})
  <2>1. CASE d = parent
    BY <1>3, <2>1
  <2>2. CASE d # parent
    BY <1>2, <2>2 DEF SubKeysOf
  <2> QED  BY <2>1, <2>2
<1> QED  BY <1>1, <1>4, <1>5, <1>6 DEF EnteredKey

\* The tree has one key more, and the rest is where it was.
LEMMA EnteredTree ==
  ASSUME NEW h, NEW g, NEW parent, NEW name, NEW c, EnteredKey(h, g, parent, name, c),
         Hanging(h), NEW q \in Tree(h), q.cell = parent
  PROVE  /\ Hanging(g)
         /\ Tree(g) = Tree(h) \cup {[cell |-> c, path |-> Append(q.path, name)]}
<1> DEFINE new == [cell |-> c, path |-> Append(q.path, name)]
           Y == Tree(h) \cup {new}
<1>1. /\ parent \in Cells /\ h.cell[parent].kind = "key"
      /\ c \in Cells /\ h.cell[c].kind # "key" /\ c # parent /\ SubKeysOf(g, c) = {}
      /\ g.cell[c].kind = "key" /\ g.cell[c].Parent = parent /\ g.cell[c].Name = name
  BY DEF EnteredKey
<1>2. ASSUME NEW d \in Cells, h.cell[d].kind = "key"
      PROVE  /\ d # c /\ g.cell[d].kind = "key"
             /\ g.cell[d].Name = h.cell[d].Name /\ g.cell[d].Parent = h.cell[d].Parent
             /\ SubKeysOf(g, d) = SubKeysOf(h, d) \cup (IF d = parent THEN {c} ELSE {})
  BY <1>1, <1>2 DEF EnteredKey
<1>3. \A p \in Tree(h) : p.cell \in Cells /\ h.cell[p.cell].kind = "key"
  BY TreeKeys DEF Hanging, Rooted
<1>4. \A p \in Tree(h) : \A k \in SubKeysOf(h, p.cell) :
        /\ k \in Cells /\ h.cell[k].kind = "key" /\ h.cell[k].Parent = p.cell
        /\ [cell |-> k, path |-> Append(p.path, h.cell[k].Name)] \in Tree(h)
  BY ChildReached DEF Hanging, Rooted, Is
<1>5. Closed(g, Y)
  <2>1. ASSUME NEW p \in Y, NEW x \in ChildrenOf(g, p)
        PROVE  x \in Y
    <3>1. PICK k \in SubKeysOf(g, p.cell) : x = [cell |-> k, path |-> Append(p.path, g.cell[k].Name)]
      BY <2>1 DEF ChildrenOf
    <3>2. p # new
      BY <1>1, <3>1
    <3>3. p \in Tree(h)
      BY <3>2
    <3>4. CASE k \in SubKeysOf(h, p.cell)
      <4>1. g.cell[k].Name = h.cell[k].Name /\ [cell |-> k, path |-> Append(p.path, h.cell[k].Name)] \in Tree(h)
        BY <1>2, <1>4, <3>3, <3>4
      <4> QED  BY <3>1, <4>1
    <3>5. CASE k \notin SubKeysOf(h, p.cell)
      <4>1. p.cell = parent /\ k = c
        BY <1>2, <1>3, <3>1, <3>3, <3>5
      <4>2. p = q
        BY <3>3, <4>1, OnePath
      <4> QED  BY <1>1, <3>1, <4>1, <4>2
    <3> QED  BY <3>4, <3>5
  <2> HIDE DEF Y
  <2>2. Place0 \in Y
    BY RootInTree DEF Y
  <2> QED  BY <2>1, <2>2 DEF Closed
<1>6. Tree(g) \subseteq Y
  BY <1>5, TreeLeast
<1>7. Hanging(g)
  <2>1. RootIsKey(g) /\ g.cell[RootCell].Parent = HCELL_NIL
    BY <1>2, CellsFacts DEF Hanging, Rooted, RootIsKey
  <2>2. ASSUME NEW p \in Tree(g), NEW k \in SubKeysOf(g, p.cell)
        PROVE  Is(g, k, "key") /\ g.cell[k].Parent = p.cell
    <3>1. p \in Tree(h)
      BY <1>1, <1>6, <2>2
    <3>2. CASE k \in SubKeysOf(h, p.cell)
      BY <1>2, <1>4, <3>1, <3>2 DEF Is
    <3>3. CASE k \notin SubKeysOf(h, p.cell)
      <4>1. p.cell = parent /\ k = c
        BY <1>2, <1>3, <2>2, <3>1, <3>3
      <4> QED  BY <1>1, <4>1 DEF Is
    <3> QED  BY <3>2, <3>3
  <2> QED  BY <2>1, <2>2 DEF Hanging, Rooted
<1>8. Closed(g, Tree(g))
  BY <1>7, TreeClosed
<1>9. Closed(h, Tree(g) \cap Tree(h))
  <2>1. ASSUME NEW p \in Tree(g) \cap Tree(h), NEW x \in ChildrenOf(h, p)
        PROVE  x \in Tree(g) \cap Tree(h)
    <3>1. PICK k \in SubKeysOf(h, p.cell) : Is(h, k, "key") /\ x = [cell |-> k, path |-> Append(p.path, h.cell[k].Name)]
      BY <2>1 DEF ChildrenOf
    <3>2. k \in SubKeysOf(g, p.cell)
      BY <1>2, <1>3, <3>1
    <3>3. Is(g, k, "key") /\ g.cell[k].Name = h.cell[k].Name
      BY <1>2, <3>1 DEF Is
    <3>4. x \in ChildrenOf(g, p)
      BY <3>1, <3>2, <3>3 DEF ChildrenOf
    <3>5. x \in Tree(h)
      BY <1>4, <3>1
    <3> QED  BY <3>4, <3>5, <1>8 DEF Closed
  <2> QED  BY <2>1, RootInTree DEF Closed
<1>10. Tree(h) \subseteq Tree(g)
  BY <1>9, TreeLeast
<1>11. new \in Tree(g)
  <2>1. q \in Tree(g)
    BY <1>10
  <2>2. c \in SubKeysOf(g, q.cell)
    BY <1>1, <1>2
  <2> QED  BY <1>1, <1>7, <2>1, <2>2, ChildReached
<1> QED  BY <1>6, <1>7, <1>10, <1>11

\* A key that is entered below one of the tree is in the tree.
LEMMA EnteredExtends ==
  ASSUME NEW h, NEW g, NEW parent, NEW name, NEW c, EnteredKey(h, g, parent, name, c),
         Hanging(h), Reached(h, parent)
  PROVE  Extends(h, g) /\ Reached(g, c)
<1>1. PICK q \in Tree(h) : q.cell = parent
  BY DEF Reached
<1> DEFINE new == [cell |-> c, path |-> Append(q.path, name)]
<1>2. Hanging(g) /\ Tree(g) = Tree(h) \cup {new} /\ new.cell = c
  BY <1>1, EnteredTree
<1> HIDE DEF new
<1>3. Reached(g, c)
  BY <1>2 DEF Reached
<1>4. ASSUME NEW d, Loose(h, d), Is(g, d, "key"), d # c PROVE Reached(g, d)
  <2>1. Is(h, d, "key")
    BY <1>4 DEF Is, EnteredKey
  <2> QED  BY <2>1, <1>2, <1>4 DEF Loose, Reached
<1> QED  BY <1>2, <1>3, <1>4 DEF Extends, Loose

LEMMA AddExtends ==
  ASSUME NEW h \in Hives, Hanging(h), NEW parent, Is(h, parent, "key"), Reached(h, parent),
         NEW name \in Names, NEW type \in DOMAIN Storage, NEW fails \in BOOLEAN
  PROVE  LET r == CmiAddSubKey(h, parent, name, type, fails) IN
         Extends(h, r.hive) /\ Loose(r.hive, r.cell)
<1> DEFINE r == CmiAddSubKey(h, parent, name, type, fails)
<1>0. parent \in Cells /\ h.cell[parent].kind = "key"
  BY DEF Is
<1>1. \/ r.cell = HCELL_NIL /\ r.hive = h
      \/ r.cell = HCELL_NIL /\ NotEntered(h, r.hive, parent)
      \/ Entered(h, r.hive, parent, name, type, r.cell)
  BY <1>0, AddedFacts
<1> HIDE DEF r
<1>2. r.cell = HCELL_NIL => Loose(r.hive, r.cell)
  BY CellsFacts DEF Loose, Is
<1>3. CASE r.cell = HCELL_NIL /\ r.hive = h
  BY <1>2, <1>3, ExtendsReflexive DEF r
<1>4. CASE r.cell = HCELL_NIL /\ NotEntered(h, r.hive, parent)
  <2> DEFINE g == r.hive
  <2>1. \A d \in Cells : /\ g.cell[d].kind = h.cell[d].kind
                         /\ h.cell[d].kind # "security" => g.cell[d] = h.cell[d]
    BY <1>4, CountedIsSame DEF NotEntered
  <2> HIDE DEF g
  <2>2. Hanging(g) /\ Tree(g) = Tree(h)
    <3>1. \A d \in Cells :
           /\ g.cell[d].kind = "key" <=> h.cell[d].kind = "key"
           /\ h.cell[d].kind = "key" =>
                /\ g.cell[d].Name = h.cell[d].Name /\ g.cell[d].Parent = h.cell[d].Parent
                /\ SubKeysOf(g, d) = SubKeysOf(h, d)
      BY <2>1 DEF SubKeysOf
    <3> QED  BY <3>1, SameKeysSameTree DEF Hanging
  <2>3. \A c : Loose(h, c) => Loose(g, c)
    BY <2>1, <2>2 DEF Loose, Is, Reached
  <2> QED  BY <1>2, <1>4, <2>2, <2>3 DEF Extends, r, g
<1>5. CASE Entered(h, r.hive, parent, name, type, r.cell)
  <2>1. EnteredKey(h, r.hive, parent, name, r.cell)
    BY <1>0, <1>5, EnteredIsEnteredKey
  <2>2. Extends(h, r.hive) /\ Reached(r.hive, r.cell)
    BY <2>1, EnteredExtends
  <2> QED  BY <2>2 DEF Loose, r
<1> QED  BY <1>1, <1>3, <1>4, <1>5

\* The subkey that a search finds is one, and has the name.
LEMMA FindFacts ==
  ASSUME NEW h \in Hives, NEW c \in Cells, h.cell[c].kind = "key", NEW name
  PROVE  LET found == CmpFindSubKeyByName(h, c, name) IN
         /\ found # HCELL_NIL => found \in SubKeysOf(h, c) /\ h.cell[found].Name = name
         /\ found = HCELL_NIL => \A k \in SubKeysOf(h, c) : h.cell[k].Name # name
<1> DEFINE first == {k \in h.cell[c].SubKeys.Stable : h.cell[k].Name = name}
           both == {k \in SubKeysOf(h, c) : h.cell[k].Name = name}
           found == CmpFindSubKeyByName(h, c, name)
<1>1. SubKeysOf(h, c) \subseteq Cells
  <2>1. h.cell[c] \in Nodes
    BY ContentFacts DEF Hives
  <2> QED  BY <2>1, CellsFacts DEF Nodes, SubKeysOf
<1>2. first \subseteq both /\ first \in SUBSET Nat /\ both \in SUBSET Nat /\ both \subseteq Cells
  <2>1. first \subseteq both
    BY DEF SubKeysOf
  <2> QED  BY <2>1, <1>1, CellsFacts
<1>3. found = CASE both = {} -> HCELL_NIL [] first # {} -> Min(first) [] OTHER -> Min(both)
  BY DEF CmpFindSubKeyByName
<1>4. \A k \in both : k \in SubKeysOf(h, c) /\ h.cell[k].Name = name
  OBVIOUS
<1>5. both = {} => \A k \in SubKeysOf(h, c) : h.cell[k].Name # name
  OBVIOUS
<1> HIDE DEF found, first, both
<1>6. CASE both = {}
  <2>1. first = {}
    BY <1>2, <1>6
  <2>2. found = HCELL_NIL
    BY <1>3, <1>6, <2>1
  <2> QED  BY <1>5, <1>6, <2>2 DEF found
<1>7. CASE both # {}
  <2>1. first # {} => Min(first) \in first
    BY <1>2, MinFacts
  <2>2. Min(both) \in both
    BY <1>2, <1>7, MinFacts
  <2>3. found = IF first # {} THEN Min(first) ELSE Min(both)
    BY <1>3, <1>7, Zenon
  <2>4. found \in both
    BY <1>2, <2>1, <2>2, <2>3
  <2>5. found # HCELL_NIL
    BY <1>2, <2>4, CellsFacts
  <2> QED  BY <1>4, <2>4, <2>5 DEF found
<1> QED  BY <1>6, <1>7

\* The walk comes from keys of the tree to keys of the tree, along a link as well.
LinkLoose(h) == link # None => "target" \in DOMAIN link /\ Loose(h, link.target)

LEMMA WalkExtends ==
  ASSUME NEW at, At(at), Hanging(at.hive), Loose(at.hive, at.cell), LinkLoose(at.hive),
         NEW name \in Names, NEW type \in DOMAIN Storage, NEW fails \in BOOLEAN
  PROVE  LET r == Walk(at, name, type, fails) IN
         Extends(at.hive, r.hive) /\ Loose(r.hive, r.cell)
<1> DEFINE r == Walk(at, name, type, fails)
           found == CmpFindSubKeyByName(at.hive, at.cell, name)
<1>1. \A x : [at EXCEPT !.cell = x].hive = at.hive /\ [at EXCEPT !.cell = x].cell = x
  BY DEF At
<1>2. CASE ~Is(at.hive, at.cell, "key")
  <2>1. r = [at EXCEPT !.cell = HCELL_NIL]
    BY <1>2 DEF Walk
  <2> HIDE DEF r
  <2>2. Loose(at.hive, HCELL_NIL)
    BY CellsFacts DEF Loose, Is
  <2> QED  BY <2>1, <2>2, <1>1, ExtendsReflexive DEF r
<1>3. CASE Is(at.hive, at.cell, "key") /\ found = HCELL_NIL
  <2>1. r = CmiAddSubKey(at.hive, at.cell, name, type, fails)
    BY <1>3 DEF Walk
  <2>2. at.hive \in Hives /\ Reached(at.hive, at.cell)
    BY <1>3 DEF At, Loose
  <2> HIDE DEF r
  <2> QED  BY <2>1, <2>2, <1>3, AddExtends DEF r
<1>4. CASE Is(at.hive, at.cell, "key") /\ found # HCELL_NIL
  <2>1. r = [at EXCEPT !.cell = Resolved(found)]
    BY <1>4 DEF Walk
  <2> HIDE DEF r
  <2>2. PICK p \in Tree(at.hive) : p.cell = at.cell
    BY <1>4 DEF Loose, Reached
  <2>3. found \in SubKeysOf(at.hive, at.cell)
    BY <1>4, FindFacts DEF Is, At
  <2> HIDE DEF found
  <2>4. Reached(at.hive, found)
    <3>1. [cell |-> found, path |-> Append(p.path, at.hive.cell[found].Name)] \in Tree(at.hive)
      BY <2>2, <2>3, ChildReached
    <3> QED  BY <3>1 DEF Reached
  <2>5. Loose(at.hive, Resolved(found))
    BY <2>4 DEF Loose, LinkLoose, Resolved
  <2> QED  BY <2>1, <2>5, <1>1, ExtendsReflexive DEF r
<1> QED  BY <1>2, <1>3, <1>4

LEMMA CreateExtends ==
  ASSUME NEW h \in Hives, Hanging(h), NEW start, Loose(h, start), LinkLoose(h), NEW path,
         \/ \E n \in Names : path = <<n>>
         \/ \E n, m \in Names : path = <<n, m>>,
         NEW type \in DOMAIN Storage, NEW fails \in BOOLEAN
  PROVE  LET r == RegpCreateKey(h, start, path, type, fails) IN
         At(r) /\ Extends(h, r.hive) /\ Loose(r.hive, r.cell)
<1> DEFINE b == [hive |-> h, cell |-> start]
<1>1. At(b) /\ b.hive = h /\ b.cell = start
  BY DEF At
<1> HIDE DEF b
<1>2. CASE \E n \in Names : path = <<n>>
  <2>1. PICK n \in Names : path = <<n>>
    BY <1>2
  <2>2. RegpCreateKey(h, start, path, type, fails) = Walk(b, n, type, fails)
    BY <2>1, WalkOfOne DEF b
  <2> QED  BY <2>2, <1>1, WalkExtends, WalkKept
<1>3. CASE \E n, m \in Names : path = <<n, m>>
  <2>1. PICK n \in Names, m \in Names : path = <<n, m>>
    BY <1>3
  <2> DEFINE x == Walk(b, n, type, fails)
  <2>2. At(x) /\ Extends(h, x.hive) /\ Loose(x.hive, x.cell)
    BY <1>1, WalkExtends, WalkKept
  <2>3. RegpCreateKey(h, start, path, type, fails) = Walk(x, m, type, fails)
    BY <2>1, WalkOfTwo DEF b
  <2> HIDE DEF x
  <2>4. Hanging(x.hive) /\ LinkLoose(x.hive)
    BY <2>2 DEF Extends, LinkLoose
  <2> DEFINE y == Walk(x, m, type, fails)
  <2>5. At(y) /\ Extends(x.hive, y.hive) /\ Loose(y.hive, y.cell)
    BY <2>2, <2>4, WalkExtends, WalkKept
  <2> HIDE DEF y
  <2>6. Extends(h, y.hive)
    BY <2>2, <2>5, ExtendsTransitive
  <2> QED  BY <2>3, <2>5, <2>6 DEF y
<1> QED  BY <1>2, <1>3

-----------------------------------------------------------------------------
(* Deleting a key of the tree *)

\* The key k is gone, also from the list of its parent, and no other has changed.
DeletedKey(h, g, k) ==
  /\ k \in Cells /\ h.cell[k].kind = "key" /\ g.cell[k].kind # "key"
  /\ \A d \in Cells \ {k} :
       /\ g.cell[d].kind = "key" <=> h.cell[d].kind = "key"
       /\ h.cell[d].kind = "key" =>
            /\ g.cell[d].Name = h.cell[d].Name /\ g.cell[d].Parent = h.cell[d].Parent
            /\ SubKeysOf(g, d) = SubKeysOf(h, d) \ (IF d = h.cell[k].Parent THEN {k} ELSE {})

LEMMA DeletedIsDeletedKey ==
  ASSUME NEW h \in Hives, NEW k \in Cells, h.cell[k].kind = "key"
  PROVE  DeletedKey(h, CmpFreeKeyByCell(h, k), k)
<1> DEFINE p == h.cell[k].Parent
           g == CmpFreeKeyByCell(h, k)
<1>1. PICK i \in Hives :
        /\ h.dirty \cup Blocks({k, p}) \subseteq i.dirty
        /\ \A d \in Cells : i.cell[d] = IF d = p /\ h.cell[d].kind = "key"
                                        THEN Without(h.cell[d], k) ELSE h.cell[d]
        /\ Released(i, g, k)
  BY DeletedFacts
<1> HIDE DEF g
<1>2. g.cell[k].kind # "key"
  BY <1>1 DEF Released, FreeCell
<1>3. \A d \in Cells : h.cell[d].kind = "key" => h.cell[d] \in Nodes
  BY ContentFacts DEF Hives
<1>4. \A d \in Cells : i.cell[d].kind = h.cell[d].kind
  BY <1>1, <1>3, WithoutFacts
<1>5. \A x \in Nodes : Without(x, k).Name = x.Name
  BY DEF Without, Nodes
<1>6. ASSUME NEW d \in Cells \ {k}
      PROVE  /\ g.cell[d].kind = "key" <=> h.cell[d].kind = "key"
             /\ h.cell[d].kind = "key" =>
                  /\ g.cell[d].Name = h.cell[d].Name /\ g.cell[d].Parent = h.cell[d].Parent
                  /\ SubKeysOf(g, d) = SubKeysOf(h, d) \ (IF d = p THEN {k} ELSE {})
  <2>1. /\ i.cell[d].kind # "security" => g.cell[d] = i.cell[d]
        /\ i.cell[d].kind = "security" => g.cell[d].kind # "key"
    BY <1>1, ReleasedKeys
  <2>2. CASE h.cell[d].kind = "key"
    <3>1. g.cell[d] = i.cell[d] /\ g.cell[d].kind = "key"
      BY <1>4, <2>1, <2>2
    <3>2. CASE d = p
      <4>1. g.cell[d] = Without(h.cell[d], k)
        BY <1>1, <2>2, <3>1, <3>2
      <4>2. g.cell[d].Parent = h.cell[d].Parent /\ SubKeysOf(g, d) = SubKeysOf(h, d) \ {k}
        BY <1>3, <2>2, <4>1, WithoutFacts DEF SubKeysOf
      <4>3. g.cell[d].Name = h.cell[d].Name
        BY <1>3, <1>5, <2>2, <4>1
      <4> QED  BY <2>2, <3>1, <3>2, <4>2, <4>3
    <3>3. CASE d # p
      <4>1. g.cell[d] = h.cell[d]
        BY <1>1, <3>1, <3>3
      <4> QED  BY <2>2, <3>3, <4>1 DEF SubKeysOf
    <3> QED  BY <3>2, <3>3
  <2>3. CASE h.cell[d].kind # "key"
    <3>1. g.cell[d].kind # "key"
      BY <1>4, <2>1, <2>3
    <3> QED  BY <2>3, <3>1
  <2> QED  BY <2>2, <2>3
<1> QED  BY <1>2, <1>6 DEF DeletedKey, g

LEMMA DeletedTree ==
  ASSUME NEW h, NEW g, NEW k, DeletedKey(h, g, k), Hanging(h), k # RootCell, SubKeysOf(h, k) = {}
  PROVE  Hanging(g) /\ Tree(g) = {x \in Tree(h) : x.cell # k}
<1> DEFINE Y == {x \in Tree(h) : x.cell # k}
           p == h.cell[k].Parent
<1>1. k \in Cells /\ h.cell[k].kind = "key" /\ g.cell[k].kind # "key"
  BY DEF DeletedKey
<1>2. ASSUME NEW d \in Cells, d # k
      PROVE  /\ g.cell[d].kind = "key" <=> h.cell[d].kind = "key"
             /\ h.cell[d].kind = "key" =>
                  /\ g.cell[d].Name = h.cell[d].Name /\ g.cell[d].Parent = h.cell[d].Parent
                  /\ SubKeysOf(g, d) = SubKeysOf(h, d) \ (IF d = p THEN {k} ELSE {})
  BY <1>2 DEF DeletedKey
<1> HIDE DEF p
<1>3. \A x \in Tree(h) : x.cell \in Cells /\ h.cell[x.cell].kind = "key"
  BY TreeKeys DEF Hanging, Rooted
<1>4. \A x \in Tree(h) : \A c \in SubKeysOf(h, x.cell) :
        /\ c \in Cells /\ h.cell[c].kind = "key" /\ h.cell[c].Parent = x.cell
        /\ [cell |-> c, path |-> Append(x.path, h.cell[c].Name)] \in Tree(h)
  BY ChildReached DEF Hanging, Rooted, Is
<1>5. \A x \in Y : SubKeysOf(g, x.cell) = SubKeysOf(h, x.cell) \ {k}
  <2> SUFFICES ASSUME NEW x \in Y PROVE SubKeysOf(g, x.cell) = SubKeysOf(h, x.cell) \ {k}
    OBVIOUS
  <2>1. k \in SubKeysOf(h, x.cell) => x.cell = p
    BY <1>4 DEF p
  <2> QED  BY <1>2, <1>3, <2>1
<1>6. Place0 \in Y
  BY RootInTree DEF Place0
<1>7. Closed(g, Y)
  <2>1. ASSUME NEW x \in Y, NEW y \in ChildrenOf(g, x)
        PROVE  y \in Y
    <3>1. PICK c \in SubKeysOf(g, x.cell) : y = [cell |-> c, path |-> Append(x.path, g.cell[c].Name)]
      BY <2>1 DEF ChildrenOf
    <3>2. c \in SubKeysOf(h, x.cell) /\ c # k
      BY <1>5, <3>1
    <3>3. c \in Cells /\ h.cell[c].kind = "key"
          /\ [cell |-> c, path |-> Append(x.path, h.cell[c].Name)] \in Tree(h)
      BY <1>4, <3>2
    <3>4. g.cell[c].Name = h.cell[c].Name
      BY <1>2, <3>2, <3>3
    <3> QED  BY <3>1, <3>2, <3>3, <3>4
  <2> HIDE DEF Y
  <2> QED  BY <2>1, <1>6 DEF Closed
<1>8. Tree(g) \subseteq Y
  BY <1>7, TreeLeast
<1>9. Hanging(g)
  <2>1. RootIsKey(g) /\ g.cell[RootCell].Parent = HCELL_NIL
    BY <1>2, CellsFacts DEF Hanging, Rooted, RootIsKey
  <2>2. ASSUME NEW x \in Tree(g), NEW c \in SubKeysOf(g, x.cell)
        PROVE  Is(g, c, "key") /\ g.cell[c].Parent = x.cell
    <3>1. x \in Y
      BY <1>8
    <3>2. c \in SubKeysOf(h, x.cell) /\ c # k
      BY <1>5, <2>2, <3>1
    <3>3. c \in Cells /\ h.cell[c].kind = "key" /\ h.cell[c].Parent = x.cell
      BY <1>4, <3>1, <3>2
    <3> QED  BY <1>2, <3>2, <3>3 DEF Is
  <2> QED  BY <2>1, <2>2 DEF Hanging, Rooted
<1>10. Closed(g, Tree(g))
  BY <1>9, TreeClosed
<1> DEFINE Z == Tree(g) \cup {x \in Tree(h) : x.cell = k}
<1>11. Closed(h, Z)
  <2>1. ASSUME NEW x \in Z, NEW y \in ChildrenOf(h, x)
        PROVE  y \in Z
    <3>1. PICK c \in SubKeysOf(h, x.cell) : y = [cell |-> c, path |-> Append(x.path, h.cell[c].Name)]
      BY <2>1 DEF ChildrenOf
    <3>2. x \in Y
      BY <1>8, <3>1
    <3>3. x \in Tree(g)
      BY <3>2
    <3>4. /\ c \in Cells /\ h.cell[c].kind = "key" /\ y \in Tree(h) /\ y.cell = c
      BY <1>4, <3>1, <3>2
    <3>5. CASE c = k
      BY <3>4, <3>5
    <3>6. CASE c # k
      <4>1. c \in SubKeysOf(g, x.cell)
        BY <1>5, <3>1, <3>2, <3>6
      <4>2. Is(g, c, "key") /\ g.cell[c].Name = h.cell[c].Name
        BY <1>2, <3>4, <3>6 DEF Is
      <4>3. y \in ChildrenOf(g, x)
        BY <3>1, <4>1, <4>2 DEF ChildrenOf
      <4> QED  BY <1>10, <3>3, <4>3 DEF Closed
    <3> QED  BY <3>5, <3>6
  <2>2. Place0 \in Z
    BY RootInTree
  <2> HIDE DEF Z
  <2> QED  BY <2>1, <2>2 DEF Closed
<1>12. Tree(h) \subseteq Z
  BY <1>11, TreeLeast
<1> QED  BY <1>8, <1>9, <1>12

\* No other key is led to by another path than before.
LEMMA DeletedLoose ==
  ASSUME NEW h, NEW g, NEW k, DeletedKey(h, g, k), Hanging(h), k # RootCell, SubKeysOf(h, k) = {},
         NEW c, Loose(h, c)
  PROVE  Loose(g, c)
<1>1. Tree(g) = {x \in Tree(h) : x.cell # k}
  BY DeletedTree
<1>2. Is(g, c, "key") => c # k /\ Is(h, c, "key")
  BY DEF DeletedKey, Is
<1> QED  BY <1>1, <1>2 DEF Loose, Reached

-----------------------------------------------------------------------------
(* The tree of a hive that is loaded or new *)

\* What is loaded has with a key all that the stable list of the key holds.
LEMMA LoadableClosed ==
  ASSUME NEW h \in Hives, Listed(h), RootIsKey(h), h.cell[RootCell].Parent = HCELL_NIL,
         NEW c \in Loadable(h), NEW k \in h.cell[c].SubKeys.Stable
  PROVE  k \in Loadable(h)
<1> DEFINE N == Cardinality(StableCells)
           K == StableKeys(h)
           par == [d \in K |-> h.cell[d].Parent]
           level == CHOOSE f : Levels(h, N, f)
           L == [n \in 0 .. N |-> IF n = 0 THEN {RootCell} ELSE level[n]]
<1>1. N \in Nat /\ IsFiniteSet(StableCells)
  BY CellsFacts, FS_Subset, FS_CardinalityType
<1>2. IsFiniteSet(K) /\ Cardinality(K) <= N /\ Cardinality(K) \in Nat
  <2>1. K \subseteq StableCells
    BY DEF StableKeys
  <2> HIDE DEF K
  <2> QED  BY <1>1, <2>1, FS_Subset, FS_CardinalityType
<1>3. Loadable(h) = {RootCell} \cup UNION {level[n] : n \in DOMAIN level}
  BY DEF Loadable, Levels
<1>4. K \in SUBSET Cells /\ \A d \in K : h.cell[d].kind = "key"
  BY CellsFacts DEF StableKeys
<1>5. RootCell \in K /\ HCELL_NIL \notin K
  <2>1. RootCell \in K
    BY CellsFacts DEF RootIsKey, StableKeys
  <2> HIDE DEF K
  <2> QED  BY <2>1, <1>4, CellsFacts
<1>6. Loadable(h) \subseteq K
  BY LoadableIsKeys
<1>7. \A d \in K : \A j \in h.cell[d].SubKeys.Stable : j \in K /\ h.cell[j].Parent = d
  <2> SUFFICES ASSUME NEW d \in K, NEW j \in h.cell[d].SubKeys.Stable
               PROVE  j \in K /\ h.cell[j].Parent = d
    OBVIOUS
  <2>1. d \in StableCells /\ h.cell[d].kind = "key"
    BY DEF StableKeys
  <2>2. j \in StableCells
    <3>1. h.cell[d] \in Nodes
      BY <2>1, ContentFacts, CellsFacts DEF Hives
    <3> QED  BY <3>1 DEF Nodes
  <2>3. h.cell[j].kind = "key" /\ h.cell[j].Parent = d
    BY <2>1 DEF Listed
  <2> QED  BY <2>2, <2>3 DEF StableKeys
<1> HIDE DEF N, K
<1>8. Levels(h, N, level)
  BY <1>1, LevelsExist
<1> HIDE DEF level
<1>9. /\ DOMAIN level = 1 .. N
      /\ \A n \in 1 .. N : level[n] = Below(h, IF n = 1 THEN {RootCell} ELSE level[n - 1])
  BY <1>8 DEF Levels
<1>10. \A n \in 0 .. N : L[n] \subseteq Loadable(h)
  <2> SUFFICES ASSUME NEW n \in 0 .. N PROVE L[n] \subseteq Loadable(h)
    OBVIOUS
  <2>1. n = 0 \/ n \in 1 .. N
    BY <1>1
  <2> QED  BY <1>3, <1>9, <2>1
<1>11. \A n \in 0 .. N - 1 : L[n + 1] = Below(h, L[n])
  <2> SUFFICES ASSUME NEW n \in 0 .. N - 1 PROVE L[n + 1] = Below(h, L[n])
    OBVIOUS
  <2>1. /\ n \in 0 .. N /\ n + 1 \in 0 .. N /\ n + 1 # 0 /\ n + 1 \in 1 .. N
        /\ n + 1 = 1 <=> n = 0
        /\ (n + 1) - 1 = n
    BY <1>1
  <2>2. L[n + 1] = level[n + 1]
    BY <2>1
  <2>3. level[n + 1] = Below(h, IF n = 0 THEN {RootCell} ELSE level[n])
    BY <1>9, <2>1
  <2>4. L[n] = IF n = 0 THEN {RootCell} ELSE level[n]
    BY <2>1
  <2> QED  BY <2>2, <2>3, <2>4
<1>12. L[0] = {RootCell} /\ DOMAIN L = 0 .. N
  BY <1>1
<1>13. PICK n \in 0 .. N : c \in L[n]
  <2>1. CASE c = RootCell
    BY <1>1, <1>12, <2>1
  <2>2. CASE c # RootCell
    <3>1. PICK n \in 1 .. N : c \in level[n]
      BY <1>3, <1>9, <2>2
    <3>2. n \in 0 .. N /\ n # 0
      BY <3>1
    <3> QED  BY <3>1, <3>2
  <2> QED  BY <2>1, <2>2
<1> HIDE DEF L
<1>14. par[RootCell] \notin K
  BY <1>5
<1>15. ASSUME NEW m \in 0 .. N - 1, NEW d \in L[m + 1] PROVE par[d] \in L[m]
  <2>1. m \in 0 .. N
    BY <1>1
  <2>2. PICK e \in L[m] : d \in h.cell[e].SubKeys.Stable
    BY <1>11, <1>15 DEF Below
  <2>3. e \in K
    BY <1>6, <1>10, <2>1, <2>2
  <2> QED  BY <1>7, <2>2, <2>3
<1>16. Layered(K, RootCell, par, N, L)
  <2> HIDE DEF par
  <2> QED  BY <1>5, <1>6, <1>10, <1>12, <1>14, <1>15 DEF Layered
<1> HIDE DEF par
<1>17. n < Cardinality(K)
  BY <1>1, <1>2, <1>13, <1>16, LevelsAreFew
<1>18. n \in 0 .. N - 1 /\ n + 1 \in 0 .. N
  BY <1>1, <1>2, <1>13, <1>17
<1>19. k \in L[n + 1]
  <2>1. Is(h, c, "key")
    BY <1>4, <1>6 DEF Is
  <2> QED  BY <1>11, <1>13, <1>18, <2>1 DEF Below
<1> QED  BY <1>10, <1>18, <1>19

LEMMA AppendStays ==
  ASSUME NEW S, NEW s \in Seq(S), NEW e \in S
  PROVE  Append(s, e) \in Seq(S)
  OBVIOUS

\* All the keys of a hive that was loaded that a path leads to were checked.
LEMMA PurgedTree ==
  ASSUME NEW h \in Hives, Listed(h), RootIsKey(h), h.cell[RootCell].Parent = HCELL_NIL
  PROVE  LET g == CmpPurgeVolatiles(h) IN
         /\ Hanging(g)
         /\ \A x \in Tree(g) : x.cell \in Loadable(h)
         /\ \A d \in Loadable(h) : SubKeysOf(g, d) = h.cell[d].SubKeys.Stable
         /\ \A d \in Cells : /\ g.cell[d].kind = h.cell[d].kind
                             /\ h.cell[d].kind = "key" => /\ g.cell[d].Parent = h.cell[d].Parent
                                                          /\ g.cell[d].Name = h.cell[d].Name
<1> DEFINE g == CmpPurgeVolatiles(h)
<1>1. \A c \in Loadable(h) : c \in StableCells /\ c \in Cells /\ h.cell[c].kind = "key"
  BY LoadableIsKeys, CellsFacts DEF StableKeys
<1>2. PICK stale \in SUBSET Cells :
        /\ stale = {c \in Loadable(h) : h.cell[c].SubKeys.Volatile # {}}
        /\ g \in Hives /\ g.dirty = h.dirty \cup Blocks(stale)
        /\ \A c \in stale : h.cell[c].kind = "key"
        /\ \A c \in Cells : g.cell[c] = IF c \in stale THEN Purged(h.cell[c]) ELSE h.cell[c]
  <2>1. \A c \in Loadable(h) : Is(h, c, "key")
    BY <1>1 DEF Is
  <2> QED  BY <2>1, PurgeFacts
<1> HIDE DEF g
<1>3. \A x \in Nodes : Purged(x).Name = x.Name /\ Purged(x).SubKeys.Volatile = {}
  BY DEF Purged, Nodes
<1>4. \A c \in Cells : h.cell[c].kind = "key" => h.cell[c] \in Nodes
  BY ContentFacts DEF Hives
<1>5. ASSUME NEW d \in Cells
      PROVE  /\ g.cell[d].kind = h.cell[d].kind
             /\ h.cell[d].kind = "key" =>
                  g.cell[d].Parent = h.cell[d].Parent /\ g.cell[d].Name = h.cell[d].Name
  BY <1>2, <1>3, <1>4, PurgedFacts
<1>6. ASSUME NEW d \in Loadable(h) PROVE SubKeysOf(g, d) = h.cell[d].SubKeys.Stable
  <2>1. CASE d \in stale
    <3>1. g.cell[d] = Purged(h.cell[d]) /\ h.cell[d] \in Nodes
      BY <1>2, <1>4, <2>1
    <3> QED  BY <3>1, <1>3, PurgedFacts DEF SubKeysOf
  <2>2. CASE d \notin stale
    <3>1. g.cell[d] = h.cell[d] /\ h.cell[d].SubKeys.Volatile = {}
      BY <1>1, <1>2, <2>2
    <3> QED  BY <3>1 DEF SubKeysOf
  <2> QED  BY <2>1, <2>2
<1>7. ASSUME NEW d \in Loadable(h), NEW k \in h.cell[d].SubKeys.Stable
      PROVE  k \in Loadable(h) /\ h.cell[k].Parent = d
  BY <1>1, <1>7, LoadableClosed DEF Listed
<1> DEFINE P == Seq(Names \cup {""})
           X == [cell : Loadable(h), path : P]
<1>8. Place0 \in X
  BY RootIsLoadable DEF Place0
<1>9. Closed(g, X)
  <2>1. ASSUME NEW x \in X, NEW y \in ChildrenOf(g, x)
        PROVE  y \in X
    <3>1. PICK k \in SubKeysOf(g, x.cell) : y = [cell |-> k, path |-> Append(x.path, g.cell[k].Name)]
      BY <2>1 DEF ChildrenOf
    <3>2. k \in Loadable(h)
      <4>1. x.cell \in Loadable(h)
        OBVIOUS
      <4>2. k \in h.cell[x.cell].SubKeys.Stable
        BY <1>6, <3>1, <4>1
      <4> QED  BY <1>7, <4>1, <4>2
    <3>3. g.cell[k].Name \in Names \cup {""}
      <4>1. k \in Cells /\ h.cell[k] \in Nodes
        BY <1>1, <1>4, <3>2
      <4>2. g.cell[k].Name = h.cell[k].Name
        BY <1>1, <1>5, <3>2
      <4> QED  BY <4>1, <4>2 DEF Nodes
    <3>4. Append(x.path, g.cell[k].Name) \in P
      <4>1. x.path \in P
        OBVIOUS
      <4> DEFINE S == Names \cup {""}
      <4>2. \A s \in Seq(S) : \A e \in S : Append(s, e) \in Seq(S)
        BY AppendStays
      <4> QED  BY <3>3, <4>1, <4>2
    <3> QED  BY <3>1, <3>2, <3>4
  <2> HIDE DEF X
  <2> QED  BY <1>8, <2>1 DEF Closed
<1>10. Tree(g) \subseteq X
  BY <1>9, TreeLeast
<1>11. \A x \in Tree(g) : x.cell \in Loadable(h)
  BY <1>10
<1>12. Hanging(g)
  <2>1. RootIsKey(g) /\ g.cell[RootCell].Parent = HCELL_NIL
    BY <1>5, CellsFacts DEF RootIsKey
  <2>2. ASSUME NEW x \in Tree(g), NEW k \in SubKeysOf(g, x.cell)
        PROVE  Is(g, k, "key") /\ g.cell[k].Parent = x.cell
    <3>1. k \in Loadable(h) /\ h.cell[k].Parent = x.cell
      BY <1>6, <1>7, <1>11, <2>2
    <3> QED  BY <1>1, <1>5, <3>1 DEF Is
  <2> QED  BY <2>1, <2>2 DEF Hanging, Rooted
<1> QED  BY <1>5, <1>6, <1>11, <1>12 DEF g

LEMMA ConnectedTree == Hanging(Connected) /\ Tree(Connected) = {Place0}
<1> DEFINE h == Connected
<1>1. PICK s : NewHive(h, s)
  BY ConnectedIsNew
<1> HIDE DEF h
<1>2. /\ h.cell[RootCell].kind = "key" /\ h.cell[RootCell].Parent = HCELL_NIL
      /\ SubKeysOf(h, RootCell) = {}
  <2>1. h.cell[RootCell] = [CM_KEY_NODE("", HCELL_NIL, HCELL_NIL) EXCEPT !.Security = s]
    BY <1>1 DEF NewHive
  <2> DEFINE x == CM_KEY_NODE("", HCELL_NIL, HCELL_NIL)
  <2>2. /\ x.kind = "key" /\ x.Parent = HCELL_NIL
        /\ x.SubKeys = [Stable |-> {}, Volatile |-> {}]
        /\ "Security" \in DOMAIN x /\ "kind" \in DOMAIN x /\ "Parent" \in DOMAIN x /\ "SubKeys" \in DOMAIN x
    BY DEF CM_KEY_NODE
  <2>3. h.cell[RootCell] = [x EXCEPT !.Security = s]
    BY <2>1
  <2> HIDE DEF x
  <2>4. /\ h.cell[RootCell].kind = "key" /\ h.cell[RootCell].Parent = HCELL_NIL
        /\ h.cell[RootCell].SubKeys = [Stable |-> {}, Volatile |-> {}]
    BY <2>2, <2>3
  <2>5. SubKeysOf(h, RootCell) = {}
    BY <2>4 DEF SubKeysOf
  <2> QED  BY <2>4, <2>5
<1>3. Closed(h, {Place0})
  BY <1>2 DEF Closed, ChildrenOf, Place0
<1>4. Tree(h) = {Place0}
  BY <1>3, TreeLeast, RootInTree
<1>5. Hanging(h)
  BY <1>2, <1>4 DEF Hanging, Rooted, RootIsKey, Place0
<1> QED  BY <1>4, <1>5 DEF h

-----------------------------------------------------------------------------
(* A handle keeps its key *)

(***************************************************************************)
(* While the registry is up its keys hang together, and a key held open    *)
(* has the one path that it had when it was opened.  The cell of a key     *)
(* that was deleted while it was held open, or that the link leads to, may *)
(* hold another key since then: also that one is in the tree, so that what *)
(* is created below it is.                                                 *)
(***************************************************************************)
KeyLoose(h) ==
  key # None =>
    /\ key = [cell |-> key.cell, path |-> key.path]
    /\ Loose(h, key.cell)
    /\ key.path # None => key \in Tree(h)

TreeInv ==
  /\ IF Up THEN Hanging(hive) /\ LinkLoose(hive) /\ KeyLoose(hive)
           ELSE key = None /\ link = None
  /\ file # None => file[RootCell].Parent = HCELL_NIL

LEMMA LinkedExtends ==
  ASSUME NEW h \in Hives, Hanging(h), link = None,
         Linked(WithControlSet(h), WithLink(WithControlSet(h)))
  PROVE  /\ Extends(h, hive')
         /\ LinkLoose(hive)'
<1> DEFINE at == WithControlSet(h)
           linked == WithLink(at)
<1>1. "Stable" \in DOMAIN Storage /\ "Volatile" \in DOMAIN Storage /\ FALSE \in BOOLEAN
  BY StorageFacts
<1>2. ControlSet001 \in Names /\ CurrentControlSet \in Names
  BY DEF Names
<1>3. \A i : LinkLoose(i)
  BY DEF LinkLoose
<1>4. \A i : Hanging(i) => Loose(i, RootCell)
  BY RootInTree DEF Loose, Reached, Place0
<1>5. At(at) /\ Extends(h, at.hive) /\ Loose(at.hive, at.cell)
  BY <1>1, <1>2, <1>3, <1>4, CreateExtends DEF WithControlSet
<1>6. /\ hive' = linked.hive
      /\ link' = [source |-> linked.cell, target |-> at.cell, path |-> <<ControlSet001>>]
  BY DEF Linked
<1> HIDE DEF at
<1>7. At(linked) /\ Extends(at.hive, linked.hive)
  <2>1. at.hive \in Hives /\ Hanging(at.hive)
    BY <1>5 DEF At, Extends
  <2> QED  BY <2>1, <1>1, <1>2, <1>3, <1>4, CreateExtends DEF WithLink
<1> HIDE DEF linked
<1>8. Loose(linked.hive, at.cell)
  BY <1>5, <1>7 DEF Extends
<1>9. "target" \in DOMAIN link' /\ link'.target = at.cell
  BY <1>6
<1>10. LinkLoose(hive)'
  BY <1>6, <1>8, <1>9 DEF LinkLoose
<1> QED  BY <1>5, <1>6, <1>7, <1>10, ExtendsTransitive

\* What a change of the hive keeps of the keys held.
LEMMA ExtendsKeeps ==
  ASSUME NEW h, NEW g, Extends(h, g)
  PROVE  /\ Hanging(g)
         /\ LinkLoose(h) => LinkLoose(g)
         /\ KeyLoose(h) => KeyLoose(g)
  BY DEF Extends, LinkLoose, KeyLoose

LEMMA TreeInitially == Init => TreeInv
<1> SUFFICES ASSUME Init PROVE TreeInv
  OBVIOUS
<1>1. ~Up /\ key = None /\ link = None
  BY DEF Init, Up
<1>2. file # None => file[RootCell].Parent = HCELL_NIL
  <2> SUFFICES ASSUME file # None PROVE file[RootCell].Parent = HCELL_NIL
    OBVIOUS
  <2>1. Foreign /\ file = ForeignFile
    BY DEF Init
  <2>2. PICK a, b, c : ForeignCells(ForeignFile, a, b, c)
    BY <2>1, ForeignFileCells
  <2>3. file[RootCell] = ForeignRoot(a, c)
    BY <2>1, <2>2 DEF ForeignCells
  <2> QED  BY <2>3 DEF ForeignRoot, CM_KEY_NODE
<1> QED  BY <1>1, <1>2 DEF TreeInv

\* The steps that change no hive in memory.
LEMMA SameTree ==
  ASSUME TreeInv, UNCHANGED <<phase, hive, file, link, key>>
  PROVE  TreeInv'
<1>1. Up' = Up
  BY DEF Up
<1>2. LinkLoose(hive)' <=> LinkLoose(hive)
  BY DEF LinkLoose
<1>3. KeyLoose(hive)' <=> KeyLoose(hive)
  BY DEF KeyLoose
<1> QED  BY <1>1, <1>2, <1>3 DEF TreeInv

LEMMA SyncedRoot ==
  ASSUME RootIsKey(hive), hive.cell[RootCell].Parent = HCELL_NIL, CleanAsIn(hive, file)
  PROVE  Synced(hive)[RootCell].Parent = HCELL_NIL
<1>1. Synced(hive)[RootCell] = IF BlockOf[RootCell] \in hive.dirty THEN hive.cell[RootCell] ELSE file[RootCell]
  BY CellsFacts DEF Synced
<1>2. BlockOf[RootCell] \notin hive.dirty => file[RootCell].Parent = HCELL_NIL
  <2> SUFFICES ASSUME BlockOf[RootCell] \notin hive.dirty PROVE file[RootCell].Parent = HCELL_NIL
    OBVIOUS
  <2>1. Place(hive.cell[RootCell]) = Place(file[RootCell])
    BY CellsFacts DEF CleanAsIn
  <2> QED  BY <2>1 DEF Place, RootIsKey
<1> QED  BY <1>1, <1>2

LEMMA TreeKept == KeysInv /\ ListedInv /\ TreeInv /\ [Next]_vars => TreeInv'
<1> SUFFICES ASSUME KeysInv, ListedInv, TreeInv, [Next]_vars PROVE TreeInv'
  OBVIOUS
<1>0. /\ hive \in Hives
      /\ ~Up => key = None /\ link = None
      /\ Up => RootIsKey(hive) /\ Hanging(hive) /\ LinkLoose(hive) /\ KeyLoose(hive)
      /\ file # None => file[RootCell].Parent = HCELL_NIL
  BY DEF KeysInv, TreeInv
<1>1. CASE InitializeLoads
  <2> DEFINE h == HvInitialize(file)
             g == CmpPurgeVolatiles(h)
  <2>1. ~Up /\ file # None /\ phase' = "loaded" /\ UNCHANGED <<file, key>>
    BY <1>1 DEF InitializeLoads, RegInitializeRegistry, Begins
  <2>2. FileOK(file) /\ Listed(h) /\ RootIsKey(h) /\ file[RootCell].Parent = HCELL_NIL
    BY <1>0, <2>1 DEF KeysInv, ListedInv
  <2>3. h \in Hives /\ h.cell[RootCell].Parent = HCELL_NIL
    BY <2>2, ImageFacts, CellsFacts DEF FileOK
  <2>4. Linked(WithControlSet(g), WithLink(WithControlSet(g)))
    BY <1>1 DEF InitializeLoads, RegInitializeRegistry
  <2>5. KeptAll(h, g)
    <3>1. \A c \in Loadable(h) : Is(h, c, "key")
      BY <1>1 DEF InitializeLoads, CmpValidateKey
    <3> QED  BY <2>2, <3>1, PurgeKept
  <2>6. g \in Hives
    BY <2>5 DEF KeptAll, Kept
  <2>7. Hanging(g)
    <3> HIDE DEF h
    <3> QED  BY <2>2, <2>3, PurgedTree
  <2> HIDE DEF g, h
  <2>8. Extends(g, hive') /\ LinkLoose(hive)'
    BY <1>0, <2>1, <2>4, <2>6, <2>7, LinkedExtends
  <2> QED  BY <1>0, <2>1, <2>8 DEF TreeInv, Up, LinkLoose, KeyLoose, Extends
<1>2. CASE InitializeFails
  <2>1. ~Up /\ phase' = "memory" /\ hive' = Connected /\ UNCHANGED <<file, link, key>>
    BY <1>2 DEF InitializeFails, Begins
  <2> QED  BY <1>0, <2>1, ConnectedTree DEF TreeInv, Up, LinkLoose, KeyLoose
<1>3. CASE InitializeFromInf
  <2>1. ~Up /\ phase' = "memory" /\ UNCHANGED <<file, key>>
    BY <1>3 DEF InitializeFromInf, RegInitializeRegistry, Begins
  <2>2. Linked(WithControlSet(Connected), WithLink(WithControlSet(Connected)))
    BY <1>3 DEF InitializeFromInf, RegInitializeRegistry
  <2>3. Extends(Connected, hive') /\ LinkLoose(hive)'
    BY <1>0, <2>1, <2>2, ConnectedTree, ConnectedFacts, LinkedExtends
  <2> QED  BY <1>0, <2>1, <2>3 DEF TreeInv, Up, LinkLoose, KeyLoose, Extends
<1>4. CASE SaveRegistryIntoHive
  <2>1. Up /\ file' = ImageOf(hive) /\ UNCHANGED <<phase, hive, link, key>>
    BY <1>4 DEF SaveRegistryIntoHive, ImageOf
  <2>2. file'[RootCell].Parent = HCELL_NIL
    <3>1. file'[RootCell] = hive.cell[RootCell]
      BY <2>1, CellsFacts DEF ImageOf
    <3> QED  BY <1>0, <2>1, <3>1 DEF Hanging, Rooted
  <2> QED  BY <1>0, <2>1, <2>2 DEF TreeInv, Up, LinkLoose, KeyLoose
<1>5. CASE RegShutdownRegistry
  <2>1. Up /\ phase' = "down" /\ key' = None /\ link' = None
        /\ file' = (IF handle = "open" THEN Synced(hive) ELSE file)
    BY <1>5 DEF RegShutdownRegistry
  <2>2. file' # None => file'[RootCell].Parent = HCELL_NIL
    <3>1. CASE handle = "open"
      <4>1. CleanAsIn(hive, file)
        BY <2>1, <3>1 DEF KeysInv, Up
      <4>2. RootIsKey(hive) /\ hive.cell[RootCell].Parent = HCELL_NIL
        BY <1>0, <2>1 DEF Hanging, Rooted
      <4> QED  BY <2>1, <3>1, <4>1, <4>2, SyncedRoot
    <3>2. CASE handle # "open"
      BY <1>0, <2>1, <3>2
    <3> QED  BY <3>1, <3>2
  <2> QED  BY <2>1, <2>2 DEF TreeInv, Up
<1>6. CASE Exit
  <2>1. phase' = "down" /\ key' = None /\ link' = None /\ file' = file
    BY <1>6 DEF Exit, Ended
  <2> QED  BY <1>0, <2>1 DEF TreeInv, Up
<1>7. ASSUME NEW start \in Starts, NEW path \in PathsFrom(start),
             NEW type \in {"Stable", "Volatile"}, NEW fails \in BOOLEAN,
             NTRegCreateKeyExW(start, path, type, fails)
      PROVE  TreeInv'
  <2>1. /\ Up /\ hive' = RegpCreateKey(hive, start, path, type, fails).hive
        /\ UNCHANGED <<phase, file, link, key>>
    BY <1>7 DEF NTRegCreateKeyExW
  <2>2. Loose(hive, start)
    <3>1. Loose(hive, RootCell)
      BY RootInTree DEF Loose, Reached, Place0
    <3>2. key # None => Loose(hive, key.cell)
      BY <1>0, <2>1 DEF KeyLoose
    <3> QED  BY <3>1, <3>2 DEF Starts
  <2>3. \/ \E n \in Names : path = <<n>>
        \/ \E n, m \in Names : path = <<n, m>>
    BY PathsAreShort
  <2>4. type \in DOMAIN Storage
    BY StorageFacts
  <2>5. Extends(hive, hive')
    BY <1>0, <2>1, <2>2, <2>3, <2>4, CreateExtends
  <2>6. Hanging(hive') /\ LinkLoose(hive') /\ KeyLoose(hive')
    BY <1>0, <2>1, <2>5, ExtendsKeeps
  <2> QED  BY <1>0, <2>1, <2>6 DEF TreeInv, Up, LinkLoose, KeyLoose
<1>8. ASSUME NEW start \in Starts, NEW path \in PathsFrom(start), NTRegDeleteKeyW(start, path)
      PROVE  TreeInv'
  <2> DEFINE k == RegpOpenKey(start, path)
  <2>1. Up /\ Deletes(k) /\ UNCHANGED <<phase, file>>
    BY <1>8 DEF NTRegDeleteKeyW
  <2> HIDE DEF k
  <2>2. /\ k \in Cells /\ hive.cell[k].kind = "key" /\ k # RootCell /\ SubKeysOf(hive, k) = {}
        /\ hive' = CmpFreeKeyByCell(hive, k)
        /\ key' = (IF key # None /\ key.cell = k THEN [key EXCEPT !.path = None] ELSE key)
        /\ link' = (IF link # None /\ link.target = k THEN [link EXCEPT !.path = None] ELSE link)
    BY <2>1 DEF Deletes, Is
  <2>3. DeletedKey(hive, hive', k)
    BY <1>0, <2>2, DeletedIsDeletedKey
  <2>4. Hanging(hive') /\ Tree(hive') = {x \in Tree(hive) : x.cell # k}
    BY <1>0, <2>1, <2>2, <2>3, DeletedTree
  <2>5. \A c : Loose(hive, c) => Loose(hive', c)
    BY <1>0, <2>1, <2>2, <2>3, DeletedLoose
  <2>6. LinkLoose(hive)'
    <3>1. link # None => "target" \in DOMAIN link' /\ link'.target = link.target
      BY <1>0, <2>1, <2>2 DEF LinkLoose
    <3> QED  BY <1>0, <2>1, <2>2, <2>5, <3>1 DEF LinkLoose
  <2>7. KeyLoose(hive)'
    <3>1. CASE key = None
      BY <2>2, <3>1 DEF KeyLoose
    <3>2. CASE key # None /\ key.cell = k
      <4>1. key = [cell |-> key.cell, path |-> key.path] /\ Loose(hive, key.cell)
        BY <1>0, <2>1, <3>2 DEF KeyLoose
      <4>2. key' = [cell |-> k, path |-> None]
        BY <2>2, <3>2, <4>1
      <4> QED  BY <2>5, <3>2, <4>1, <4>2 DEF KeyLoose
    <3>3. CASE key # None /\ key.cell # k
      <4>1. key' = key
        BY <2>2, <3>3
      <4> QED  BY <1>0, <2>1, <2>4, <2>5, <3>3, <4>1 DEF KeyLoose
    <3> QED  BY <3>1, <3>2, <3>3
  <2>8. Hanging(hive)'
    BY <2>4
  <2> QED  BY <1>0, <2>1, <2>6, <2>7, <2>8 DEF TreeInv, Up
<1>9. ASSUME NEW start \in Starts, NEW path \in PathsFrom(start), NTRegOpenKeyW(start, path)
      PROVE  TreeInv'
  <2> DEFINE c == RegpOpenKey(start, path)
  <2>1. Up /\ Opens(c) /\ UNCHANGED <<phase, hive, file, link>>
    BY <1>9 DEF NTRegOpenKeyW
  <2> HIDE DEF c
  <2>2. PICK x \in Tree(hive) : x.cell = c /\ key' = [cell |-> c, path |-> x.path]
    BY <2>1 DEF Opens, PathsOf
  <2>3. x = [cell |-> x.cell, path |-> x.path]
    BY <1>0, <2>1, TreeKeys
  <2>4. key' = x /\ key'.cell = c
    BY <2>2, <2>3
  <2>5. Loose(hive, c)
    BY <2>2 DEF Loose, Reached
  <2>6. KeyLoose(hive)'
    BY <2>1, <2>2, <2>3, <2>4, <2>5 DEF KeyLoose
  <2>7. LinkLoose(hive)'
    BY <1>0, <2>1 DEF LinkLoose
  <2> QED  BY <1>0, <2>1, <2>6, <2>7 DEF TreeInv, Up
<1>10. CASE NTRegCloseKey
  <2>1. Up /\ key' = None /\ UNCHANGED <<phase, hive, file, link>>
    BY <1>10 DEF NTRegCloseKey
  <2> QED  BY <1>0, <2>1 DEF TreeInv, Up, LinkLoose, KeyLoose
<1>11. CASE UNCHANGED vars
  BY <1>11, SameTree DEF vars
<1> QED  BY <1>1, <1>2, <1>3, <1>4, <1>5, <1>6, <1>7, <1>8, <1>9, <1>10, <1>11 DEF Next

(***************************************************************************)
(* A handle keeps the offset of a cell, and the key of that cell is the    *)
(* one that it was opened for, under the one path that leads to it,        *)
(* whatever else is created, deleted and failed, until that key is deleted *)
(* itself.                                                                 *)
(***************************************************************************)
THEOREM HandlesKeepTheirKeys == Spec => []HandleKeepsItsKey
<1>1. Init => TreeInv
  BY TreeInitially
<1>2. KeysInv /\ ListedInv /\ TreeInv /\ [Next]_vars => TreeInv'
  BY TreeKept
<1>3. TreeInv => HandleKeepsItsKey
  <2> SUFFICES ASSUME TreeInv, key # None, key.path # None
               PROVE  PathsOf(hive, key.cell) = {key.path}
    BY DEF HandleKeepsItsKey
  <2>1. Hanging(hive) /\ key \in Tree(hive)
    BY DEF TreeInv, KeyLoose
  <2>2. \A x \in Tree(hive) : x.cell = key.cell => x = key
    BY <2>1, OnePath
  <2> QED  BY <2>1, <2>2 DEF PathsOf
<1>4. Init => ListedInv
  BY ListedInitially
<1>5. KeysInv /\ ListedInv /\ [Next]_vars => ListedInv'
  BY ListedKept
<1> QED  BY <1>1, <1>2, <1>3, <1>4, <1>5, KeysInvariant, PTL DEF Spec

-----------------------------------------------------------------------------
(* The link keeps its keys *)

\* The function g folds the steps over parts of a path.
Steps(start, path, g) ==
  g = [s \in SUBSET DOMAIN path |->
         IF s = {} THEN start ELSE Step(g[s \ {Max(s)}], path[Max(s)])]

LEMMA FoldSteps ==
  ASSUME NEW start, NEW path, \E g : Steps(start, path, g)
  PROVE  \E g : Steps(start, path, g) /\ RegpOpenKey(start, path) = g[DOMAIN path]
<1> DEFINE Folds(g) == g = [s \in SUBSET DOMAIN path |->
                              IF s = {} THEN start ELSE Step(g[s \ {Max(s)}], path[Max(s)])]
           w == CHOOSE g : Folds(g)
<1>1. RegpOpenKey(start, path) = w[DOMAIN path]
  BY DEF RegpOpenKey, FoldLeft, MapThenFoldSet
<1>2. \A g : Steps(start, path, g) <=> Folds(g)
  BY DEF Steps
<1>3. Folds(w)
  BY <1>2
<1> HIDE DEF w
<1> QED  BY <1>1, <1>2, <1>3

\* A walk of one or two names ends with a step.
LEMMA OpenEnds ==
  ASSUME NEW start, NEW path \in PathsFrom(start)
  PROVE  \E c, name : RegpOpenKey(start, path) = Step(c, name)
<1> DEFINE S == SUBSET DOMAIN path
<1>1. /\ \/ DOMAIN path = {1}
         \/ DOMAIN path = {1, 2}
      /\ DOMAIN path # {}
  BY PathsAreShort
<1>2. Max({1}) = 1 /\ Max({2}) = 2 /\ Max({1, 2}) = 2
  BY DEF Max
<1>3. {1} \ {Max({1})} = {} /\ {2} \ {Max({2})} = {} /\ {1, 2} \ {Max({1, 2})} = {1}
  BY <1>2
<1>4. {1} # {} /\ {2} # {} /\ {1, 2} # {} /\ {1} # {2} /\ {1, 2} # {1} /\ {1, 2} # {2}
  OBVIOUS
<1>5. S \subseteq {{}, {1}, {2}, {1, 2}} /\ DOMAIN path \in S /\ {} \in S
  BY <1>1
<1> DEFINE x == Step(start, path[1])
           y == Step(start, path[2])
           z == Step(x, path[2])
           w == [s \in S |-> IF s = {} THEN start ELSE IF s = {1} THEN x ELSE IF s = {2} THEN y ELSE z]
           Body(g, s) == IF s = {} THEN start ELSE Step(g[s \ {Max(s)}], path[Max(s)])
<1>6. /\ w[{}] = start
      /\ \A s \in S : w[s] = IF s = {} THEN start ELSE IF s = {1} THEN x ELSE IF s = {2} THEN y ELSE z
      /\ {1, 2} \in S => {1} \in S
  BY <1>5
<1>7. w = [s \in S |-> w[s]]
  OBVIOUS
<1> HIDE DEF w, S, x, y
<1>8. \A s \in S : w[s] = Body(w, s)
  <2> SUFFICES ASSUME NEW s \in S PROVE w[s] = Body(w, s)
    OBVIOUS
  <2>1. CASE s = {}   BY <1>6, <2>1
  <2>2. CASE s = {1}
    <3>1. w[s] = x
      BY <1>4, <1>6, <2>2
    <3> QED  BY <1>2, <1>3, <1>4, <1>6, <2>2, <3>1 DEF x
  <2>3. CASE s = {2}
    <3>1. w[s] = y
      BY <1>4, <1>6, <2>3
    <3> QED  BY <1>2, <1>3, <1>4, <1>6, <2>3, <3>1 DEF y
  <2>4. CASE s = {1, 2}
    <3>1. w[s] = z /\ w[{1}] = x
      BY <1>4, <1>6, <2>4
    <3> QED  BY <1>2, <1>3, <1>4, <2>4, <3>1
  <2> QED  BY <1>5, <2>1, <2>2, <2>3, <2>4
<1>9. w = [s \in S |-> IF s = {} THEN start ELSE Step(w[s \ {Max(s)}], path[Max(s)])]
  BY <1>7, <1>8, Zenon
<1>10. Steps(start, path, w)
  BY <1>9 DEF Steps, S
<1>11. PICK g : Steps(start, path, g) /\ RegpOpenKey(start, path) = g[DOMAIN path]
  BY <1>10, FoldSteps
<1>12. g = [s \in S |-> IF s = {} THEN start ELSE Step(g[s \ {Max(s)}], path[Max(s)])]
  BY <1>11 DEF Steps, S
<1>13. \A s \in S : g[s] = IF s = {} THEN start ELSE Step(g[s \ {Max(s)}], path[Max(s)])
  BY <1>12, Zenon
<1>14. g[DOMAIN path] = Step(g[DOMAIN path \ {Max(DOMAIN path)}], path[Max(DOMAIN path)])
  BY <1>1, <1>5, <1>13
<1> QED  BY <1>11, <1>14

\* No path leads to the source of the link: a step that finds it goes on to the target.
LEMMA SourceUnreached ==
  ASSUME link # None, link.source # link.target, link.source \in Cells,
         NEW start, NEW path \in PathsFrom(start)
  PROVE  RegpOpenKey(start, path) # link.source
<1>1. PICK c, name : RegpOpenKey(start, path) = Step(c, name)
  BY OpenEnds
<1>2. \A d : Resolved(d) # link.source
  BY DEF Resolved
<1>3. HCELL_NIL # link.source
  BY CellsFacts
<1> QED  BY <1>1, <1>2, <1>3 DEF Step

\* A key made under a place of the tree is at its name below that place.
LEMMA EnteredBelow ==
  ASSUME NEW h, NEW g, NEW parent, NEW name, NEW c, EnteredKey(h, g, parent, name, c),
         Hanging(h), NEW q \in Tree(h), q.cell = parent
  PROVE  [cell |-> c, path |-> Append(q.path, name)] \in Tree(g)
<1>1. Tree(g) = Tree(h) \cup {[cell |-> c, path |-> Append(q.path, name)]}
  BY EnteredTree
<1> QED  BY <1>1

\* A key made, or found, from the root by one name is the key of that path.
LEMMA DefaultPlace ==
  ASSUME NEW h \in Hives, Hanging(h), link = None,
         NEW name \in Names, NEW type \in DOMAIN Storage,
         NEW r, r = RegpCreateKey(h, RootCell, <<name>>, type, FALSE), r.cell # HCELL_NIL
  PROVE  [cell |-> r.cell, path |-> <<name>>] \in Tree(r.hive)
<1> DEFINE b == [hive |-> h, cell |-> RootCell]
           found == CmpFindSubKeyByName(h, RootCell, name)
<1>1. r = Walk(b, name, type, FALSE) /\ b.hive = h /\ b.cell = RootCell
  BY WalkOfOne
<1>2. Place0 \in Tree(h) /\ Place0.cell = RootCell /\ Append(Place0.path, name) = <<name>>
  BY RootInTree DEF Place0
<1>3. \A x : [b EXCEPT !.cell = x].hive = h /\ [b EXCEPT !.cell = x].cell = x
  OBVIOUS
<1>4. RootCell \in Cells /\ h.cell[RootCell].kind = "key" /\ Is(h, RootCell, "key")
  BY CellsFacts DEF Hanging, Rooted, RootIsKey, Is
<1>5. CASE found # HCELL_NIL
  <2>1. r = [b EXCEPT !.cell = Resolved(found)]
    BY <1>1, <1>4, <1>5 DEF Walk
  <2>2. r.hive = h /\ r.cell = found
    BY <1>3, <2>1 DEF Resolved
  <2>3. found \in SubKeysOf(h, RootCell) /\ h.cell[found].Name = name
    BY <1>4, <1>5, FindFacts
  <2> HIDE DEF found
  <2> QED  BY <1>2, <2>2, <2>3, ChildReached
<1>6. CASE found = HCELL_NIL
  <2>1. r = CmiAddSubKey(h, RootCell, name, type, FALSE)
    BY <1>1, <1>4, <1>6 DEF Walk
  <2>2. FALSE \in BOOLEAN
    OBVIOUS
  <2>3. Entered(h, r.hive, RootCell, name, type, r.cell)
    BY <1>4, <2>1, <2>2, AddedFacts
  <2>4. EnteredKey(h, r.hive, RootCell, name, r.cell)
    BY <1>4, <2>3, EnteredIsEnteredKey
  <2> HIDE DEF found
  <2>5. PICK q \in Tree(h) : q.cell = RootCell /\ Append(q.path, name) = <<name>>
    BY <1>2
  <2>6. Hanging(h) /\ q.cell = RootCell
    BY <2>5
  <2>7. [cell |-> r.cell, path |-> Append(q.path, name)] \in Tree(r.hive)
    BY <2>4, <2>6, EnteredBelow
  <2> QED  BY <2>5, <2>7
<1> QED  BY <1>5, <1>6

(***************************************************************************)
(* The link is between two keys, the source of which stays where it is;    *)
(* the target stays as long as the link has a path.                        *)
(***************************************************************************)
LinkFast(h) ==
  link # None =>
    /\ link = [source |-> link.source, target |-> link.target, path |-> link.path]
    /\ link.source \in Cells /\ link.source # link.target
    /\ [cell |-> link.source, path |-> <<CurrentControlSet>>] \in Tree(h)
    /\ link.path # None => [cell |-> link.target, path |-> link.path] \in Tree(h)

LinkInv == LinkFast(hive)

\* The link that an initialisation makes.
LEMMA LinkedFast ==
  ASSUME NEW h \in Hives, Hanging(h), link = None,
         Linked(WithControlSet(h), WithLink(WithControlSet(h)))
  PROVE  LinkFast(hive)'
<1> DEFINE at == WithControlSet(h)
           linked == WithLink(at)
           new == [source |-> linked.cell, target |-> at.cell, path |-> <<ControlSet001>>]
           source == [cell |-> linked.cell, path |-> <<CurrentControlSet>>]
           target == [cell |-> at.cell, path |-> <<ControlSet001>>]
<1>1. "Stable" \in DOMAIN Storage /\ "Volatile" \in DOMAIN Storage /\ FALSE \in BOOLEAN
  BY StorageFacts
<1>2. ControlSet001 \in Names /\ CurrentControlSet \in Names
  BY DEF Names
<1>3. /\ at.cell # HCELL_NIL /\ linked.cell # HCELL_NIL
      /\ hive' = linked.hive /\ link' = new
  BY DEF Linked
<1>4. \A i : LinkLoose(i)
  BY DEF LinkLoose
<1>5. \A i : Hanging(i) => Loose(i, RootCell)
  BY RootInTree DEF Loose, Reached, Place0
<1>6. At(at) /\ Extends(h, at.hive)
  BY <1>1, <1>2, <1>4, <1>5, CreateExtends DEF WithControlSet
<1>7. at = RegpCreateKey(h, RootCell, <<ControlSet001>>, "Stable", FALSE)
  BY DEF WithControlSet
<1>8. linked = RegpCreateKey(at.hive, RootCell, <<CurrentControlSet>>, "Volatile", FALSE)
  BY DEF WithLink
<1> HIDE DEF at, linked
<1>9. target \in Tree(at.hive)
  BY <1>1, <1>2, <1>3, <1>7, DefaultPlace
<1>10. at.hive \in Hives /\ Hanging(at.hive)
  BY <1>6 DEF At, Extends
<1>11. source \in Tree(linked.hive)
  BY <1>1, <1>2, <1>3, <1>8, <1>10, DefaultPlace
<1>12. Extends(at.hive, linked.hive)
  BY <1>1, <1>2, <1>4, <1>5, <1>8, <1>10, CreateExtends
<1>13. target \in Tree(linked.hive) /\ Hanging(linked.hive)
  BY <1>9, <1>12 DEF Extends
<1>14. linked.cell # at.cell
  <2> SUFFICES ASSUME linked.cell = at.cell PROVE FALSE
    OBVIOUS
  <2>1. source = target
    BY <1>11, <1>13, OnePath
  <2>2. source.path = <<CurrentControlSet>> /\ target.path = <<ControlSet001>>
    OBVIOUS
  <2> QED  BY <2>1, <2>2, NamesAssumption
<1>15. linked.cell \in Cells
  BY <1>11, <1>13, TreeKeys DEF Hanging, Rooted
<1>16. /\ new.source = linked.cell /\ new.target = at.cell /\ new.path = <<ControlSet001>>
  OBVIOUS
<1> HIDE DEF new
<1> QED  BY <1>3, <1>11, <1>13, <1>14, <1>15, <1>16 DEF LinkFast, new

LEMMA LinkInvKept == KeysInv /\ ListedInv /\ TreeInv /\ LinkInv /\ [Next]_vars => LinkInv'
<1> SUFFICES ASSUME KeysInv, ListedInv, TreeInv, LinkInv, [Next]_vars PROVE LinkInv'
  OBVIOUS
<1>0. /\ hive \in Hives /\ LinkFast(hive)
      /\ ~Up => link = None
      /\ Up => Hanging(hive) /\ LinkLoose(hive) /\ KeyLoose(hive)
  BY DEF KeysInv, TreeInv, LinkInv
<1>1. CASE InitializeLoads
  <2> DEFINE h == HvInitialize(file)
             g == CmpPurgeVolatiles(h)
  <2>1. ~Up /\ file # None
    BY <1>1 DEF InitializeLoads, Begins
  <2>2. /\ FileOK(file) /\ Listed(h) /\ RootIsKey(h) /\ file[RootCell].Parent = HCELL_NIL
    BY <2>1 DEF KeysInv, ListedInv, TreeInv
  <2>3. h \in Hives /\ h.cell[RootCell].Parent = HCELL_NIL
    BY <2>2, ImageFacts, CellsFacts DEF FileOK
  <2>4. Linked(WithControlSet(g), WithLink(WithControlSet(g)))
    BY <1>1 DEF InitializeLoads, RegInitializeRegistry
  <2>5. KeptAll(h, g)
    <3>1. \A c \in Loadable(h) : Is(h, c, "key")
      BY <1>1 DEF InitializeLoads, CmpValidateKey
    <3> QED  BY <2>2, <3>1, PurgeKept
  <2>6. g \in Hives
    BY <2>5 DEF KeptAll, Kept
  <2>7. Hanging(g)
    <3> HIDE DEF h
    <3> QED  BY <2>2, <2>3, PurgedTree
  <2> HIDE DEF g, h
  <2> QED  BY <1>0, <2>1, <2>4, <2>6, <2>7, LinkedFast DEF LinkInv
<1>2. CASE InitializeFails
  <2>1. link' = None
    BY <1>0, <1>2 DEF InitializeFails, Begins
  <2> QED  BY <2>1 DEF LinkInv, LinkFast
<1>3. CASE InitializeFromInf
  <2>1. ~Up
    BY <1>3 DEF InitializeFromInf, Begins
  <2>2. Linked(WithControlSet(Connected), WithLink(WithControlSet(Connected)))
    BY <1>3 DEF InitializeFromInf, RegInitializeRegistry
  <2> QED  BY <1>0, <2>1, <2>2, ConnectedTree, ConnectedFacts, LinkedFast DEF LinkInv
<1>4. CASE RegShutdownRegistry \/ Exit
  <2>1. link' = None
    BY <1>4 DEF RegShutdownRegistry, Exit, Ended
  <2> QED  BY <2>1 DEF LinkInv, LinkFast
<1>5. CASE UNCHANGED <<hive, link>>
  BY <1>0, <1>5 DEF LinkInv, LinkFast
<1>6. ASSUME NEW start \in Starts, NEW path \in PathsFrom(start),
             NEW type \in {"Stable", "Volatile"}, NEW fails \in BOOLEAN,
             NTRegCreateKeyExW(start, path, type, fails)
      PROVE  LinkInv'
  <2>1. /\ Up /\ hive' = RegpCreateKey(hive, start, path, type, fails).hive
        /\ UNCHANGED link
    BY <1>6 DEF NTRegCreateKeyExW
  <2>2. Loose(hive, start)
    <3>1. Loose(hive, RootCell)
      BY RootInTree DEF Loose, Reached, Place0
    <3>2. key # None => Loose(hive, key.cell)
      BY <1>0, <2>1 DEF KeyLoose
    <3> QED  BY <3>1, <3>2 DEF Starts
  <2>3. \/ \E n \in Names : path = <<n>>
        \/ \E n, m \in Names : path = <<n, m>>
    BY PathsAreShort
  <2>4. type \in DOMAIN Storage
    BY StorageFacts
  <2>5. Extends(hive, hive')
    BY <1>0, <2>1, <2>2, <2>3, <2>4, CreateExtends
  <2> QED  BY <1>0, <2>1, <2>5 DEF LinkInv, LinkFast, Extends
<1>7. ASSUME NEW start \in Starts, NEW path \in PathsFrom(start), NTRegDeleteKeyW(start, path)
      PROVE  LinkInv'
  <2> DEFINE k == RegpOpenKey(start, path)
  <2>1. Up /\ Deletes(k)
    BY <1>7 DEF NTRegDeleteKeyW
  <2>2. link # None => link.source # k
    BY <1>0, SourceUnreached DEF LinkFast
  <2> HIDE DEF k
  <2>3. /\ k \in Cells /\ hive.cell[k].kind = "key" /\ k # RootCell /\ SubKeysOf(hive, k) = {}
        /\ hive' = CmpFreeKeyByCell(hive, k)
        /\ link' = (IF link # None /\ link.target = k THEN [link EXCEPT !.path = None] ELSE link)
    BY <2>1 DEF Deletes, Is
  <2>4. DeletedKey(hive, hive', k)
    BY <1>0, <2>3, DeletedIsDeletedKey
  <2>5. Tree(hive') = {x \in Tree(hive) : x.cell # k}
    BY <1>0, <2>1, <2>3, <2>4, DeletedTree
  <2>6. CASE link = None
    BY <2>3, <2>6 DEF LinkInv, LinkFast
  <2>7. CASE link # None /\ link.target = k
    <3>1. link' = [source |-> link.source, target |-> link.target, path |-> None]
      BY <1>0, <2>3, <2>7 DEF LinkFast
    <3>2. [cell |-> link.source, path |-> <<CurrentControlSet>>] \in Tree(hive')
      BY <1>0, <2>2, <2>5, <2>7 DEF LinkFast
    <3> QED  BY <1>0, <2>7, <3>1, <3>2 DEF LinkInv, LinkFast
  <2>8. CASE link # None /\ link.target # k
    <3>1. link' = link
      BY <2>3, <2>8
    <3>2. /\ [cell |-> link.source, path |-> <<CurrentControlSet>>] \in Tree(hive')
          /\ link.path # None => [cell |-> link.target, path |-> link.path] \in Tree(hive')
      BY <1>0, <2>2, <2>5, <2>8 DEF LinkFast
    <3> QED  BY <1>0, <2>8, <3>1, <3>2 DEF LinkInv, LinkFast
  <2> QED  BY <2>6, <2>7, <2>8
<1>8. ASSUME NEW start \in Starts, NEW path \in PathsFrom(start), NTRegOpenKeyW(start, path)
      PROVE  LinkInv'
  <2>1. UNCHANGED <<hive, link>>
    BY <1>8 DEF NTRegOpenKeyW
  <2> QED  BY <1>5, <2>1
<1>9. CASE SaveRegistryIntoHive \/ NTRegCloseKey \/ UNCHANGED vars
  <2>1. UNCHANGED <<hive, link>>
    BY <1>9 DEF SaveRegistryIntoHive, NTRegCloseKey, vars
  <2> QED  BY <1>5, <2>1
<1> QED  BY <1>1, <1>2, <1>3, <1>4, <1>6, <1>7, <1>8, <1>9 DEF Next

(***************************************************************************)
(* The reparse point leads from CurrentControlSet, a key that no deletion  *)
(* reaches, to ControlSet001, whatever else is created and deleted in the  *)
(* cells around them, until ControlSet001 is deleted itself.               *)
(***************************************************************************)
THEOREM LinkKeepsKeys == Spec => []LinkKeepsItsKeys
<1>1. Init => TreeInv /\ ListedInv /\ LinkInv
  BY TreeInitially, ListedInitially DEF Init, LinkInv, LinkFast
<1>2. KeysInv /\ ListedInv /\ [Next]_vars => ListedInv'
  BY ListedKept
<1>3. KeysInv /\ ListedInv /\ TreeInv /\ [Next]_vars => TreeInv'
  BY TreeKept
<1>4. KeysInv /\ ListedInv /\ TreeInv /\ LinkInv /\ [Next]_vars => LinkInv'
  BY LinkInvKept
<1>5. TreeInv /\ LinkInv => LinkKeepsItsKeys
  <2> SUFFICES ASSUME TreeInv, LinkInv, link # None
               PROVE  /\ PathsOf(hive, link.source) = {<<CurrentControlSet>>}
                      /\ link.path # None => PathsOf(hive, link.target) = {link.path}
    BY DEF LinkKeepsItsKeys
  <2> DEFINE source == [cell |-> link.source, path |-> <<CurrentControlSet>>]
             target == [cell |-> link.target, path |-> link.path]
  <2>1. /\ Hanging(hive) /\ source \in Tree(hive)
        /\ link.path # None => target \in Tree(hive)
    BY DEF TreeInv, LinkInv, LinkFast
  <2>2. ASSUME NEW x \in Tree(hive) PROVE PathsOf(hive, x.cell) = {x.path}
    <3>1. \A y \in Tree(hive) : y.cell = x.cell => y = x
      BY <2>1, OnePath
    <3> QED  BY <3>1 DEF PathsOf
  <2>3. source.cell = link.source /\ source.path = <<CurrentControlSet>>
        /\ target.cell = link.target /\ target.path = link.path
    OBVIOUS
  <2> HIDE DEF source, target
  <2> QED  BY <2>1, <2>2, <2>3
<1> QED  BY <1>1, <1>2, <1>3, <1>4, <1>5, KeysInvariant, PTL DEF Spec

-----------------------------------------------------------------------------
(* Paths *)

Labels == Names \cup {""}
Paths == Seq(Labels)

LEMMA PrefixFacts ==
  ASSUME NEW S, NEW s \in Seq(S), NEW t \in Seq(S), NEW e \in S
  PROVE  /\ IsPrefix(s, s)
         /\ IsPrefix(s, Append(t, e)) <=> IsPrefix(s, t) \/ s = Append(t, e)
         /\ IsPrefix(s, << >>) <=> s = << >>
         /\ Front(Append(t, e)) = t
<1> DEFINE u == Append(t, e)
<1>1. /\ u \in Seq(S) /\ Len(u) = Len(t) + 1 /\ Len(t) \in Nat /\ Len(s) \in Nat
      /\ \A i \in 1 .. Len(t) : u[i] = t[i]
      /\ u[Len(t) + 1] = e
  BY AppendProperties
<1> HIDE DEF u
<1>2. ASSUME NEW v \in Seq(S), NEW n \in 0 .. Len(v)
      PROVE  /\ SubSeq(v, 1, n) \in Seq(S) /\ Len(SubSeq(v, 1, n)) = n
             /\ \A i \in 1 .. n : SubSeq(v, 1, n)[i] = v[i]
  BY <1>2
<1>3. \A v \in Seq(S) : SubSeq(v, 1, Len(v)) = v
  OBVIOUS
<1>4. IsPrefix(s, s)
  BY <1>1, <1>3 DEF IsPrefix
<1>5. ASSUME NEW v \in Seq(S), Len(s) <= Len(v)
      PROVE  IsPrefix(s, v) <=> \A i \in 1 .. Len(s) : s[i] = v[i]
  <2>1. Len(s) \in 0 .. Len(v) /\ Len(v) \in Nat
    BY <1>1, <1>5
  <2>2. /\ SubSeq(v, 1, Len(s)) \in Seq(S) /\ Len(SubSeq(v, 1, Len(s))) = Len(s)
        /\ \A i \in 1 .. Len(s) : SubSeq(v, 1, Len(s))[i] = v[i]
    BY <1>2, <2>1
  <2>3. SubSeq(v, 1, Len(s)) = s <=> \A i \in 1 .. Len(s) : s[i] = v[i]
    BY <2>2
  <2> QED  BY <1>3, <1>5, <2>3 DEF IsPrefix
<1>6. \A v \in Seq(S) : IsPrefix(s, v) => Len(s) <= Len(v)
  BY DEF IsPrefix
<1>7. IsPrefix(s, u) <=> IsPrefix(s, t) \/ s = u
  <2>1. CASE Len(s) <= Len(t)
    <3>1. Len(s) <= Len(u) /\ s # u
      BY <1>1, <2>1
    <3>2. IsPrefix(s, u) <=> \A i \in 1 .. Len(s) : s[i] = u[i]
      BY <1>1, <1>5, <3>1
    <3>3. IsPrefix(s, t) <=> \A i \in 1 .. Len(s) : s[i] = t[i]
      BY <1>5, <2>1
    <3>4. \A i \in 1 .. Len(s) : i \in 1 .. Len(t)
      BY <1>1, <2>1
    <3> QED  BY <1>1, <3>1, <3>2, <3>3, <3>4
  <2>2. CASE Len(s) = Len(u)
    <3>1. ~IsPrefix(s, t)
      BY <1>1, <1>6, <2>2
    <3>2. IsPrefix(s, u) <=> s = u
      BY <1>1, <1>3, <2>2 DEF IsPrefix
    <3> QED  BY <3>1, <3>2
  <2>3. CASE Len(s) > Len(u)
    <3>1. ~IsPrefix(s, t) /\ ~IsPrefix(s, u) /\ s # u
      BY <1>1, <1>6, <2>3
    <3> QED  BY <3>1
  <2> QED  BY <1>1, <2>1, <2>2, <2>3
<1>8. IsPrefix(s, << >>) <=> s = << >>
  <2>1. << >> \in Seq(S) /\ Len(<< >>) = 0
    OBVIOUS
  <2>2. IsPrefix(s, << >>) => s = << >>
    <3>1. IsPrefix(s, << >>) => Len(s) <= 0
      BY <1>6, <2>1
    <3>2. IsPrefix(s, << >>) => Len(s) = 0
      BY <1>1, <3>1
    <3> QED  BY <3>2, EmptySeq
  <2>3. s = << >> => IsPrefix(s, << >>)
    BY <1>4
  <2> QED  BY <2>2, <2>3
<1>9. Front(u) = t
  <2>1. Front(u) = SubSeq(u, 1, Len(t))
    BY <1>1 DEF Front
  <2>2. Len(t) \in 0 .. Len(u)
    BY <1>1
  <2>3. /\ SubSeq(u, 1, Len(t)) \in Seq(S) /\ Len(SubSeq(u, 1, Len(t))) = Len(t)
        /\ \A i \in 1 .. Len(t) : SubSeq(u, 1, Len(t))[i] = u[i]
    BY <1>1, <1>2, <2>2
  <2> QED  BY <1>1, <2>1, <2>3
<1> QED  BY <1>4, <1>7, <1>8, <1>9 DEF u

LEMMA PathPrefixes ==
  \A s \in Paths : IsPrefix(s, s) /\ (IsPrefix(s, << >>) <=> s = << >>)
<1>1. "" \in Labels
  BY DEF Labels
<1> QED  BY <1>1, PrefixFacts DEF Paths

LEMMA AppendsDiffer ==
  ASSUME NEW q \in Paths, NEW r \in Paths, NEW n \in Labels, NEW m \in Labels,
         Append(q, n) = Append(r, m)
  PROVE  q = r /\ n = m
  BY AppendInjective DEF Paths

\* A path leads down by names.
LEMMA TreePaths ==
  ASSUME NEW h \in Hives, NEW x \in Tree(h)
  PROVE  x.path \in Paths
<1> DEFINE X == [cell : Cells, path : Paths]
<1>1. Place0 \in X
  BY CellsFacts DEF Place0, Paths
<1>2. ASSUME NEW p \in X, NEW y \in ChildrenOf(h, p)
      PROVE  y \in X
  <2>1. PICK k \in SubKeysOf(h, p.cell) : /\ Is(h, k, "key")
                                         /\ y = [cell |-> k, path |-> Append(p.path, h.cell[k].Name)]
    BY <1>2 DEF ChildrenOf
  <2>2. k \in Cells /\ h.cell[k] \in Nodes
    BY <2>1, ContentFacts DEF Is, Hives
  <2>3. h.cell[k].Name \in Labels
    BY <2>2 DEF Nodes, Labels
  <2>4. Append(p.path, h.cell[k].Name) \in Paths
    BY <2>3, AppendStays DEF Paths
  <2> QED  BY <2>1, <2>2, <2>4
<1> HIDE DEF X
<1>3. Closed(h, X)
  BY <1>1, <1>2 DEF Closed
<1>4. Tree(h) \subseteq X
  BY <1>3, TreeLeast
<1> QED  BY <1>4 DEF X

\* The subkeys of a key have different names.
Differ(h) ==
  \A x \in Tree(h) : \A c, d \in SubKeysOf(h, x.cell) :
    Is(h, c, "key") /\ Is(h, d, "key") /\ h.cell[c].Name = h.cell[d].Name => c = d

\* Then a path leads to one key.
LEMMA OneKey ==
  ASSUME NEW h \in Hives, Rooted(h), Differ(h),
         NEW x \in Tree(h), NEW y \in Tree(h), x.path = y.path
  PROVE  x = y
<1> DEFINE X == {u \in Tree(h) : \A v \in Tree(h) : v.path = u.path => v = u}
<1>1. ASSUME NEW u \in Tree(h), u # Place0
      PROVE  \E p \in Tree(h) : \E k \in SubKeysOf(h, p.cell) :
               /\ Is(h, k, "key") /\ h.cell[k].Name \in Labels /\ p.path \in Paths
               /\ u = [cell |-> k, path |-> Append(p.path, h.cell[k].Name)]
  <2>1. PICK p \in Tree(h) : u \in ChildrenOf(h, p)
    BY <1>1, TreeParent
  <2>2. PICK k \in SubKeysOf(h, p.cell) : /\ Is(h, k, "key")
                                         /\ u = [cell |-> k, path |-> Append(p.path, h.cell[k].Name)]
    BY <2>1 DEF ChildrenOf
  <2>3. h.cell[k] \in Nodes
    BY <2>2, ContentFacts DEF Is, Hives
  <2>4. h.cell[k].Name \in Labels
    BY <2>3 DEF Nodes, Labels
  <2> QED  BY <2>2, <2>4, TreePaths
<1>2. \A q \in Paths : \A n \in Labels : Append(q, n) # << >>
  BY AppendProperties DEF Paths
<1>4. Place0 \in X
  <2>1. ASSUME NEW v \in Tree(h), v.path = Place0.path PROVE v = Place0
    BY <1>1, <1>2, <2>1 DEF Place0
  <2> QED  BY <2>1, RootInTree
<1>5. ASSUME NEW p \in X, NEW u \in ChildrenOf(h, p) PROVE u \in X
  <2>1. u \in Tree(h)
    BY <1>5, RootedClosed DEF Closed
  <2>2. PICK k \in SubKeysOf(h, p.cell) : /\ Is(h, k, "key")
                                         /\ u = [cell |-> k, path |-> Append(p.path, h.cell[k].Name)]
    BY <1>5 DEF ChildrenOf
  <2>3. h.cell[k].Name \in Labels /\ p.path \in Paths
    <3>1. h.cell[k] \in Nodes
      BY <2>2, ContentFacts DEF Is, Hives
    <3>2. h.cell[k].Name \in Labels
      BY <3>1 DEF Nodes, Labels
    <3> QED  BY <3>2, TreePaths
  <2>4. ASSUME NEW v \in Tree(h), v.path = u.path PROVE v = u
    <3>1. v.path = Append(p.path, h.cell[k].Name)
      BY <2>2, <2>4
    <3>2. v # Place0
      BY <1>2, <2>3, <3>1 DEF Place0
    <3> DEFINE Leads(q, l) == /\ Is(h, l, "key") /\ h.cell[l].Name \in Labels /\ q.path \in Paths
                              /\ v = [cell |-> l, path |-> Append(q.path, h.cell[l].Name)]
    <3>0. PICK q \in Tree(h) : \E l \in SubKeysOf(h, q.cell) : Leads(q, l)
      BY <1>1, <3>2
    <3>3. PICK l \in SubKeysOf(h, q.cell) : Leads(q, l)
      BY <3>0
    <3>4. q.path = p.path /\ h.cell[l].Name = h.cell[k].Name
      <4>1. Append(q.path, h.cell[l].Name) = Append(p.path, h.cell[k].Name)
        BY <3>1, <3>3
      <4>2. q.path \in Paths /\ h.cell[l].Name \in Labels
        BY <3>3
      <4> HIDE DEF Leads
      <4> QED  BY <2>3, <4>1, <4>2, AppendsDiffer
    <3>5. q = p
      BY <3>4
    <3>6. l = k
      BY <2>2, <3>3, <3>4, <3>5 DEF Differ
    <3> QED  BY <2>2, <3>3, <3>5, <3>6
  <2> QED  BY <2>1, <2>4
<1> HIDE DEF X
<1>6. Closed(h, X)
  BY <1>4, <1>5 DEF Closed
<1>7. Tree(h) \subseteq X
  BY <1>6, TreeLeast
<1> QED  BY <1>7 DEF X

-----------------------------------------------------------------------------
(* What a walk does to the tree *)

PathsIn(h) == {x.path : x \in Tree(h)}

\* The key c, named name, is the one place that the tree has gained, below p.
Gains(h, g, p, name, c) ==
  /\ p \in Tree(h) /\ name \in Labels
  /\ Append(p.path, name) \notin PathsIn(h)
  /\ Tree(g) = Tree(h) \cup {[cell |-> c, path |-> Append(p.path, name)]}

\* No name but those of its subkeys leads on from a key.
LEMMA FreshPath ==
  ASSUME NEW h \in Hives, Rooted(h), Differ(h), NEW p \in Tree(h), NEW name \in Labels,
         \A k \in SubKeysOf(h, p.cell) : h.cell[k].Name # name
  PROVE  Append(p.path, name) \notin PathsIn(h)
<1> SUFFICES ASSUME NEW x \in Tree(h), x.path = Append(p.path, name) PROVE FALSE
  BY DEF PathsIn
<1>1. p.path \in Paths
  BY TreePaths
<1>2. x # Place0
  <2>1. Append(p.path, name) # << >>
    BY <1>1, AppendProperties DEF Paths
  <2> QED  BY <2>1 DEF Place0
<1>3. PICK q \in Tree(h) : x \in ChildrenOf(h, q)
  BY <1>2, TreeParent
<1>4. PICK k \in SubKeysOf(h, q.cell) : /\ Is(h, k, "key")
                                       /\ x = [cell |-> k, path |-> Append(q.path, h.cell[k].Name)]
  BY <1>3 DEF ChildrenOf
<1>5. h.cell[k].Name \in Labels
  <2>1. h.cell[k] \in Nodes
    BY <1>4, ContentFacts DEF Is, Hives
  <2> QED  BY <2>1 DEF Nodes, Labels
<1>6. q.path \in Paths
  BY TreePaths
<1>7. Append(q.path, h.cell[k].Name) = Append(p.path, name)
  BY <1>4
<1>8. q.path = p.path /\ h.cell[k].Name = name
  BY <1>1, <1>5, <1>6, <1>7, AppendsDiffer
<1>9. q = p
  BY <1>8, OneKey
<1> QED  BY <1>4, <1>8, <1>9

\* Of a key with a new name the tree gains a place, and names still differ.
LEMMA EnteredGains ==
  ASSUME NEW h \in Hives, NEW g, NEW parent, NEW name \in Names, NEW c,
         EnteredKey(h, g, parent, name, c),
         Hanging(h), Differ(h), NEW p \in Tree(h), p.cell = parent,
         \A k \in SubKeysOf(h, parent) : h.cell[k].Name # name
  PROVE  Differ(g) /\ Gains(h, g, p, name, c)
<1> DEFINE new == [cell |-> c, path |-> Append(p.path, name)]
<1>1. Tree(g) = Tree(h) \cup {new}
  BY EnteredTree
<1>2. Append(p.path, name) \notin PathsIn(h)
  BY FreshPath DEF Hanging, Labels
<1>3. ASSUME NEW x \in Tree(g), NEW d \in SubKeysOf(g, x.cell), NEW e \in SubKeysOf(g, x.cell),
             Is(g, d, "key"), Is(g, e, "key"), g.cell[d].Name = g.cell[e].Name
      PROVE  d = e
  <2>1. x # new
    BY <1>3 DEF EnteredKey
  <2>2. x \in Tree(h)
    BY <1>1, <2>1
  <2>3. x.cell \in Cells /\ h.cell[x.cell].kind = "key" /\ x.cell # c
    <3>1. x.cell \in Cells /\ h.cell[x.cell].kind = "key"
      BY <2>2, TreeKeys DEF Hanging, Rooted
    <3> QED  BY <3>1 DEF EnteredKey
  <2>4. SubKeysOf(g, x.cell) = SubKeysOf(h, x.cell) \cup (IF x.cell = parent THEN {c} ELSE {})
    BY <2>3 DEF EnteredKey
  <2>5. \A k \in SubKeysOf(h, x.cell) : Is(h, k, "key") /\ k # c /\ g.cell[k].Name = h.cell[k].Name
    <3> SUFFICES ASSUME NEW k \in SubKeysOf(h, x.cell)
                 PROVE  Is(h, k, "key") /\ k # c /\ g.cell[k].Name = h.cell[k].Name
      OBVIOUS
    <3>1. Is(h, k, "key")
      BY <2>2 DEF Hanging
    <3> QED  BY <3>1 DEF EnteredKey, Is
  <2>6. g.cell[c].Name = name
    BY DEF EnteredKey
  <2>7. CASE d \in SubKeysOf(h, x.cell) /\ e \in SubKeysOf(h, x.cell)
    BY <1>3, <2>2, <2>5, <2>7 DEF Differ
  <2>8. CASE d \notin SubKeysOf(h, x.cell) \/ e \notin SubKeysOf(h, x.cell)
    BY <1>3, <2>4, <2>5, <2>6, <2>8
  <2> QED  BY <2>7, <2>8
<1>4. Differ(g)
  BY <1>3 DEF Differ
<1> QED  BY <1>1, <1>2, <1>4 DEF Gains, Labels

\* The same keys in the same places.
LEMMA SameKeysDiffer ==
  ASSUME NEW h, NEW g, Rooted(h), Differ(h), Tree(g) = Tree(h),
         \A c \in Cells :
           /\ g.cell[c].kind = "key" <=> h.cell[c].kind = "key"
           /\ h.cell[c].kind = "key" =>
                g.cell[c].Name = h.cell[c].Name /\ SubKeysOf(g, c) = SubKeysOf(h, c)
  PROVE  Differ(g)
<1> SUFFICES ASSUME NEW x \in Tree(h),
                    NEW d \in SubKeysOf(g, x.cell), NEW e \in SubKeysOf(g, x.cell),
                    Is(g, d, "key"), Is(g, e, "key"), g.cell[d].Name = g.cell[e].Name
             PROVE  d = e
  BY DEF Differ
<1>1. x.cell \in Cells /\ h.cell[x.cell].kind = "key"
  BY TreeKeys DEF Rooted
<1>2. d \in SubKeysOf(h, x.cell) /\ e \in SubKeysOf(h, x.cell)
  BY <1>1
<1>3. Is(h, d, "key") /\ Is(h, e, "key") /\ h.cell[d].Name = h.cell[e].Name
  BY DEF Is
<1> QED  BY <1>2, <1>3 DEF Differ

LEMMA WalkTree ==
  ASSUME NEW at, At(at), Hanging(at.hive), Differ(at.hive), Loose(at.hive, at.cell),
         NEW name \in Names, NEW type \in DOMAIN Storage, NEW fails \in BOOLEAN
  PROVE  LET r == Walk(at, name, type, fails) IN
         /\ Differ(r.hive)
         /\ \/ /\ Tree(r.hive) = Tree(at.hive)
               /\ r.cell # HCELL_NIL =>
                    \E p \in Tree(at.hive) : p.cell = at.cell /\ Append(p.path, name) \in PathsIn(at.hive)
            \/ \E p \in Tree(at.hive) :
                 /\ p.cell = at.cell /\ r.cell \in Storage[type]
                 /\ Gains(at.hive, r.hive, p, name, r.cell)
<1> DEFINE r == Walk(at, name, type, fails)
           h == at.hive
           parent == at.cell
           found == CmpFindSubKeyByName(h, parent, name)
           Stays == /\ Tree(r.hive) = Tree(h)
                    /\ r.cell # HCELL_NIL =>
                         \E p \in Tree(h) : p.cell = parent /\ Append(p.path, name) \in PathsIn(h)
           Goes == \E p \in Tree(h) :
                     p.cell = parent /\ r.cell \in Storage[type] /\ Gains(h, r.hive, p, name, r.cell)
<1> SUFFICES Differ(r.hive) /\ (Stays \/ Goes)
  OBVIOUS
<1>1. \A x : [at EXCEPT !.cell = x].hive = at.hive /\ [at EXCEPT !.cell = x].cell = x
  BY DEF At
<1>2. h \in Hives
  BY DEF At
<1>3. CASE ~Is(h, parent, "key")
  <2>1. r = [at EXCEPT !.cell = HCELL_NIL]
    BY <1>3 DEF Walk
  <2> HIDE DEF r
  <2> QED  BY <1>1, <2>1
<1>4. CASE Is(h, parent, "key") /\ found # HCELL_NIL
  <2>1. r = [at EXCEPT !.cell = Resolved(found)]
    BY <1>4 DEF Walk
  <2>2. r.hive = h
    BY <1>1, <2>1
  <2>3. PICK p \in Tree(h) : p.cell = parent
    BY <1>4 DEF Loose, Reached
  <2>4. found \in SubKeysOf(h, parent) /\ h.cell[found].Name = name
    BY <1>2, <1>4, FindFacts DEF Is
  <2> HIDE DEF found, r
  <2>5. [cell |-> found, path |-> Append(p.path, name)] \in Tree(h)
    BY <2>3, <2>4, ChildReached
  <2>6. Append(p.path, name) \in PathsIn(h)
    BY <2>5 DEF PathsIn
  <2> QED  BY <2>2, <2>3, <2>6
<1>5. CASE Is(h, parent, "key") /\ found = HCELL_NIL
  <2>0. parent \in Cells /\ h.cell[parent].kind = "key"
    BY <1>5 DEF Is
  <2>1. r = CmiAddSubKey(h, parent, name, type, fails)
    BY <1>5 DEF Walk
  <2>2. \/ r.cell = HCELL_NIL /\ r.hive = h
        \/ r.cell = HCELL_NIL /\ NotEntered(h, r.hive, parent)
        \/ Entered(h, r.hive, parent, name, type, r.cell)
    BY <1>2, <2>0, <2>1, AddedFacts
  <2>3. \A k \in SubKeysOf(h, parent) : h.cell[k].Name # name
    BY <1>2, <1>5, <2>0, FindFacts
  <2> HIDE DEF r, found
  <2>4. CASE r.cell = HCELL_NIL /\ r.hive = h
    BY <2>4
  <2>5. CASE r.cell = HCELL_NIL /\ NotEntered(h, r.hive, parent)
    <3> DEFINE g == r.hive
    <3>1. \A d \in Cells : /\ g.cell[d].kind = h.cell[d].kind
                           /\ h.cell[d].kind # "security" => g.cell[d] = h.cell[d]
      BY <1>2, <2>5, CountedIsSame DEF NotEntered
    <3> HIDE DEF g
    <3>2. \A d \in Cells :
            /\ g.cell[d].kind = "key" <=> h.cell[d].kind = "key"
            /\ h.cell[d].kind = "key" =>
                 /\ g.cell[d].Name = h.cell[d].Name /\ g.cell[d].Parent = h.cell[d].Parent
                 /\ SubKeysOf(g, d) = SubKeysOf(h, d)
      BY <3>1 DEF SubKeysOf
    <3>3. Tree(g) = Tree(h)
      BY <3>2, SameKeysSameTree DEF Hanging
    <3>4. Differ(g)
      BY <3>2, <3>3, SameKeysDiffer DEF Hanging
    <3> QED  BY <2>5, <3>3, <3>4 DEF g
  <2>6. CASE Entered(h, r.hive, parent, name, type, r.cell)
    <3>1. EnteredKey(h, r.hive, parent, name, r.cell)
      BY <1>2, <2>0, <2>6, EnteredIsEnteredKey
    <3>2. PICK p \in Tree(h) : p.cell = parent
      BY <1>5 DEF Loose, Reached
    <3>3. Differ(r.hive) /\ Gains(h, r.hive, p, name, r.cell)
      BY <1>2, <2>3, <3>1, <3>2, EnteredGains
    <3>4. r.cell \in Storage[type]
      BY <2>6 DEF Entered
    <3> QED  BY <3>2, <3>3, <3>4
  <2> QED  BY <2>2, <2>4, <2>5, <2>6
<1> QED  BY <1>3, <1>4, <1>5

-----------------------------------------------------------------------------
(* Trees of keys as KeyTree has them *)

KeyAt(x) == [path |-> x.path, volatile |-> x.cell \in VolatileCells]

LEMMA KeysFacts ==
  ASSUME NEW h
  PROVE  /\ KeysOf(h) = {KeyAt(x) : x \in Tree(h)}
         /\ {k.path : k \in KeysOf(h)} = PathsIn(h)
         /\ << >> \in PathsIn(h)
<1>1. KeysOf(h) = {KeyAt(x) : x \in Tree(h)}
  BY DEF KeysOf, KeyAt
<1>2. \A x : KeyAt(x).path = x.path
  BY DEF KeyAt
<1>3. {k.path : k \in KeysOf(h)} = PathsIn(h)
  BY <1>1, <1>2 DEF PathsIn
<1>4. << >> \in PathsIn(h)
  BY RootInTree DEF PathsIn, Place0
<1> QED  BY <1>1, <1>3, <1>4

LEMMA SameOperators ==
  /\ \A s : Abstract!Front(s) = Front(s)
  /\ \A s, t : Abstract!IsPrefix(s, t) = IsPrefix(s, t)
  /\ \A s, t : Abstract!IsStrictPrefix(s, t) = IsStrictPrefix(s, t)
<1>1. \A s : Abstract!Front(s) = Front(s)
  BY DEF Abstract!Front, Front
<1>2. \A s, t : Abstract!IsPrefix(s, t) = IsPrefix(s, t)
  BY DEF Abstract!IsPrefix, IsPrefix
<1>3. \A s, t : Abstract!IsStrictPrefix(s, t) = IsStrictPrefix(s, t)
  BY <1>2 DEF Abstract!IsStrictPrefix, IsStrictPrefix
<1> QED  BY <1>1, <1>2, <1>3

\* What KeyTree asks of the keys that a call adds.
LEMMA GrownIs ==
  ASSUME NEW t, NEW grown, NEW new, new = grown \ t, t \subseteq grown, new # {},
         \E volatile \in BOOLEAN : \A k \in new : k.volatile = volatile,
         \A k \in new : /\ k.path # << >>
                        /\ Front(k.path) \in {n.path : n \in grown}
                        /\ k.path \notin {n.path : n \in grown \ {k}},
         \A k, n \in new : IsPrefix(k.path, n.path) \/ IsPrefix(n.path, k.path)
  PROVE  Abstract!Grown(t, grown)
<1>1. \A k, n \in new : Abstract!IsPrefix(k.path, n.path) \/ Abstract!IsPrefix(n.path, k.path)
  BY SameOperators
<1>2. \A k \in new : Abstract!Front(k.path) \in {n.path : n \in grown}
  BY SameOperators
<1> QED  BY <1>1, <1>2 DEF Abstract!Grown

LEMMA OneGrown ==
  ASSUME NEW t, NEW k, k.volatile \in BOOLEAN, k.path \in Paths, k.path # << >>,
         k.path \notin {n.path : n \in t}, Front(k.path) \in {n.path : n \in t}
  PROVE  Abstract!Grown(t, t \cup {k})
<1> DEFINE grown == t \cup {k}
           new == grown \ t
<1>1. k \notin t
  OBVIOUS
<1>2. new = {k} /\ t \subseteq grown
  BY <1>1
<1>3. \E volatile \in BOOLEAN : \A n \in new : n.volatile = volatile
  BY <1>2
<1>4. Front(k.path) \in {n.path : n \in grown}
  OBVIOUS
<1>5. k.path \notin {n.path : n \in grown \ {k}}
  OBVIOUS
<1>6. IsPrefix(k.path, k.path)
  BY PathPrefixes
<1> HIDE DEF grown, new
<1>7. \A n, m \in new : IsPrefix(n.path, m.path) \/ IsPrefix(m.path, n.path)
  BY <1>2, <1>6
<1>8. \A n \in new : /\ n.path # << >>
                     /\ Front(n.path) \in {m.path : m \in grown}
                     /\ n.path \notin {m.path : m \in grown \ {n}}
  BY <1>2, <1>4, <1>5
<1>9. new # {} /\ new = grown \ t
  BY <1>2 DEF new
<1>10. Abstract!Grown(t, grown)
  BY <1>2, <1>3, <1>7, <1>8, <1>9, GrownIs
<1> QED  BY <1>10 DEF grown

\* Two keys, the second below the first.
LEMMA TwoGrown ==
  ASSUME NEW t, NEW k, NEW l, k.volatile \in BOOLEAN, l.volatile = k.volatile,
         k.path \in Paths, k.path # << >>, l.path \in Paths, l.path # << >>,
         k.path \notin {n.path : n \in t}, Front(k.path) \in {n.path : n \in t},
         l.path \notin {n.path : n \in t}, l.path # k.path,
         Front(l.path) = k.path, IsPrefix(k.path, l.path)
  PROVE  Abstract!Grown(t, t \cup {k} \cup {l})
<1> DEFINE grown == t \cup {k} \cup {l}
           new == grown \ t
<1>1. k \notin t /\ l \notin t
  OBVIOUS
<1>2. new = {k, l} /\ t \subseteq grown
  BY <1>1
<1>3. \E volatile \in BOOLEAN : \A n \in new : n.volatile = volatile
  BY <1>2
<1>4. Front(k.path) \in {n.path : n \in grown} /\ Front(l.path) \in {n.path : n \in grown}
  OBVIOUS
<1>5. k.path \notin {n.path : n \in grown \ {k}} /\ l.path \notin {n.path : n \in grown \ {l}}
  OBVIOUS
<1>6. IsPrefix(k.path, k.path) /\ IsPrefix(l.path, l.path)
  BY PathPrefixes
<1> HIDE DEF grown, new
<1>7. \A n, m \in new : IsPrefix(n.path, m.path) \/ IsPrefix(m.path, n.path)
  BY <1>2, <1>6
<1>8. \A n \in new : /\ n.path # << >>
                     /\ Front(n.path) \in {m.path : m \in grown}
                     /\ n.path \notin {m.path : m \in grown \ {n}}
  BY <1>2, <1>4, <1>5
<1>9. new # {} /\ new = grown \ t
  BY <1>2 DEF new
<1>10. Abstract!Grown(t, grown)
  BY <1>2, <1>3, <1>7, <1>8, <1>9, GrownIs
<1> QED  BY <1>10 DEF grown

\* What a place that is gained is to KeyTree.
LEMMA GainsKeys ==
  ASSUME NEW h \in Hives, NEW g, NEW p, NEW name, NEW c, Gains(h, g, p, name, c)
  PROVE  LET k == [path |-> Append(p.path, name), volatile |-> c \in VolatileCells] IN
         /\ KeysOf(g) = KeysOf(h) \cup {k}
         /\ k.path \in Paths /\ k.path # << >> /\ k.path \notin PathsIn(h)
         /\ Front(k.path) = p.path /\ p.path \in PathsIn(h)
         /\ IsPrefix(p.path, k.path)
<1> DEFINE k == [path |-> Append(p.path, name), volatile |-> c \in VolatileCells]
           new == [cell |-> c, path |-> Append(p.path, name)]
<1>1. p \in Tree(h) /\ name \in Labels /\ Tree(g) = Tree(h) \cup {new} /\ k.path \notin PathsIn(h)
  BY DEF Gains
<1>2. p.path \in Paths /\ p.path \in PathsIn(h)
  BY <1>1, TreePaths DEF PathsIn
<1>3. KeyAt(new) = k
  BY DEF KeyAt
<1>4. KeysOf(g) = KeysOf(h) \cup {k}
  <2> HIDE DEF new, k
  <2> QED  BY <1>1, <1>3, KeysFacts
<1>5. Append(p.path, name) \in Paths /\ Append(p.path, name) # << >>
  BY <1>1, <1>2, AppendProperties DEF Paths
<1>6. Front(Append(p.path, name)) = p.path /\ IsPrefix(p.path, Append(p.path, name))
  BY <1>1, <1>2, PrefixFacts DEF Paths
<1> QED  BY <1>1, <1>2, <1>4, <1>5, <1>6

\* A call that creates one key or two, or none, below a key of the tree.
LEMMA CreateKeys ==
  ASSUME NEW h \in Hives, Hanging(h), Differ(h), NEW start, Loose(h, start), LinkLoose(h), NEW path,
         \/ \E n \in Names : path = <<n>>
         \/ \E n, m \in Names : path = <<n, m>>,
         NEW type \in DOMAIN Storage, NEW fails \in BOOLEAN
  PROVE  LET g == RegpCreateKey(h, start, path, type, fails).hive IN
         /\ Differ(g)
         /\ KeysOf(g) = KeysOf(h) \/ Abstract!Grown(KeysOf(h), KeysOf(g))
<1> DEFINE b == [hive |-> h, cell |-> start]
           Same(i, j) == KeysOf(j) = KeysOf(i)
<1>1. At(b) /\ b.hive = h /\ b.cell = start
  BY DEF At
<1> HIDE DEF b
<1>2. ASSUME NEW i, NEW j, Tree(j) = Tree(i) PROVE KeysOf(j) = KeysOf(i)
  BY <1>2 DEF KeysOf
<1>3. ASSUME NEW i \in Hives, NEW j, NEW p, NEW n, NEW c, Gains(i, j, p, n, c)
      PROVE  Abstract!Grown(KeysOf(i), KeysOf(j))
  <2> DEFINE k == [path |-> Append(p.path, n), volatile |-> c \in VolatileCells]
  <2>1. /\ KeysOf(j) = KeysOf(i) \cup {k}
        /\ k.path \in Paths /\ k.path # << >> /\ k.path \notin PathsIn(i)
        /\ Front(k.path) \in PathsIn(i)
    BY <1>3, GainsKeys
  <2>2. k.volatile \in BOOLEAN
    OBVIOUS
  <2> HIDE DEF k
  <2> QED  BY <2>1, <2>2, KeysFacts, OneGrown
<1>4. CASE \E n \in Names : path = <<n>>
  <2>1. PICK n \in Names : path = <<n>>
    BY <1>4
  <2> DEFINE x == Walk(b, n, type, fails)
  <2>2. RegpCreateKey(h, start, path, type, fails) = x
    BY <2>1, WalkOfOne DEF b
  <2>3. /\ Differ(x.hive)
        /\ Tree(x.hive) = Tree(h) \/ \E p \in Tree(h) : Gains(h, x.hive, p, n, x.cell)
    BY <1>1, WalkTree
  <2> HIDE DEF x
  <2> QED  BY <1>2, <1>3, <2>2, <2>3
<1>5. CASE \E n, m \in Names : path = <<n, m>>
  <2>1. PICK n \in Names, m \in Names : path = <<n, m>>
    BY <1>5
  <2> DEFINE x == Walk(b, n, type, fails)
             y == Walk(x, m, type, fails)
  <2>2. RegpCreateKey(h, start, path, type, fails) = y
    BY <2>1, WalkOfTwo DEF b
  <2>3. /\ Differ(x.hive)
        /\ \/ Tree(x.hive) = Tree(h)
           \/ \E p \in Tree(h) : x.cell \in Storage[type] /\ Gains(h, x.hive, p, n, x.cell)
    BY <1>1, WalkTree
  <2>4. At(x) /\ Extends(h, x.hive) /\ Loose(x.hive, x.cell)
    BY <1>1, WalkExtends, WalkKept
  <2> HIDE DEF x
  <2>5. Hanging(x.hive) /\ x.hive \in Hives
    BY <2>4 DEF Extends, At
  <2>6. /\ Differ(y.hive)
        /\ \/ Tree(y.hive) = Tree(x.hive)
           \/ \E q \in Tree(x.hive) :
                q.cell = x.cell /\ y.cell \in Storage[type] /\ Gains(x.hive, y.hive, q, m, y.cell)
    BY <2>3, <2>4, <2>5, WalkTree
  <2> HIDE DEF y
  <2>7. CASE Tree(x.hive) = Tree(h)
    <3>1. KeysOf(x.hive) = KeysOf(h)
      BY <1>2, <2>7
    <3> QED  BY <1>2, <1>3, <2>2, <2>5, <2>6, <3>1
  <2>8. CASE \E p \in Tree(h) : x.cell \in Storage[type] /\ Gains(h, x.hive, p, n, x.cell)
    <3>1. PICK p \in Tree(h) : x.cell \in Storage[type] /\ Gains(h, x.hive, p, n, x.cell)
      BY <2>8
    <3>2. CASE Tree(y.hive) = Tree(x.hive)
      <4>1. KeysOf(y.hive) = KeysOf(x.hive)
        BY <1>2, <3>2
      <4> QED  BY <1>3, <2>2, <2>6, <3>1, <4>1
    <3>3. CASE \E q \in Tree(x.hive) :
                 q.cell = x.cell /\ y.cell \in Storage[type] /\ Gains(x.hive, y.hive, q, m, y.cell)
      <4>1. PICK q \in Tree(x.hive) :
                   q.cell = x.cell /\ y.cell \in Storage[type] /\ Gains(x.hive, y.hive, q, m, y.cell)
        BY <3>3
      <4> DEFINE k == [path |-> Append(p.path, n), volatile |-> x.cell \in VolatileCells]
                 l == [path |-> Append(q.path, m), volatile |-> y.cell \in VolatileCells]
                 z == [cell |-> x.cell, path |-> Append(p.path, n)]
      <4>2. q = z
        <5>1. z \in Tree(x.hive) /\ z.cell = x.cell
          BY <3>1 DEF Gains
        <5> HIDE DEF z
        <5> QED  BY <2>5, <4>1, <5>1, OnePath
      <4>3. /\ KeysOf(x.hive) = KeysOf(h) \cup {k}
            /\ k.path \in Paths /\ k.path # << >> /\ k.path \notin PathsIn(h)
            /\ Front(k.path) \in PathsIn(h)
        BY <3>1, GainsKeys
      <4>4. /\ KeysOf(y.hive) = KeysOf(x.hive) \cup {l}
            /\ l.path \in Paths /\ l.path # << >> /\ l.path \notin PathsIn(x.hive)
            /\ Front(l.path) = q.path /\ IsPrefix(q.path, l.path)
        BY <2>5, <4>1, GainsKeys
      <4>5. k.path = q.path
        BY <4>2
      <4>6. k.volatile \in BOOLEAN /\ l.volatile = k.volatile
        <5>1. (x.cell \in VolatileCells) = (y.cell \in VolatileCells)
          BY <3>1, <4>1, StorageFacts, CellsFacts
        <5> QED  BY <5>1
      <4> HIDE DEF k, l
      <4>7. l.path \notin PathsIn(h) /\ l.path # k.path
        BY <4>3, <4>4, KeysFacts
      <4>8. Abstract!Grown(KeysOf(h), KeysOf(h) \cup {k} \cup {l})
        BY <4>3, <4>4, <4>5, <4>6, <4>7, KeysFacts, TwoGrown
      <4> QED  BY <2>2, <2>6, <4>3, <4>4, <4>8
    <3> QED  BY <2>6, <3>2, <3>3
  <2> QED  BY <2>3, <2>7, <2>8
<1> QED  BY <1>4, <1>5

LEMMA NotMember ==
  ASSUME NEW x, NEW S, x \notin S
  PROVE  (x \in S) = FALSE
  BY SMT

\* A default key, looked up from the root and made if it is missing.
LEMMA DefaultKey ==
  ASSUME NEW h \in Hives, Hanging(h), Differ(h), link = None,
         NEW name \in Names, NEW type \in DOMAIN Storage,
         NEW volatile \in BOOLEAN, volatile <=> type = "Volatile",
         NEW r, r = RegpCreateKey(h, RootCell, <<name>>, type, FALSE), r.cell # HCELL_NIL
  PROVE  /\ At(r) /\ Hanging(r.hive) /\ Differ(r.hive)
         /\ KeysOf(r.hive) = KeysOf(h) \cup
              (IF <<name>> \in PathsIn(h) THEN {} ELSE {[path |-> <<name>>, volatile |-> volatile]})
<1>0. FALSE \in BOOLEAN
  OBVIOUS
<1> DEFINE b == [hive |-> h, cell |-> RootCell]
<1>1. At(b) /\ b.hive = h /\ b.cell = RootCell
  BY DEF At
<1>2. r = Walk(b, name, type, FALSE)
  BY WalkOfOne
<1> HIDE DEF b
<1>3. Loose(h, RootCell) /\ LinkLoose(h)
  BY RootInTree DEF Loose, Reached, Place0, LinkLoose
<1>4. At(r) /\ Extends(h, r.hive)
  BY <1>0, <1>1, <1>2, <1>3, WalkExtends, WalkKept
<1>5. ASSUME NEW p \in Tree(h), p.cell = RootCell PROVE Append(p.path, name) = <<name>>
  <2>1. p = Place0
    BY <1>5, RootInTree, OnePath DEF Place0
  <2> QED  BY <2>1 DEF Place0
<1>6. /\ Differ(r.hive)
      /\ \/ Tree(r.hive) = Tree(h) /\ \E p \in Tree(h) : p.cell = RootCell /\ Append(p.path, name) \in PathsIn(h)
         \/ \E p \in Tree(h) :
              p.cell = RootCell /\ r.cell \in Storage[type] /\ Gains(h, r.hive, p, name, r.cell)
  <2>1. Hanging(b.hive) /\ Differ(b.hive) /\ Loose(b.hive, b.cell)
    BY <1>1, <1>3
  <2>2. ASSUME NEW fails \in BOOLEAN
        PROVE  LET q == Walk(b, name, type, fails) IN
               /\ Differ(q.hive)
               /\ \/ /\ Tree(q.hive) = Tree(b.hive)
                     /\ q.cell # HCELL_NIL =>
                          \E p \in Tree(b.hive) : p.cell = b.cell /\ Append(p.path, name) \in PathsIn(b.hive)
                  \/ \E p \in Tree(b.hive) :
                       p.cell = b.cell /\ q.cell \in Storage[type] /\ Gains(b.hive, q.hive, p, name, q.cell)
    BY <1>1, <2>1, WalkTree
  <2>3. /\ Differ(r.hive)
        /\ \/ /\ Tree(r.hive) = Tree(b.hive)
              /\ r.cell # HCELL_NIL =>
                   \E p \in Tree(b.hive) : p.cell = b.cell /\ Append(p.path, name) \in PathsIn(b.hive)
           \/ \E p \in Tree(b.hive) :
                p.cell = b.cell /\ r.cell \in Storage[type] /\ Gains(b.hive, r.hive, p, name, r.cell)
    BY <1>0, <1>2, <2>2
  <2> QED  BY <1>1, <2>3
<1>7. CASE Tree(r.hive) = Tree(h) /\ \E p \in Tree(h) : p.cell = RootCell /\ Append(p.path, name) \in PathsIn(h)
  <2>1. <<name>> \in PathsIn(h)
    BY <1>5, <1>7
  <2>2. KeysOf(r.hive) = KeysOf(h)
    BY <1>7 DEF KeysOf
  <2> QED  BY <1>4, <1>6, <2>1, <2>2 DEF Extends
<1>8. CASE \E p \in Tree(h) :
             p.cell = RootCell /\ r.cell \in Storage[type] /\ Gains(h, r.hive, p, name, r.cell)
  <2>1. PICK p \in Tree(h) :
          p.cell = RootCell /\ r.cell \in Storage[type] /\ Gains(h, r.hive, p, name, r.cell)
    BY <1>8
  <2> DEFINE k == [path |-> Append(p.path, name), volatile |-> r.cell \in VolatileCells]
  <2>2. KeysOf(r.hive) = KeysOf(h) \cup {k} /\ k.path \notin PathsIn(h)
    BY <2>1, GainsKeys
  <2>3. (r.cell \in VolatileCells) = volatile
    <3>1. r.cell \in VolatileCells <=> type = "Volatile"
      BY <2>1, StorageFacts, CellsFacts
    <3>2. CASE volatile = TRUE
      BY <3>1, <3>2
    <3>3. CASE volatile = FALSE
      <4>1. ~(r.cell \in VolatileCells)
        BY <3>1, <3>3
      <4>2. (r.cell \in VolatileCells) = FALSE
        BY <4>1, NotMember
      <4> QED  BY <3>3, <4>2
    <3> QED  BY <3>2, <3>3
  <2>4. k = [path |-> <<name>>, volatile |-> volatile]
    BY <1>5, <2>1, <2>3
  <2>5. k.path = <<name>>
    BY <1>5, <2>1
  <2> HIDE DEF k
  <2> QED  BY <1>4, <1>6, <2>2, <2>4, <2>5 DEF Extends
<1> QED  BY <1>6, <1>7, <1>8

\* What an initialisation adds to the keys that it finds.
LEMMA DefaultKeys ==
  ASSUME NEW h \in Hives, Hanging(h), Differ(h), link = None,
         Linked(WithControlSet(h), WithLink(WithControlSet(h)))
  PROVE  Differ(hive') /\ KeysOf(hive') = Abstract!WithDefaults(KeysOf(h))
<1> DEFINE at == WithControlSet(h)
           linked == WithLink(at)
           cs == [path |-> <<ControlSet001>>, volatile |-> FALSE]
           ccs == [path |-> <<CurrentControlSet>>, volatile |-> TRUE]
<1>1. /\ "Stable" \in DOMAIN Storage /\ "Volatile" \in DOMAIN Storage
      /\ TRUE \in BOOLEAN /\ FALSE \in BOOLEAN
      /\ FALSE <=> "Stable" = "Volatile"
      /\ TRUE <=> "Volatile" = "Volatile"
  BY StorageFacts
<1>2. ControlSet001 \in Names /\ CurrentControlSet \in Names
  BY DEF Names
<1>3. at.cell # HCELL_NIL /\ linked.cell # HCELL_NIL /\ hive' = linked.hive
  BY DEF Linked
<1>4. at = RegpCreateKey(h, RootCell, <<ControlSet001>>, "Stable", FALSE)
  BY DEF WithControlSet
<1>5. linked = RegpCreateKey(at.hive, RootCell, <<CurrentControlSet>>, "Volatile", FALSE)
  BY DEF WithLink
<1> HIDE DEF at, linked
<1>6. /\ At(at) /\ Hanging(at.hive) /\ Differ(at.hive)
      /\ KeysOf(at.hive) = KeysOf(h) \cup (IF <<ControlSet001>> \in PathsIn(h) THEN {} ELSE {cs})
  BY <1>1, <1>2, <1>3, <1>4, DefaultKey
<1>7. /\ Differ(linked.hive)
      /\ KeysOf(linked.hive) = KeysOf(at.hive) \cup
           (IF <<CurrentControlSet>> \in PathsIn(at.hive) THEN {} ELSE {ccs})
  <2>1. at.hive \in Hives
    BY <1>6 DEF At
  <2> QED  BY <1>1, <1>2, <1>3, <1>5, <1>6, <2>1, DefaultKey
<1>8. <<CurrentControlSet>> \in PathsIn(at.hive) <=> <<CurrentControlSet>> \in PathsIn(h)
  <2>1. <<CurrentControlSet>> # <<ControlSet001>>
    BY NamesAssumption
  <2>2. cs.path = <<ControlSet001>>
    OBVIOUS
  <2> HIDE DEF cs
  <2>3. \A i : \A q : q \in PathsIn(i) <=> \E k \in KeysOf(i) : k.path = q
    BY KeysFacts
  <2> QED  BY <1>6, <2>1, <2>2, <2>3
<1>9. KeysOf(linked.hive) = KeysOf(h) \cup {d \in {cs, ccs} : d.path \notin PathsIn(h)}
  <2>1. cs.path = <<ControlSet001>> /\ ccs.path = <<CurrentControlSet>>
    OBVIOUS
  <2> HIDE DEF cs, ccs
  <2> QED  BY <1>6, <1>7, <1>8, <2>1
<1>10. KeysOf(linked.hive) = Abstract!WithDefaults(KeysOf(h))
  BY <1>9, KeysFacts DEF Abstract!WithDefaults
<1> QED  BY <1>3, <1>7, <1>10

-----------------------------------------------------------------------------
(* The tree of a file *)

\* A hive that was read in: nothing in the volatile store.
NoVolatiles(h) == \A c \in Cells \ StableCells : h.cell[c].kind = "free"

\* Loading purges what the tree does not have.
LEMMA LoadedTree ==
  ASSUME NEW h \in Hives, NoVolatiles(h), Listed(h), RootIsKey(h),
         h.cell[RootCell].Parent = HCELL_NIL
  PROVE  LET g == CmpPurgeVolatiles(h) IN
         /\ Tree(g) = Tree(h)
         /\ \A x \in Tree(h) : x.cell \in StableCells
         /\ Rooted(h)
         /\ Differ(h) => Differ(g)
<1> DEFINE g == CmpPurgeVolatiles(h)
<1>1. /\ Hanging(g)
      /\ \A x \in Tree(g) : x.cell \in Loadable(h)
      /\ \A d \in Loadable(h) : SubKeysOf(g, d) = h.cell[d].SubKeys.Stable
      /\ \A d \in Cells : /\ g.cell[d].kind = h.cell[d].kind
                          /\ h.cell[d].kind = "key" => /\ g.cell[d].Parent = h.cell[d].Parent
                                                       /\ g.cell[d].Name = h.cell[d].Name
  BY PurgedTree
<1> HIDE DEF g
<1>2. \A c \in Loadable(h) : c \in StableCells /\ c \in Cells /\ h.cell[c].kind = "key"
  BY LoadableIsKeys, CellsFacts DEF StableKeys
<1>3. ASSUME NEW d \in Loadable(h), NEW k \in SubKeysOf(h, d), Is(h, k, "key")
      PROVE  k \in SubKeysOf(g, d) /\ Is(g, k, "key") /\ g.cell[k].Name = h.cell[k].Name
             /\ h.cell[k].Parent = d
  <2>1. k \in StableCells /\ k \in Cells
    BY <1>3 DEF NoVolatiles, Is
  <2>2. h.cell[d] \in Nodes
    BY <1>2, ContentFacts DEF Hives
  <2>3. k \in h.cell[d].SubKeys.Stable
    BY <1>3, <2>1, <2>2, CellsFacts DEF Nodes, SubKeysOf
  <2>4. h.cell[k].Parent = d
    BY <1>2, <2>3 DEF Listed
  <2> QED  BY <1>1, <1>3, <2>1, <2>3, <2>4 DEF Is
<1>4. Closed(g, Tree(g))
  BY <1>1, TreeClosed
<1>5. Closed(h, Tree(g))
  <2>1. ASSUME NEW x \in Tree(g), NEW y \in ChildrenOf(h, x) PROVE y \in Tree(g)
    <3>1. PICK k \in SubKeysOf(h, x.cell) : /\ Is(h, k, "key")
                                           /\ y = [cell |-> k, path |-> Append(x.path, h.cell[k].Name)]
      BY <2>1 DEF ChildrenOf
    <3>2. y \in ChildrenOf(g, x)
      BY <1>1, <1>3, <3>1 DEF ChildrenOf
    <3> QED  BY <1>4, <3>2 DEF Closed
  <2> QED  BY <2>1, RootInTree DEF Closed
<1>6. Tree(h) \subseteq Tree(g)
  BY <1>5, TreeLeast
<1>7. Rooted(h)
  BY <1>1, <1>3, <1>6 DEF Rooted
<1>8. Closed(h, Tree(h))
  BY <1>7, RootedClosed
<1>9. Closed(g, Tree(h))
  <2>1. ASSUME NEW x \in Tree(h), NEW y \in ChildrenOf(g, x) PROVE y \in Tree(h)
    <3>1. PICK k \in SubKeysOf(g, x.cell) : /\ Is(g, k, "key")
                                           /\ y = [cell |-> k, path |-> Append(x.path, g.cell[k].Name)]
      BY <2>1 DEF ChildrenOf
    <3>2. k \in SubKeysOf(h, x.cell)
      BY <1>1, <1>6, <3>1 DEF SubKeysOf
    <3>3. Is(h, k, "key") /\ g.cell[k].Name = h.cell[k].Name
      BY <1>1, <3>1 DEF Is
    <3>4. y \in ChildrenOf(h, x)
      BY <3>1, <3>2, <3>3 DEF ChildrenOf
    <3> QED  BY <1>8, <3>4 DEF Closed
  <2> QED  BY <2>1, RootInTree DEF Closed
<1>10. Tree(g) \subseteq Tree(h)
  BY <1>9, TreeLeast
<1>11. ASSUME Differ(h) PROVE Differ(g)
  <2>1. \A x \in Tree(g) : SubKeysOf(g, x.cell) \subseteq SubKeysOf(h, x.cell)
    BY <1>1 DEF SubKeysOf
  <2>2. \A k : Is(g, k, "key") => Is(h, k, "key") /\ g.cell[k].Name = h.cell[k].Name
    BY <1>1 DEF Is
  <2> QED  BY <1>10, <1>11, <2>1, <2>2 DEF Differ
<1> QED  BY <1>1, <1>2, <1>6, <1>7, <1>10, <1>11 DEF g

\* What a hive has on no path through a volatile key.
LEMMA ImageTree ==
  ASSUME NEW h \in Hives, Hanging(h), Differ(h)
  PROVE  LET g == HvInitialize(ImageOf(h)) IN
         /\ Rooted(g) /\ Differ(g)
         /\ PathsIn(g) = Abstract!Lasting(KeysOf(h))
<1> DEFINE f == ImageOf(h)
           g == HvInitialize(f)
           Lasts(x) == \A y \in Tree(h) : IsPrefix(y.path, x.path) => y.cell \in StableCells
<1>1. f \in [StableCells -> Contents] /\ \A c \in StableCells : f[c] = h.cell[c]
  BY CellsFacts DEF ImageOf, Hives
<1> HIDE DEF f
<1>2. /\ g \in Hives
      /\ \A c \in StableCells : g.cell[c] = h.cell[c]
      /\ \A c \in Cells \ StableCells : g.cell[c].kind = "free"
  BY <1>1, ImageFacts
<1> HIDE DEF g
<1>3. \A c : Is(g, c, "key") <=> c \in StableCells /\ Is(h, c, "key")
  BY <1>2, CellsFacts DEF Is
<1>4. \A c \in StableCells : SubKeysOf(g, c) = SubKeysOf(h, c)
  BY <1>2 DEF SubKeysOf
<1>5. \A x \in Tree(h) : x.path \in Paths /\ x.cell \in Cells
  BY TreePaths, TreeKeys DEF Hanging, Rooted
<1>6. ASSUME NEW x \in Tree(h), NEW k \in SubKeysOf(h, x.cell)
      PROVE  /\ Is(h, k, "key") /\ h.cell[k].Parent = x.cell /\ h.cell[k].Name \in Labels
             /\ [cell |-> k, path |-> Append(x.path, h.cell[k].Name)] \in Tree(h)
  <2>1. Is(h, k, "key") /\ h.cell[k].Parent = x.cell
    BY DEF Hanging, Rooted
  <2>2. h.cell[k].Name \in Labels
    <3>1. h.cell[k] \in Nodes
      BY <2>1, ContentFacts DEF Is, Hives
    <3> QED  BY <3>1 DEF Nodes, Labels
  <2> QED  BY <2>1, <2>2, ChildReached
<1>7. \A x \in Tree(h) : IsPrefix(x.path, x.path)
  BY <1>5, PathPrefixes
<1>8. ASSUME NEW x \in Tree(h), NEW y \in Tree(h), NEW n \in Labels
      PROVE  IsPrefix(y.path, Append(x.path, n)) <=> IsPrefix(y.path, x.path) \/ y.path = Append(x.path, n)
  BY <1>5, PrefixFacts DEF Paths
<1> DEFINE X == {x \in Tree(h) : x.cell \in StableCells /\ Lasts(x)}
<1>9. Place0 \in X
  <2>1. Place0 \in Tree(h) /\ Place0.cell \in StableCells
    BY RootInTree, CellsFacts DEF Place0
  <2>2. ASSUME NEW y \in Tree(h), IsPrefix(y.path, Place0.path) PROVE y.cell \in StableCells
    <3>1. y.path = Place0.path
      BY <1>5, <2>2, PathPrefixes DEF Place0
    <3>2. y = Place0
      BY <2>1, <3>1, OneKey DEF Hanging
    <3> QED  BY <2>1, <3>2
  <2> QED  BY <2>1, <2>2
<1>10. Closed(g, X)
  <2>1. ASSUME NEW x \in X, NEW z \in ChildrenOf(g, x) PROVE z \in X
    <3>1. PICK k \in SubKeysOf(g, x.cell) : /\ Is(g, k, "key")
                                           /\ z = [cell |-> k, path |-> Append(x.path, g.cell[k].Name)]
      BY <2>1 DEF ChildrenOf
    <3>2. k \in StableCells /\ Is(h, k, "key") /\ g.cell[k].Name = h.cell[k].Name
      BY <1>2, <1>3, <3>1
    <3>3. k \in SubKeysOf(h, x.cell)
      BY <1>4, <3>1
    <3>4. z \in Tree(h) /\ z.cell = k /\ z.path = Append(x.path, h.cell[k].Name) /\ h.cell[k].Name \in Labels
      BY <1>6, <3>1, <3>2, <3>3
    <3>5. ASSUME NEW y \in Tree(h), IsPrefix(y.path, z.path) PROVE y.cell \in StableCells
      <4>1. IsPrefix(y.path, x.path) \/ y.path = z.path
        BY <1>8, <3>4, <3>5
      <4>2. CASE IsPrefix(y.path, x.path)
        BY <4>2
      <4>3. CASE y.path = z.path
        <5>1. y = z
          BY <3>4, <4>3, OneKey DEF Hanging
        <5> QED  BY <3>2, <3>4, <5>1
      <4> QED  BY <4>1, <4>2, <4>3
    <3> QED  BY <3>2, <3>4, <3>5
  <2> HIDE DEF X
  <2> QED  BY <1>9, <2>1 DEF Closed
<1>11. Tree(g) \subseteq X
  BY <1>10, TreeLeast
<1>12. Rooted(g)
  <2>1. RootIsKey(g) /\ g.cell[RootCell].Parent = HCELL_NIL
    BY <1>2, CellsFacts DEF Hanging, Rooted, RootIsKey
  <2>2. ASSUME NEW x \in Tree(g), NEW k \in SubKeysOf(g, x.cell), Is(g, k, "key")
        PROVE  g.cell[k].Parent = x.cell
    <3>1. x \in Tree(h) /\ x.cell \in StableCells
      BY <1>11
    <3>2. h.cell[k].Parent = x.cell
      BY <1>4, <1>6, <2>2, <3>1
    <3> QED  BY <1>2, <1>3, <2>2, <3>2
  <2> QED  BY <2>1, <2>2 DEF Rooted
<1>13. Differ(g)
  <2>1. ASSUME NEW x \in Tree(g), NEW d \in SubKeysOf(g, x.cell), NEW e \in SubKeysOf(g, x.cell),
               Is(g, d, "key"), Is(g, e, "key"), g.cell[d].Name = g.cell[e].Name
        PROVE  d = e
    <3>1. x \in Tree(h) /\ x.cell \in StableCells
      BY <1>11
    <3>2. d \in SubKeysOf(h, x.cell) /\ e \in SubKeysOf(h, x.cell)
      BY <1>4, <3>1
    <3>3. Is(h, d, "key") /\ Is(h, e, "key") /\ h.cell[d].Name = h.cell[e].Name
      BY <1>2, <1>3, <2>1
    <3> QED  BY <3>1, <3>2, <3>3 DEF Differ
  <2> QED  BY <2>1 DEF Differ
<1>14. Closed(g, Tree(g))
  BY <1>12, RootedClosed
<1> DEFINE Z == {x \in Tree(h) : x \in Tree(g) \/ ~Lasts(x)}
<1>15. Closed(h, Z)
  <2>1. ASSUME NEW x \in Z, NEW z \in ChildrenOf(h, x) PROVE z \in Z
    <3>1. PICK k \in SubKeysOf(h, x.cell) : z = [cell |-> k, path |-> Append(x.path, h.cell[k].Name)]
      BY <2>1 DEF ChildrenOf
    <3>2. /\ Is(h, k, "key") /\ h.cell[k].Name \in Labels /\ z \in Tree(h)
          /\ z.cell = k /\ z.path = Append(x.path, h.cell[k].Name)
      BY <1>6, <3>1
    <3>3. CASE k \notin StableCells
      <4>1. ~Lasts(z)
        BY <1>7, <3>2, <3>3
      <4> QED  BY <3>2, <4>1
    <3>4. CASE ~Lasts(x)
      <4>1. PICK y \in Tree(h) : IsPrefix(y.path, x.path) /\ y.cell \notin StableCells
        BY <3>4
      <4>2. IsPrefix(y.path, z.path)
        BY <1>8, <3>2, <4>1
      <4> QED  BY <3>2, <4>1, <4>2
    <3>5. CASE k \in StableCells /\ Lasts(x)
      <4>1. x \in Tree(g) /\ x.cell \in StableCells
        BY <1>11, <2>1, <3>5
      <4>2. k \in SubKeysOf(g, x.cell) /\ Is(g, k, "key") /\ g.cell[k].Name = h.cell[k].Name
        BY <1>2, <1>3, <1>4, <3>2, <3>5, <4>1
      <4>3. z \in ChildrenOf(g, x)
        BY <3>1, <4>2 DEF ChildrenOf
      <4>4. z \in Tree(g)
        BY <1>14, <4>1, <4>3 DEF Closed
      <4> QED  BY <3>2, <4>4
    <3> QED  BY <3>3, <3>4, <3>5
  <2>2. Place0 \in Z
    BY RootInTree
  <2> HIDE DEF Z
  <2> QED  BY <2>1, <2>2 DEF Closed
<1>16. Tree(h) \subseteq Z
  BY <1>15, TreeLeast
<1>17. Tree(g) = {x \in Tree(h) : Lasts(x)}
  BY <1>11, <1>16
<1>18. PathsIn(g) = {p \in PathsIn(h) : \A k \in KeysOf(h) : IsPrefix(k.path, p) => ~k.volatile}
  <2>1. \A y \in Tree(h) : KeyAt(y).path = y.path /\ (KeyAt(y).volatile <=> y.cell \notin StableCells)
    BY <1>5, CellsFacts DEF KeyAt, Cells
  <2>2. KeysOf(h) = {KeyAt(y) : y \in Tree(h)}
    BY KeysFacts
  <2>3. \A x \in Tree(h) : Lasts(x) <=> \A k \in KeysOf(h) : IsPrefix(k.path, x.path) => ~k.volatile
    BY <2>1, <2>2
  <2> HIDE DEF Lasts
  <2> QED  BY <1>17, <2>3 DEF PathsIn
<1>19. PathsIn(g) = Abstract!Lasting(KeysOf(h))
  BY <1>18, KeysFacts, SameOperators DEF Abstract!Lasting
<1> QED  BY <1>12, <1>13, <1>19 DEF g, f

\* So does a file that a flush brings up to date.
LEMMA SyncedTree ==
  ASSUME hive \in Hives, Hanging(hive), Differ(hive), FileOK(file), CleanAsIn(hive, file)
  PROVE  LET g == HvInitialize(Synced(hive)) IN
         Differ(g) /\ PathsIn(g) = Abstract!Lasting(KeysOf(hive))
<1> DEFINE i == HvInitialize(ImageOf(hive))
           g == HvInitialize(Synced(hive))
<1>1. Rooted(i) /\ Differ(i) /\ PathsIn(i) = Abstract!Lasting(KeysOf(hive))
  BY ImageTree
<1>2. /\ ImageOf(hive) \in [StableCells -> Contents]
      /\ \A c \in StableCells : ImageOf(hive)[c] = hive.cell[c]
  BY CellsFacts DEF ImageOf, Hives
<1>3. /\ Synced(hive) \in [StableCells -> Contents]
      /\ \A c \in StableCells : Place(Synced(hive)[c]) = Place(hive.cell[c])
  <2>1. \A c \in StableCells : hive.cell[c] \in Contents /\ file[c] \in Contents
    BY CellsFacts DEF Hives, FileOK
  <2>2. \A c \in StableCells :
          Synced(hive)[c] = IF BlockOf[c] \in hive.dirty THEN hive.cell[c] ELSE file[c]
    BY DEF Synced
  <2>3. Synced(hive) \in [StableCells -> Contents]
    BY <2>1 DEF Synced
  <2> QED  BY <2>2, <2>3 DEF CleanAsIn
<1>4. \A c \in Cells : Place(g.cell[c]) = Place(i.cell[c])
  <2>1. \A c \in StableCells : Place(g.cell[c]) = Place(i.cell[c])
    BY <1>2, <1>3, ImageFacts
  <2>2. \A c \in Cells \ StableCells : g.cell[c] = FreeCell /\ i.cell[c] = FreeCell
    BY <1>2, <1>3, ImageFacts
  <2> HIDE DEF g, i
  <2> QED  BY <2>1, <2>2
<1> HIDE DEF g, i
<1>5. \A c \in Cells :
        /\ g.cell[c].kind = "key" <=> i.cell[c].kind = "key"
        /\ i.cell[c].kind = "key" =>
             /\ g.cell[c].Name = i.cell[c].Name /\ g.cell[c].Parent = i.cell[c].Parent
             /\ SubKeysOf(g, c) = SubKeysOf(i, c)
  BY <1>4 DEF Place, SubKeysOf
<1>6. Tree(g) = Tree(i)
  BY <1>1, <1>5, SameKeysSameTree
<1>7. Differ(g)
  BY <1>1, <1>5, <1>6, SameKeysDiffer
<1> QED  BY <1>1, <1>6, <1>7 DEF PathsIn, g

\* Of the first file of another program.
LEMMA ForeignNames ==
  ASSUME Foreign
  PROVE  Differ(HvInitialize(ForeignFile))
<1> DEFINE f == ForeignFile
           g == HvInitialize(f)
<1>1. PICK a, b, c : ForeignCells(f, a, b, c)
  BY ForeignFileCells
<1>2. FileOK(f) /\ RootIsKey(g)
  BY ForeignFileFacts
<1> HIDE DEF f
<1>3. /\ \A d \in StableCells : g.cell[d] = f[d]
      /\ \A d \in Cells \ StableCells : g.cell[d] = FreeCell
  BY <1>2, ImageFacts DEF FileOK
<1> HIDE DEF g
<1>4. \A d \in Cells : g.cell[d].kind = "key" => d \in {RootCell, c}
  BY <1>1, <1>3 DEF ForeignCells, FreeCell, CM_KEY_SECURITY
<1>5. SubKeysOf(g, RootCell) = {c}
  <2> DEFINE x == CM_KEY_NODE("", HCELL_NIL, a)
  <2>1. g.cell[RootCell] = [x EXCEPT !.SubKeys.Stable = {c}]
    BY <1>1, <1>3, CellsFacts DEF ForeignCells, ForeignRoot
  <2>2. x.SubKeys = [Stable |-> {}, Volatile |-> {}] /\ "SubKeys" \in DOMAIN x
    BY DEF CM_KEY_NODE
  <2> HIDE DEF x
  <2>3. g.cell[RootCell].SubKeys = [Stable |-> {c}, Volatile |-> {}]
    BY <2>1, <2>2
  <2> QED  BY <2>3 DEF SubKeysOf
<1>6. SubKeysOf(g, c) = {}
  BY <1>1, <1>3 DEF ForeignCells, SubKeysOf, CM_KEY_NODE
<1>7. \A x \in Tree(g) : x.cell \in {RootCell, c}
  BY <1>2, <1>4, TreeKeys
<1>8. Differ(g)
  BY <1>5, <1>6, <1>7 DEF Differ
<1> QED  BY <1>8 DEF f, g

\* A key that goes had no subkeys.
LEMMA DeletedKeys ==
  ASSUME NEW h \in Hives, NEW g, NEW k, DeletedKey(h, g, k), Hanging(h), Differ(h),
         k # RootCell, SubKeysOf(h, k) = {}
  PROVE  /\ Differ(g)
         /\ KeysOf(g) = KeysOf(h) \/ Abstract!Pruned(KeysOf(h), KeysOf(g))
<1>1. Hanging(g) /\ Tree(g) = {x \in Tree(h) : x.cell # k}
  BY DeletedTree
<1>2. Differ(g)
  <2>1. ASSUME NEW x \in Tree(g), NEW d \in SubKeysOf(g, x.cell), NEW e \in SubKeysOf(g, x.cell),
               Is(g, d, "key"), Is(g, e, "key"), g.cell[d].Name = g.cell[e].Name
        PROVE  d = e
    <3>1. x \in Tree(h) /\ x.cell # k /\ x.cell \in Cells /\ h.cell[x.cell].kind = "key"
      BY <1>1, TreeKeys DEF Hanging, Rooted
    <3>2. d \in SubKeysOf(h, x.cell) /\ e \in SubKeysOf(h, x.cell)
      BY <2>1, <3>1 DEF DeletedKey
    <3>3. \A c : Is(g, c, "key") => Is(h, c, "key") /\ g.cell[c].Name = h.cell[c].Name
      BY DEF DeletedKey, Is
    <3> QED  BY <2>1, <3>1, <3>2, <3>3 DEF Differ
  <2> QED  BY <2>1 DEF Differ
<1>3. CASE ~Reached(h, k)
  <2>1. Tree(g) = Tree(h)
    BY <1>1, <1>3 DEF Reached
  <2> QED  BY <1>2, <2>1 DEF KeysOf
<1>4. CASE Reached(h, k)
  <2>1. PICK x \in Tree(h) : x.cell = k
    BY <1>4 DEF Reached
  <2>2. \A y \in Tree(h) : y.cell = k => y = x
    BY <2>1, OnePath
  <2>3. \A y \in Tree(h) : y.path = x.path => y = x
    BY <2>1, OneKey DEF Hanging
  <2>4. x.path # << >>
    BY <2>1, <2>3, RootInTree DEF Place0
  <2>5. \A y \in Tree(h) : y.path \in Paths
    BY TreePaths
  <2> DEFINE X == {y \in Tree(h) : ~IsStrictPrefix(x.path, y.path)}
  <2>6. Closed(h, X)
    <3>1. ASSUME NEW y \in X, NEW z \in ChildrenOf(h, y) PROVE z \in X
      <4>1. PICK c \in SubKeysOf(h, y.cell) : z = [cell |-> c, path |-> Append(y.path, h.cell[c].Name)]
        BY <3>1 DEF ChildrenOf
      <4>2. Is(h, c, "key")
        BY DEF Hanging
      <4>3. z \in Tree(h) /\ z.path = Append(y.path, h.cell[c].Name)
        BY <4>1, ChildReached
      <4>4. h.cell[c].Name \in Labels
        <5>1. h.cell[c] \in Nodes
          BY <4>2, ContentFacts DEF Is, Hives
        <5> QED  BY <5>1 DEF Nodes, Labels
      <4>5. IsPrefix(x.path, z.path) <=> IsPrefix(x.path, y.path) \/ x.path = z.path
        BY <2>1, <2>5, <4>3, <4>4, PrefixFacts DEF Paths
      <4>6. ~IsPrefix(x.path, y.path)
        <5> SUFFICES ASSUME IsPrefix(x.path, y.path) PROVE FALSE
          OBVIOUS
        <5>1. x.path = y.path
          BY DEF IsStrictPrefix
        <5>2. y = x
          BY <2>3, <5>1
        <5> QED  BY <2>1, <5>2
      <4> QED  BY <4>3, <4>5, <4>6 DEF IsStrictPrefix
    <3>2. Place0 \in X
      <4>1. IsPrefix(x.path, << >>) => x.path = << >>
        BY <2>1, <2>5, PathPrefixes
      <4> QED  BY <4>1, <2>4, RootInTree DEF IsStrictPrefix, Place0
    <3> HIDE DEF X
    <3> QED  BY <3>1, <3>2 DEF Closed
  <2>7. Tree(h) \subseteq X
    BY <2>6, TreeLeast
  <2> DEFINE n == KeyAt(x)
  <2>8. n \in KeysOf(h) /\ n.path = x.path
    BY <2>1, KeysFacts DEF KeyAt
  <2>9. \A y : KeyAt(y).path = y.path
    BY DEF KeyAt
  <2> HIDE DEF n
  <2>10. \A y \in Tree(h) : KeyAt(y) = n => y = x
    BY <2>3, <2>8, <2>9
  <2>11. KeysOf(h) = {KeyAt(y) : y \in Tree(h)} /\ KeysOf(g) = {KeyAt(y) : y \in Tree(g)}
    BY KeysFacts
  <2>12. KeysOf(g) = KeysOf(h) \ {n}
    <3>1. \A y \in Tree(h) : y \in Tree(g) <=> y # x
      BY <1>1, <2>1, <2>2
    <3>2. KeyAt(x) = n /\ \A y \in Tree(g) : y \in Tree(h)
      BY <1>1 DEF n
    <3> QED  BY <2>10, <2>11, <3>1, <3>2
  <2>13. \A m \in KeysOf(h) : ~IsStrictPrefix(n.path, m.path)
    BY <2>7, <2>8, <2>9, <2>11
  <2>14. \A m \in KeysOf(h) : ~Abstract!IsStrictPrefix(n.path, m.path)
    BY <2>13, SameOperators
  <2>15. n \in KeysOf(h) \ KeysOf(g) /\ n.path # << >>
    BY <2>4, <2>8, <2>12
  <2> QED  BY <1>2, <2>12, <2>14, <2>15 DEF Abstract!Pruned
<1> QED  BY <1>3, <1>4

-----------------------------------------------------------------------------
(* The registry implements KeyTree *)

\* No key of the tree has two subkeys of one name, in memory and in the file.
NamesInv ==
  /\ Up => Differ(hive)
  /\ file # None => Differ(HvInitialize(file))

LEMMA NamesInitially == Init => NamesInv
<1> SUFFICES ASSUME Init PROVE NamesInv
  OBVIOUS
<1>1. ~Up
  BY DEF Init, Up
<1>2. file # None => Foreign /\ file = ForeignFile
  BY DEF Init
<1> QED  BY <1>1, <1>2, ForeignNames DEF NamesInv

\* The tree, and what is saved of it, as KeyTree sees them.
TheTree == IF Up THEN KeysOf(hive) ELSE {}
TheSaved == IF file = None THEN {} ELSE {k.path : k \in KeysOf(HvInitialize(file))}

LEMMA SavedFacts ==
  ASSUME NEW f, f # None
  PROVE  {k.path : k \in KeysOf(HvInitialize(f))} = PathsIn(HvInitialize(f))
  BY KeysFacts

\* Something is saved in any file: the root.
LEMMA PathsAreSome ==
  ASSUME NEW h
  PROVE  PathsIn(h) # {}
  BY RootInTree DEF PathsIn

LEMMA LoadRefines ==
  ASSUME KeysInv, ListedInv, TreeInv, NamesInv, InitializeLoads
  PROVE  NamesInv' /\ Abstract!Load
<1> DEFINE h == HvInitialize(file)
           g == CmpPurgeVolatiles(h)
<1>1. ~Up /\ phase = "down" /\ file # None /\ phase' = "loaded" /\ UNCHANGED file
  BY DEF InitializeLoads, RegInitializeRegistry, Begins, Up
<1>2. FileOK(file) /\ Listed(h) /\ RootIsKey(h) /\ h.cell[RootCell].Parent = HCELL_NIL /\ Differ(h)
      /\ link = None
  <2>1. FileOK(file) /\ Listed(h) /\ RootIsKey(h) /\ Differ(h) /\ link = None
        /\ file[RootCell].Parent = HCELL_NIL
    BY <1>1 DEF KeysInv, ListedInv, TreeInv, NamesInv
  <2>2. h.cell[RootCell] = file[RootCell]
    BY <2>1, ImageFacts, CellsFacts DEF FileOK
  <2> QED  BY <2>1, <2>2
<1>3. h \in Hives /\ NoVolatiles(h)
  BY <1>2, ImageFacts DEF FileOK, NoVolatiles
<1>4. Linked(WithControlSet(g), WithLink(WithControlSet(g)))
  BY DEF InitializeLoads, RegInitializeRegistry
<1>5. g \in Hives
  <2>1. \A c \in Loadable(h) : Is(h, c, "key")
    BY DEF InitializeLoads, CmpValidateKey
  <2>2. KeptAll(h, g)
    BY <1>2, <2>1, PurgeKept
  <2> QED  BY <2>2 DEF KeptAll, Kept
<1>6. TheSaved = PathsIn(h)
  BY <1>1, SavedFacts DEF TheSaved
<1> HIDE DEF h
<1>7. Hanging(g)
  BY <1>2, <1>3, PurgedTree
<1>8. Tree(g) = Tree(h) /\ (\A x \in Tree(h) : x.cell \in StableCells) /\ Differ(g)
  BY <1>2, <1>3, LoadedTree
<1> HIDE DEF g
<1>9. Differ(hive') /\ KeysOf(hive') = Abstract!WithDefaults(KeysOf(g))
  BY <1>2, <1>4, <1>5, <1>7, <1>8, DefaultKeys
<1>10. KeysOf(g) = {[path |-> p, volatile |-> FALSE] : p \in PathsIn(h)}
  <2>1. ASSUME NEW x \in Tree(h) PROVE KeyAt(x) = [path |-> x.path, volatile |-> FALSE]
    <3>1. x.cell \notin VolatileCells
      BY <1>8, CellsFacts
    <3>2. (x.cell \in VolatileCells) = FALSE
      BY <3>1, NotMember
    <3> QED  BY <3>2 DEF KeyAt
  <2>2. KeysOf(g) = {KeyAt(x) : x \in Tree(h)}
    BY <1>8, KeysFacts
  <2> QED  BY <2>1, <2>2 DEF PathsIn
<1>11. TheSaved # {}
  BY <1>6, PathsAreSome
<1>12. UNCHANGED TheSaved /\ TheTree' = KeysOf(hive')
  BY <1>1 DEF TheSaved, TheTree, Up
<1>13. TheTree' = Abstract!WithDefaults({[path |-> p, volatile |-> FALSE] : p \in TheSaved})
  BY <1>6, <1>9, <1>10, <1>12
<1>14. NamesInv'
  BY <1>1, <1>2, <1>9 DEF NamesInv, h
<1> QED  BY <1>1, <1>11, <1>12, <1>13, <1>14 DEF Abstract!Load, TheSaved, TheTree

\* The root alone, and the root with the default keys.
LEMMA MakeRefines ==
  ASSUME KeysInv, TreeInv, NamesInv, InitializeFails \/ InitializeFromInf
  PROVE  NamesInv' /\ Abstract!Make
<1>1. ~Up /\ phase = "down" /\ phase' = "memory" /\ UNCHANGED file
  BY DEF InitializeFails, InitializeFromInf, RegInitializeRegistry, Begins, Up
<1>2. Hanging(Connected) /\ Tree(Connected) = {Place0} /\ Connected \in Hives
  BY ConnectedTree, ConnectedFacts
<1>3. KeysOf(Connected) = {Abstract!Root}
  <2>1. KeyAt(Place0) = Abstract!Root
    <3>1. RootCell \notin VolatileCells
      BY CellsFacts
    <3>2. (RootCell \in VolatileCells) = FALSE
      BY <3>1, NotMember
    <3> QED  BY <3>2 DEF KeyAt, Place0, Abstract!Root
  <2> QED  BY <1>2, <2>1, KeysFacts
<1>4. Differ(Connected)
  <2>1. ASSUME NEW x \in Tree(Connected), NEW c \in SubKeysOf(Connected, x.cell) PROVE c = RootCell
    <3>1. [cell |-> c, path |-> Append(x.path, Connected.cell[c].Name)] \in Tree(Connected)
      BY <1>2, ChildReached
    <3> QED  BY <1>2, <3>1 DEF Place0
  <2> QED  BY <2>1 DEF Differ
<1>5. Differ(hive') /\ KeysOf(hive') \in {{Abstract!Root}, Abstract!WithDefaults({Abstract!Root})}
  <2>1. CASE InitializeFails
    <3>1. hive' = Connected
      BY <2>1 DEF InitializeFails
    <3> QED  BY <1>3, <1>4, <3>1
  <2>2. CASE InitializeFromInf
    <3>1. Linked(WithControlSet(Connected), WithLink(WithControlSet(Connected)))
      BY <2>2 DEF InitializeFromInf, RegInitializeRegistry
    <3>2. link = None
      BY <1>1 DEF TreeInv
    <3>3. Differ(hive') /\ KeysOf(hive') = Abstract!WithDefaults(KeysOf(Connected))
      BY <1>2, <1>4, <3>1, <3>2, DefaultKeys
    <3> QED  BY <1>3, <3>3
  <2> QED  BY <2>1, <2>2
<1>6. UNCHANGED TheSaved /\ TheTree' = KeysOf(hive')
  BY <1>1 DEF TheSaved, TheTree, Up
<1>7. NamesInv'
  BY <1>1, <1>5 DEF NamesInv
<1> QED  BY <1>1, <1>5, <1>6, <1>7 DEF Abstract!Make, TheSaved, TheTree

LEMMA ExportRefines ==
  ASSUME KeysInv, TreeInv, NamesInv, SaveRegistryIntoHive
  PROVE  NamesInv' /\ Abstract!Export
<1>1. Up /\ file' = ImageOf(hive) /\ UNCHANGED <<phase, hive>>
  BY DEF SaveRegistryIntoHive, ImageOf
<1>2. hive \in Hives /\ Hanging(hive) /\ Differ(hive)
  BY <1>1 DEF KeysInv, TreeInv, NamesInv
<1>3. file' # None
  <2>1. file' \in [StableCells -> Contents]
    BY <1>1, <1>2, CellsFacts DEF ImageOf, Hives
  <2> QED  BY <2>1, NoneAssumption
<1>4. Differ(HvInitialize(file')) /\ PathsIn(HvInitialize(file')) = Abstract!Lasting(KeysOf(hive))
  BY <1>1, <1>2, ImageTree
<1>5. TheSaved' = Abstract!Lasting(TheTree) /\ UNCHANGED TheTree
  BY <1>1, <1>3, <1>4, SavedFacts DEF TheSaved, TheTree, Up
<1>6. NamesInv'
  BY <1>1, <1>2, <1>4 DEF NamesInv
<1> QED  BY <1>1, <1>5, <1>6 DEF Abstract!Export, TheSaved, TheTree, Up

LEMMA ShutdownRefines ==
  ASSUME KeysInv, TreeInv, NamesInv, RegShutdownRegistry \/ Exit
  PROVE  NamesInv' /\ (Abstract!Shutdown \/ Abstract!Stop)
<1>1. Up /\ phase # "down" /\ phase' = "down" /\ ~Up'
  BY DEF RegShutdownRegistry, Exit, Ended, Up
<1>2. TheTree' = {}
  BY <1>1 DEF TheTree
<1>3. CASE RegShutdownRegistry /\ handle = "open"
  <2>1. file' = Synced(hive)
    BY <1>3 DEF RegShutdownRegistry
  <2>2. phase = "loaded" /\ hive \in Hives /\ FileOK(file) /\ CleanAsIn(hive, file)
    BY <1>1, <1>3 DEF KeysInv, Up
  <2>3. Hanging(hive) /\ Differ(hive)
    BY <1>1 DEF TreeInv, NamesInv
  <2>4. file' # None
    <3>1. \A c \in StableCells : hive.cell[c] \in Contents /\ file[c] \in Contents
      BY <2>2, CellsFacts DEF Hives, FileOK
    <3>2. file' \in [StableCells -> Contents]
      BY <2>1, <3>1 DEF Synced
    <3> QED  BY <3>2, NoneAssumption
  <2>5. Differ(HvInitialize(file')) /\ PathsIn(HvInitialize(file')) = Abstract!Lasting(KeysOf(hive))
    BY <2>1, <2>2, <2>3, SyncedTree
  <2>6. TheSaved' = Abstract!Lasting(TheTree)
    BY <1>1, <2>4, <2>5, SavedFacts DEF TheSaved, TheTree
  <2>7. NamesInv'
    BY <1>1, <2>5 DEF NamesInv
  <2> QED  BY <1>1, <1>2, <2>2, <2>6, <2>7 DEF Abstract!Shutdown, TheSaved, TheTree
<1>4. CASE Exit \/ handle # "open"
  <2>1. file' = file
    BY <1>4 DEF RegShutdownRegistry, Exit
  <2>2. UNCHANGED TheSaved
    BY <2>1 DEF TheSaved
  <2>3. NamesInv'
    BY <1>1, <2>1 DEF NamesInv
  <2> QED  BY <1>1, <1>2, <2>2, <2>3 DEF Abstract!Stop, TheSaved, TheTree
<1> QED  BY <1>3, <1>4

LEMMA CreateRefines ==
  ASSUME KeysInv, TreeInv, NamesInv,
         NEW start \in Starts, NEW path \in PathsFrom(start),
         NEW type \in {"Stable", "Volatile"}, NEW fails \in BOOLEAN,
         NTRegCreateKeyExW(start, path, type, fails)
  PROVE  NamesInv' /\ (Abstract!Create \/ UNCHANGED Abstract!vars)
<1>1. /\ Up /\ hive' = RegpCreateKey(hive, start, path, type, fails).hive
      /\ UNCHANGED <<phase, file>>
  BY DEF NTRegCreateKeyExW
<1>2. hive \in Hives /\ Hanging(hive) /\ Differ(hive) /\ LinkLoose(hive)
  BY <1>1 DEF KeysInv, TreeInv, NamesInv
<1>3. Loose(hive, start)
  <2>1. Loose(hive, RootCell)
    BY RootInTree DEF Loose, Reached, Place0
  <2>2. key # None => Loose(hive, key.cell)
    BY <1>1 DEF TreeInv, KeyLoose
  <2> QED  BY <2>1, <2>2 DEF Starts
<1>4. \/ \E n \in Names : path = <<n>>
      \/ \E n, m \in Names : path = <<n, m>>
  BY PathsAreShort
<1>5. type \in DOMAIN Storage
  BY StorageFacts
<1>6. Differ(hive') /\ (KeysOf(hive') = KeysOf(hive) \/ Abstract!Grown(KeysOf(hive), KeysOf(hive')))
  BY <1>1, <1>2, <1>3, <1>4, <1>5, CreateKeys
<1>7. UNCHANGED TheSaved /\ TheTree = KeysOf(hive) /\ TheTree' = KeysOf(hive')
  BY <1>1 DEF TheSaved, TheTree, Up
<1>8. NamesInv'
  BY <1>1, <1>6 DEF NamesInv
<1>9. CASE KeysOf(hive') = KeysOf(hive)
  <2>1. UNCHANGED Abstract!vars
    BY <1>1, <1>7, <1>9 DEF Abstract!vars, TheSaved, TheTree
  <2> QED  BY <1>8, <2>1
<1>10. CASE Abstract!Grown(KeysOf(hive), KeysOf(hive'))
  <2>1. Abstract!Grown(TheTree, TheTree')
    BY <1>7, <1>10
  <2>2. Abstract!Create
    BY <1>1, <1>7, <2>1 DEF Abstract!Create, TheSaved, TheTree, Up
  <2> QED  BY <1>8, <2>2
<1> QED  BY <1>6, <1>9, <1>10

LEMMA DeleteRefines ==
  ASSUME KeysInv, TreeInv, NamesInv,
         NEW start \in Starts, NEW path \in PathsFrom(start), NTRegDeleteKeyW(start, path)
  PROVE  NamesInv' /\ (Abstract!Delete \/ UNCHANGED Abstract!vars)
<1> DEFINE k == RegpOpenKey(start, path)
<1>1. Up /\ Deletes(k) /\ UNCHANGED <<phase, file>>
  BY DEF NTRegDeleteKeyW
<1> HIDE DEF k
<1>2. /\ k \in Cells /\ hive.cell[k].kind = "key" /\ k # RootCell /\ SubKeysOf(hive, k) = {}
      /\ hive' = CmpFreeKeyByCell(hive, k)
  BY <1>1 DEF Deletes, Is
<1>3. hive \in Hives /\ Hanging(hive) /\ Differ(hive)
  BY <1>1 DEF KeysInv, TreeInv, NamesInv
<1>4. DeletedKey(hive, hive', k)
  BY <1>2, <1>3, DeletedIsDeletedKey
<1>5. Differ(hive') /\ (KeysOf(hive') = KeysOf(hive) \/ Abstract!Pruned(KeysOf(hive), KeysOf(hive')))
  BY <1>2, <1>3, <1>4, DeletedKeys
<1>6. UNCHANGED TheSaved /\ TheTree = KeysOf(hive) /\ TheTree' = KeysOf(hive')
  BY <1>1 DEF TheSaved, TheTree, Up
<1>7. NamesInv'
  BY <1>1, <1>5 DEF NamesInv
<1>8. CASE KeysOf(hive') = KeysOf(hive)
  <2>1. UNCHANGED Abstract!vars
    BY <1>1, <1>6, <1>8 DEF Abstract!vars, TheSaved, TheTree
  <2> QED  BY <1>7, <2>1
<1>9. CASE Abstract!Pruned(KeysOf(hive), KeysOf(hive'))
  <2>1. Abstract!Pruned(TheTree, TheTree')
    BY <1>6, <1>9
  <2>2. Abstract!Delete
    BY <1>1, <1>6, <2>1 DEF Abstract!Delete, TheSaved, TheTree, Up
  <2> QED  BY <1>7, <2>2
<1> QED  BY <1>5, <1>8, <1>9

\* Opening and closing a key is not seen.
LEMMA Unseen ==
  ASSUME NamesInv, UNCHANGED <<phase, hive, file>>
  PROVE  NamesInv' /\ UNCHANGED Abstract!vars
<1>1. UNCHANGED TheSaved /\ UNCHANGED TheTree
  BY DEF TheSaved, TheTree, Up
<1>2. NamesInv'
  BY DEF NamesInv, Up
<1> QED  BY <1>1, <1>2 DEF Abstract!vars, TheSaved, TheTree

LEMMA NextRefines ==
  KeysInv /\ ListedInv /\ TreeInv /\ NamesInv /\ [Next]_vars => NamesInv' /\ [Abstract!Next]_(Abstract!vars)
<1> SUFFICES ASSUME KeysInv, ListedInv, TreeInv, NamesInv, [Next]_vars
             PROVE  NamesInv' /\ [Abstract!Next]_(Abstract!vars)
  OBVIOUS
<1>1. CASE InitializeLoads
  BY <1>1, LoadRefines DEF Abstract!Next
<1>2. CASE InitializeFails \/ InitializeFromInf
  BY <1>2, MakeRefines DEF Abstract!Next
<1>3. CASE SaveRegistryIntoHive
  BY <1>3, ExportRefines DEF Abstract!Next
<1>4. CASE RegShutdownRegistry \/ Exit
  BY <1>4, ShutdownRefines DEF Abstract!Next
<1>5. ASSUME NEW start \in Starts, NEW path \in PathsFrom(start),
             NEW type \in {"Stable", "Volatile"}, NEW fails \in BOOLEAN,
             NTRegCreateKeyExW(start, path, type, fails)
      PROVE  NamesInv' /\ [Abstract!Next]_(Abstract!vars)
  BY <1>5, CreateRefines DEF Abstract!Next
<1>6. ASSUME NEW start \in Starts, NEW path \in PathsFrom(start), NTRegDeleteKeyW(start, path)
      PROVE  NamesInv' /\ [Abstract!Next]_(Abstract!vars)
  BY <1>6, DeleteRefines DEF Abstract!Next
<1>7. ASSUME NEW start \in Starts, NEW path \in PathsFrom(start), NTRegOpenKeyW(start, path)
      PROVE  NamesInv' /\ [Abstract!Next]_(Abstract!vars)
  <2>1. UNCHANGED <<phase, hive, file>>
    BY <1>7 DEF NTRegOpenKeyW
  <2> QED  BY <2>1, Unseen
<1>8. CASE NTRegCloseKey
  <2>1. UNCHANGED <<phase, hive, file>>
    BY <1>8 DEF NTRegCloseKey
  <2> QED  BY <2>1, Unseen
<1>9. CASE UNCHANGED vars
  <2>1. UNCHANGED <<phase, hive, file>>
    BY <1>9 DEF vars
  <2> QED  BY <2>1, Unseen
<1> QED  BY <1>1, <1>2, <1>3, <1>4, <1>5, <1>6, <1>7, <1>8, <1>9 DEF Next

(***************************************************************************)
(* TreeSpec: what a caller sees of the registry is a tree of keys that     *)
(* grows and shrinks at its leaves, of which the stable part, down from    *)
(* the root, is what a file keeps: an export or a shutdown saves exactly   *)
(* the keys that are not below a volatile one, a start finds exactly       *)
(* these, and no key ever has two subkeys of one name.                     *)
(***************************************************************************)
THEOREM ImplementsKeyTree == Spec => TreeSpec
<1>1. Init => Abstract!Init
  <2> SUFFICES ASSUME Init PROVE Abstract!Init
    OBVIOUS
  <2>1. phase = "down" /\ ~Up
    BY DEF Init, Up
  <2> QED  BY <2>1 DEF Abstract!Init
<1>2. Init => TreeInv /\ NamesInv /\ ListedInv
  BY TreeInitially, NamesInitially, ListedInitially
<1>3. KeysInv /\ ListedInv /\ [Next]_vars => ListedInv'
  BY ListedKept
<1>4. KeysInv /\ ListedInv /\ TreeInv /\ [Next]_vars => TreeInv'
  BY TreeKept
<1>5. KeysInv /\ ListedInv /\ TreeInv /\ NamesInv /\ [Next]_vars =>
        NamesInv' /\ [Abstract!Next]_(Abstract!vars)
  BY NextRefines
<1>6. Spec => Abstract!Spec
  BY <1>1, <1>2, <1>3, <1>4, <1>5, KeysInvariant, PTL DEF Spec, Abstract!Spec
<1> QED  BY <1>6 DEF TreeSpec
=============================================================================
