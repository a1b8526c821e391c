---------------------------- MODULE RegistryCheck ----------------------------
(***************************************************************************)
(* The check of a loaded hive and its repair (core/cmcheck.cpp,            *)
(* core/cmheal.cpp).                                                       *)
(*                                                                         *)
(* The file holds a tree of keys in which up to two fields were written    *)
(* wrongly.  The check walks the tree with a stack of its own; without     *)
(* CM_CHECK_REGISTRY_FIX_HIVE the first thing it finds wrong ends it, with *)
(* it what is wrong is repaired in place or taken out of its list, and the *)
(* walk starts again after every key that is taken out.                    *)
(*                                                                         *)
(* Cells are numbers.  A cell outside of the hive is "not allocated"; that *)
(* a cell was freed the check cannot tell (hivecell.cpp:55), except for a  *)
(* key, whose size it finds not sane.  Sane stands for the comparisons of  *)
(* sizes: the cell below the threshold, the name not empty and within the  *)
(* cell.  Leaves are alike here, their forms are the subject of            *)
(* SubkeyIndex.  A hive that is loaded has no volatile cells, and entries  *)
(* of an index that lead to cells other than keys are left out.            *)
(***************************************************************************)
EXTENDS Integers, FiniteSets, SequencesExt

CONSTANTS
  Trees,       \* the trees of keys before the damage, functions from cells
  RootCell,    \* their root key
  Names,       \* the names of keys, numbers, for their order
  Outside,     \* a cell index that leads out of the hive
  BlockList,   \* the bins: [Size, Cells], a function from blocks to bins
  HBLOCK_SIZE, \* how many units of bytes make a block
  CallerFlags, \* which sets of flags the check is called with
  CMP_REGISTRY_MAX_LEVELS_TREE_DEPTH    \* 512 in the code

HCELL_NIL == -1

ASSUME DepthAssumption == CMP_REGISTRY_MAX_LEVELS_TREE_DEPTH \in Nat \ {0, 1}

ASSUME FlagsAssumption == CallerFlags \subseteq SUBSET {"VALIDATE_HIVE", "PURGE_VOLATILES", "FIX_HIVE"}

VARIABLES
  tree,       \* the tree as it was meant to be
  file,       \* the hive as it was loaded
  hive,       \* the hive in memory
  flags,      \* the flags of the check
  WorkState,  \* its stack, the current key last
  status      \* "called", "validate" a key, "descend", "good" or "bad"

vars == <<tree, file, hive, flags, WorkState, status>>

FixHive == "FIX_HIVE" \in flags
Running == status \in {"called", "validate", "descend"}

-----------------------------------------------------------------------------
(* Cells *)

CM_KEY_NODE(name, comp, parent) ==
  [Signature |-> "kn", Sane |-> TRUE, Name |-> name, Comp |-> comp, Parent |-> parent,
   Class |-> HCELL_NIL, ClassLength |-> 0, ValueCount |-> 0, ValueList |-> HCELL_NIL,
   SubKeyCount |-> 0, SubKeyList |-> HCELL_NIL, Volatiles |-> 0]

CM_KEY_VALUE(length, data) ==
  [Signature |-> "vk", Sane |-> TRUE, DataLength |-> length, Data |-> data]

CM_KEY_INDEX(signature, list) == [Signature |-> signature, List |-> list]

IsLeaf(cell) == cell.Signature = "li"

HvIsCellAllocated(h, c) == c \in DOMAIN h.cell

CellsOf(t, signature) == {c \in DOMAIN t : t[c].Signature = signature}
KeysOf(t) == CellsOf(t, "kn")
IndicesOf(t) == CellsOf(t, "li") \cup CellsOf(t, "ri")

KeyNodes(t) ==
  [Signature : {"kn", "junk"}, Sane : BOOLEAN, Name : Names, Comp : BOOLEAN,
   Parent : KeysOf(t) \cup {HCELL_NIL},
   Class : DOMAIN t \cup {Outside, HCELL_NIL}, ClassLength : {0, 1},
   ValueCount : Nat, ValueList : CellsOf(t, "list") \cup {Outside, HCELL_NIL},
   SubKeyCount : Nat, SubKeyList : IndicesOf(t) \cup {Outside, HCELL_NIL}, Volatiles : Nat]

\* What a cell that has this signature in the tree t may hold, damaged or not.
ShapeOf(t, signature) ==
  CASE signature = "kn"   -> KeyNodes(t)
    [] signature = "li"   -> [Signature : {"li", "junk"}, List : Seq(KeysOf(t) \cup {Outside})]
    [] signature = "ri"   -> [Signature : {"ri", "junk"}, List : Seq(CellsOf(t, "li") \cup {Outside})]
    [] signature = "list" -> [Signature : {"list"}, List : Seq(DOMAIN t \cup {Outside})]
    [] signature = "vk"   -> [Signature : {"vk", "junk"}, Sane : BOOLEAN,
                              DataLength : {"none", "small", "some"},
                              Data : DOMAIN t \cup {Outside, HCELL_NIL}]
    [] signature = "data" -> [Signature : {"data"}]

Shaped(t, cells) ==
  DOMAIN cells = DOMAIN t /\ \A c \in DOMAIN t : cells[c] \in ShapeOf(t, t[c].Signature)

\* No two keys have their values in one list.
ListsApart(t, cells) ==
  \A c, d \in KeysOf(t) :
    c # d /\ cells[c].ValueList = cells[d].ValueList => cells[c].ValueList \notin DOMAIN t

\* Before the damage every cell holds what its kind of cell may hold.
ASSUME TreesAssumption ==
  \A t \in Trees :
    /\ IsFiniteSet(DOMAIN t) /\ {Outside, HCELL_NIL} \cap DOMAIN t = {}
    /\ RootCell \in KeysOf(t)
    /\ \A c \in DOMAIN t : t[c].Signature \in {"kn", "li", "ri", "list", "vk", "data"}
    /\ Shaped(t, t) /\ ListsApart(t, t)

\* The content of the cell c changes, as all repairs do it.
Repaired(h, c, content) ==
  [h EXCEPT !.cell[c] = content, !.dirty = @ \cup {c}, !.BootType = "SELF_HEAL"]

-----------------------------------------------------------------------------
(* The damage: what one wrong write can make of a key, a value or a list *)

KeyWrites(t, key) ==
  {[key EXCEPT !.Sane = FALSE],        [key EXCEPT !.Signature = "junk"],
   [key EXCEPT !.Class = Outside],     [key EXCEPT !.ClassLength = 1 - @],
   [key EXCEPT !.ValueList = Outside], [key EXCEPT !.Comp = ~@]}
  \cup {[key EXCEPT !.Name = n] : n \in Names}
  \cup {[key EXCEPT !.Parent = p] : p \in KeysOf(t)}
  \cup {[key EXCEPT !.ValueCount = n] : n \in {0, key.ValueCount + 1}}
  \cup {[key EXCEPT !.SubKeyCount = n] : n \in {0, key.SubKeyCount + 1}}
  \cup {[key EXCEPT !.SubKeyList = c] : c \in IndicesOf(t) \cup {Outside}}

ValueWrites(value) ==
  {[value EXCEPT !.Sane = FALSE],       [value EXCEPT !.Signature = "junk"],
   [value EXCEPT !.DataLength = "none"], [value EXCEPT !.Data = Outside]}

ListWrites(t, list) ==
  {[list EXCEPT !.Signature = IF @ = "list" THEN @ ELSE "junk"]}
  \cup {[list EXCEPT !.List = RemoveAt(@, i)] : i \in DOMAIN list.List}
  \cup {[list EXCEPT !.List[i] = c] : i \in DOMAIN list.List,
                                      c \in (IF IsLeaf(list) THEN KeysOf(t) ELSE {}) \cup {Outside}}

Damaged(t) ==
  {t} \cup UNION {
    {[t EXCEPT ![c] = w] : w \in CASE t[c].Signature = "kn" -> KeyWrites(t, t[c])
                                   [] t[c].Signature = "vk" -> ValueWrites(t[c])
                                   [] t[c].Signature \in {"li", "ri", "list"} -> ListWrites(t, t[c])
                                   [] OTHER -> {t[c]}} : c \in DOMAIN t}

\* The size in the header of one cell of one bin is wrong.
DamagedBins(bins) ==
  UNION {{[bins EXCEPT ![b].Cells[o] = s] : s \in {0, 2 * HBLOCK_SIZE, 1 - HBLOCK_SIZE}}
           : b \in DOMAIN bins, o \in {0, 1}}

-----------------------------------------------------------------------------
(* Values, classes and the order of names *)

ValueIsSound(h, c) ==
  /\ HvIsCellAllocated(h, c)
  /\ h.cell[c].Signature = "vk"
  /\ h.cell[c].Sane
  /\ CASE h.cell[c].DataLength = "small" -> TRUE
       [] h.cell[c].DataLength = "none"  -> h.cell[c].Data = HCELL_NIL
       [] h.cell[c].DataLength = "some"  -> HvIsCellAllocated(h, h.cell[c].Data)

(***************************************************************************)
(* Each damaged value is taken out of the list by moving those behind it;  *)
(* the list keeps its cell, in which the last entry stays where it was.    *)
(***************************************************************************)
CmpRepairValueListCount(h, c, list, count) ==
  LET sound[n \in 0 .. count] ==
        IF n = 0 THEN << >>
        ELSE IF ValueIsSound(h, list[n]) THEN Append(sound[n - 1], list[n]) ELSE sound[n - 1]
      kept  == sound[count]
      moved == [i \in DOMAIN list |-> IF i <= Len(kept) THEN kept[i]
                                      ELSE IF i <= count THEN list[count] ELSE list[i]]
      healed == Repaired(h, c, [h.cell[c] EXCEPT !.ValueCount = Len(kept)])
  IN  Repaired(healed, h.cell[c].ValueList, [h.cell[h.cell[c].ValueList] EXCEPT !.List = moved])

CmpRepairValueList(h, c) ==
  Repaired(h, c, [h.cell[c] EXCEPT !.ValueList = HCELL_NIL, !.ValueCount = 0])

(***************************************************************************)
(* A validation gives the hive that it leaves behind, and whether the key  *)
(* is good in it.                                                          *)
(***************************************************************************)
Good(h) == [hive |-> h, good |-> TRUE]
Bad(h)  == [hive |-> h, good |-> FALSE]

CmpValidateValueList(h, c, fix) ==
  LET key  == h.cell[c]
      list == h.cell[key.ValueList].List
      readable == /\ HvIsCellAllocated(h, key.ValueList)
                  /\ key.ValueCount <= Len(list)
  IN  CASE key.ValueCount = 0      -> Good(h)
        [] key.ValueCount > 0 /\ ~readable ->
             IF fix THEN Good(CmpRepairValueList(h, c)) ELSE Bad(h)
        [] OTHER ->
             IF \A i \in 1 .. key.ValueCount : ValueIsSound(h, list[i]) THEN Good(h)
             ELSE IF fix THEN Good(CmpRepairValueListCount(h, c, list, key.ValueCount))
             ELSE Bad(h)

\* A length without a class is reset whether or not the caller asked for it.
CmpValidateClass(h, c, fix) ==
  LET key == h.cell[c]
  IN  CASE key.ClassLength = 0 -> Good(h)
        [] key.ClassLength > 0 /\ key.Class = HCELL_NIL ->
             Good([h EXCEPT !.cell[c].ClassLength = 0, !.dirty = @ \cup {c}])
        [] key.ClassLength > 0 /\ HvIsCellAllocated(h, key.Class) -> Good(h)
        [] OTHER ->
             IF fix THEN Good(Repaired(h, c, [key EXCEPT !.Class = HCELL_NIL, !.ClassLength = 0]))
             ELSE Bad(h)

\* Mutant of CmpValidateLexicalOrder: equal names count as ordered.
CmpValidateLexicalOrderEqual(h, child, sibling) ==
  \/ h.cell[child].Comp /\ h.cell[sibling].Comp
  \/ h.cell[sibling].Name <= h.cell[child].Name

\* Two compressed names are taken to be in order.
CmpValidateLexicalOrder(h, child, sibling) ==
  \/ h.cell[child].Comp /\ h.cell[sibling].Comp
  \/ h.cell[sibling].Name < h.cell[child].Name

-----------------------------------------------------------------------------
(* The index of the subkeys *)

LeavesOf(h, index) == IF IsLeaf(index) THEN <<index>>
                      ELSE [i \in DOMAIN index.List |-> h.cell[index.List[i]]]

\* The subkeys of an index, over all its leaves.
Entries(h, index) == FlattenSeq([i \in DOMAIN LeavesOf(h, index) |-> LeavesOf(h, index)[i].List])

\* The index or one of its leaves cannot be read.
IndexIsBroken(h, c) ==
  \/ ~HvIsCellAllocated(h, c)
  \/ h.cell[c].Signature \notin {"li", "ri"}
  \/ /\ h.cell[c].Signature = "ri"
     /\ \E leaf \in Range(h.cell[c].List) : ~HvIsCellAllocated(h, leaf) \/ ~IsLeaf(h.cell[leaf])

CmpFindSubKeyByNumber(h, c, number) ==
  Entries(h, h.cell[h.cell[c].SubKeyList])[number + 1]

CmpRepairSubKeyList(h, c) ==
  Repaired(h, c, [h.cell[c] EXCEPT !.SubKeyList = HCELL_NIL, !.SubKeyCount = 0])

CmpRepairSubKeyCounts(h, c, count) == Repaired(h, c, [h.cell[c] EXCEPT !.SubKeyCount = count])

\* What is left of the list is checked when it is not purged.
CountValidated(h, c, fix, count) ==
  CASE h.cell[c].SubKeyCount = count -> Good(h)
    [] h.cell[c].SubKeyCount # count ->
         IF fix THEN Good(CmpRepairSubKeyCounts(h, c, count)) ELSE Bad(h)

CmpValidateSubKeyList(h, c, fix) ==
  CASE h.cell[c].SubKeyCount = 0 -> Good(h)
    [] h.cell[c].SubKeyCount > 0 /\ IndexIsBroken(h, h.cell[c].SubKeyList) ->
         IF fix THEN Good(CmpRepairSubKeyList(h, c)) ELSE Bad(h)
    [] OTHER -> CountValidated(h, c, fix, Len(Entries(h, h.cell[h.cell[c].SubKeyList])))

CmpPurgeVolatiles(h, c) ==
  IF "PURGE_VOLATILES" \in flags /\ h.cell[c].Volatiles # 0
  THEN [h EXCEPT !.cell[c].Volatiles = 0, !.dirty = @ \cup {c}]
  ELSE h

-----------------------------------------------------------------------------
(* One key *)

CmpRepairParentNode(h, c, parent) == Repaired(h, c, [h.cell[c] EXCEPT !.Parent = parent])

ParentValidated(h, parent, c, fix) ==
  CASE parent \in {HCELL_NIL, h.cell[c].Parent} -> Good(h)
    [] OTHER -> IF fix THEN Good(CmpRepairParentNode(h, c, parent)) ELSE Bad(h)

CmpRepairKeyNodeSignature(h, c) == Repaired(h, c, [h.cell[c] EXCEPT !.Signature = "kn"])

SignatureValidated(h, c, fix) ==
  CASE h.cell[c].Signature = "kn" -> Good(h)
    [] OTHER -> IF fix THEN Good(CmpRepairKeyNodeSignature(h, c)) ELSE Bad(h)

\* One validation after those with the outcomes vs, unless one found the key bad.
Then(vs, Validate(_)) == {IF v.good THEN Validate(v.hive) ELSE v : v \in vs}

\* The outcome, in a set of its own.
CmpValidateKey(h, parent, c, fix) ==
  IF ~HvIsCellAllocated(h, c) \/ ~h.cell[c].Sane THEN {Bad(h)}
  ELSE LET signature(g) == SignatureValidated(g, c, fix)
           class(g)     == CmpValidateClass(g, c, fix)
           values(g)    == CmpValidateValueList(g, c, fix)
           subkeys(g)   == CmpValidateSubKeyList(g, c, fix)
           purge(g)     == Good(CmpPurgeVolatiles(g, c))
       IN  Then(Then(Then(Then(Then({ParentValidated(h, parent, c, fix)},
                signature), class), values), subkeys), purge)

-----------------------------------------------------------------------------
(* Taking a key out of its parent *)

\* Mutant of CmpRemoveSubKeyInLeaf: the last entry goes.
CmpRemoveSubKeyInLeafLast(h, leaf, target) ==
  Repaired(h, leaf, [h.cell[leaf] EXCEPT !.List = Front(@)])

\* Mutant of CmpRemoveSubKeyInLeaf: the leaf is not marked dirty.
CmpRemoveSubKeyInLeafClean(h, leaf, target) ==
  [h EXCEPT !.cell[leaf].List = SelectSeq(@, LAMBDA c : c # target)]

\* Mutant of CmpRemoveSubKeyInLeaf: nothing is moved, so that the key stays.
CmpRemoveSubKeyInLeafKept(h, leaf, target) == Repaired(h, leaf, h.cell[leaf])

\* The first entry that names the key.
CmpRemoveSubKeyInLeaf(h, leaf, target) ==
  Repaired(h, leaf, [h.cell[leaf] EXCEPT !.List = RemoveAt(@, SelectInSeq(@, LAMBDA c : c = target))])

\* The leaf that names the key; it may be left empty, and stays in the root.
CmpRemoveSubkeyInRoot(h, root, target) ==
  LET list == h.cell[root].List
      i    == SelectInSeq(list, LAMBDA leaf : target \in Range(h.cell[leaf].List))
  IN  CmpRemoveSubKeyInLeaf(h, list[i], target)

CmpRepairParentKey(h, target, parent) ==
  LET index   == h.cell[parent].SubKeyList
      removed == IF IsLeaf(h.cell[index]) THEN CmpRemoveSubKeyInLeaf(h, index, target)
                 ELSE CmpRemoveSubkeyInRoot(h, index, target)
  IN  Repaired(removed, parent, [removed.cell[parent] EXCEPT !.SubKeyCount = @ - 1])

-----------------------------------------------------------------------------
(* Bins *)

IsFreeCell(size) == size >= 0

abs(n) == IF n < 0 THEN -n ELSE n

\* The walk over the cells of a bin: an offset past the end is the end.
HvValidateBin(bin) ==
  LET bytes == bin.Size * HBLOCK_SIZE
      sane(size) == IF IsFreeCell(size) THEN size # 0 /\ size <= bytes ELSE -size <= bytes
      from[o \in 0 .. 2 * bytes] ==
        o >= bytes \/ (sane(bin.Cells[o]) /\ from[o + abs(bin.Cells[o])])
  IN  from[0]

HvValidateHive(bins) ==
  LET length == Cardinality(DOMAIN bins)
      from[b \in 0 .. 2 * length] ==
        b >= length \/ (/\ bins[b].Size <= length
                        /\ bins[b].FileOffset = b
                        /\ HvValidateBin(bins[b])
                        /\ from[b + bins[b].Size])
  IN  from[0]

\* Before the damage the bins are valid.
ASSUME BlocksAssumption == HvValidateHive(BlockList)

-----------------------------------------------------------------------------
(* The walk *)

Frame(current, parent) ==
  [ChildCellIndex |-> 0, Current |-> current, Parent |-> parent, Sibling |-> HCELL_NIL]

AtRoot == <<Frame(RootCell, HCELL_NIL)>>
Top == Last(WorkState)
StackDepth == Len(WorkState) - 1

Init ==
  /\ tree \in Trees
  /\ \E once \in Damaged(tree) : \E twice \in Damaged(once) :
       \E bins \in {BlockList} \cup (IF twice = tree THEN DamagedBins(BlockList) ELSE {}) :
         file = [cell |-> twice, bins |-> bins]
  /\ hive = [cell |-> file.cell, dirty |-> {}, BootType |-> "REGULAR"]
  /\ flags \in CallerFlags
  /\ WorkState = <<>>
  /\ status = "called"

CmCheckRegistry ==
  /\ status = "called"
  /\ LET valid == "VALIDATE_HIVE" \in flags => HvValidateHive(file.bins)
     IN  /\ status' = IF valid THEN "validate" ELSE "bad"
         /\ WorkState' = IF valid THEN AtRoot ELSE <<>>
  /\ UNCHANGED <<tree, file, hive, flags>>

Fails(h) == hive' = h /\ status' = "bad" /\ UNCHANGED WorkState

\* The key is taken out and the walk starts again.
Removes(h) ==
  /\ hive' = CmpRepairParentKey(h, Top.Current, Top.Parent)
  /\ WorkState' = AtRoot
  /\ status' = "validate"

InOrder(h) ==
  LET sibling == WorkState[StackDepth].Sibling
  IN  StackDepth = 0 \/ sibling = HCELL_NIL \/ CmpValidateLexicalOrder(h, Top.Current, sibling)

\* A key that is bad, unless it is the root, and any that is out of order.
Removable(v) == FixHive /\ (v.good \/ Top.Current # RootCell)

Validated(v) ==
  CASE v.good /\ InOrder(v.hive) ->
         /\ hive' = v.hive
         /\ WorkState' = IF StackDepth = 0 THEN WorkState
                         ELSE [WorkState EXCEPT ![StackDepth].Sibling = Top.Current]
         /\ status' = "descend"
    [] ~(v.good /\ InOrder(v.hive)) ->
         IF Removable(v) THEN Removes(v.hive) ELSE Fails(v.hive)

\* The first half of a turn of the loop, for a key that is met first.
Validate ==
  /\ status = "validate"
  /\ \E v \in CmpValidateKey(hive, Top.Parent, Top.Current, FixHive) : Validated(v)
  /\ UNCHANGED <<tree, file, flags>>

\* Mutant of TooDeep: one level more.
TooDeepLate == StackDepth + 1 >= CMP_REGISTRY_MAX_LEVELS_TREE_DEPTH

TooDeep == StackDepth + 1 >= CMP_REGISTRY_MAX_LEVELS_TREE_DEPTH - 1

HasMore == Top.ChildCellIndex < hive.cell[Top.Current].SubKeyCount

\* The second half: the next subkey, unless the tree is too deep.
Descend ==
  /\ status = "descend" /\ HasMore
  /\ IF TooDeep THEN status' = "bad" /\ UNCHANGED WorkState
     ELSE /\ WorkState' =
               Append([WorkState EXCEPT ![Len(WorkState)].ChildCellIndex = @ + 1],
                      Frame(CmpFindSubKeyByNumber(hive, Top.Current, Top.ChildCellIndex), Top.Current))
          /\ status' = "validate"
  /\ UNCHANGED <<tree, file, hive, flags>>

\* Or, after the last one, back to the parent.
Return ==
  /\ status = "descend" /\ ~HasMore
  /\ WorkState' = Front(WorkState)
  /\ status' = IF StackDepth = 0 THEN "good" ELSE "descend"
  /\ UNCHANGED <<tree, file, hive, flags>>

Next == CmCheckRegistry \/ Validate \/ Descend \/ Return

Spec == Init /\ [][Next]_vars /\ WF_vars(Next)

-----------------------------------------------------------------------------
(* Properties *)

TypeOK ==
  /\ DOMAIN hive.cell = DOMAIN file.cell
  /\ hive.dirty \subseteq DOMAIN hive.cell
  /\ hive.BootType \in {"REGULAR", "SELF_HEAL"}
  /\ \A c \in KeysOf(hive.cell) :
       {hive.cell[c].SubKeyCount, hive.cell[c].ValueCount} \subseteq Nat
  /\ status \in {"called", "validate", "descend", "good", "bad"}
  /\ StackDepth < CMP_REGISTRY_MAX_LEVELS_TREE_DEPTH - 1

(***************************************************************************)
(* A check comes to an end whatever is damaged, cycles of keys included:   *)
(* every restart has taken an entry out of a list, and the depth of the    *)
(* stack is bounded (CmpValidateRegistryInternal).                         *)
(***************************************************************************)
CheckEnds == status = "called" ~> status \in {"good", "bad"}

\* The subkeys of a key, as far as its index can be read.
SubkeysOf(h, c) ==
  IF IndexIsBroken(h, h.cell[c].SubKeyList) \/ h.cell[c].SubKeyCount = 0 THEN <<>>
  ELSE Entries(h, h.cell[h.cell[c].SubKeyList])

\* The keys that can be reached from the root key.
Reached(h) ==
  LET below(ks) == (UNION {Range(SubkeysOf(h, k)) : k \in ks}) \cap DOMAIN h.cell
      within[n \in 0 .. Cardinality(KeysOf(tree))] ==
        {RootCell} \cup (IF n = 0 THEN {} ELSE below(within[n - 1]))
  IN  within[Cardinality(KeysOf(tree))]

KeyIsSound(h, c) ==
  LET key == h.cell[c]
      subkeys == SubkeysOf(h, c)
  IN  /\ key.Signature = "kn" /\ key.Sane
      /\ key.ClassLength > 0 => key.Class \in DOMAIN h.cell \cup {HCELL_NIL}
      /\ key.ValueCount > 0 =>
           /\ key.ValueList \in DOMAIN h.cell
           /\ key.ValueCount <= Len(h.cell[key.ValueList].List)
           /\ \A i \in 1 .. key.ValueCount : ValueIsSound(h, h.cell[key.ValueList].List[i])
      /\ key.SubKeyCount = Len(subkeys)
      /\ \A i \in DOMAIN subkeys :
           /\ subkeys[i] \in DOMAIN h.cell
           /\ h.cell[subkeys[i]].Parent = c
           /\ i > 1 => \/ h.cell[subkeys[i]].Comp /\ h.cell[subkeys[i - 1]].Comp
                       \/ h.cell[subkeys[i - 1]].Name < h.cell[subkeys[i]].Name

Sound(h) ==
  \A c \in Reached(h) : KeyIsSound(h, c) /\ RootCell \notin Range(SubkeysOf(h, c))

\* The subkeys of every key stand in the order of their names, in a leaf and over the leaves.
NamesAscend(t) ==
  /\ \A leaf \in CellsOf(t, "li") : LET list == t[leaf].List IN
       \A i, j \in DOMAIN list : i < j => t[list[i]].Name < t[list[j]].Name
  /\ \A root \in CellsOf(t, "ri") : LET list == t[root].List IN
       \A i, j \in DOMAIN list : i < j =>
         \A a \in Range(t[list[i]].List), b \in Range(t[list[j]].List) : t[a].Name < t[b].Name

\* A leaf below a root is in no other root, and is not itself the index of a key.
LeavesApart(t) ==
  \A root \in CellsOf(t, "ri") : \A leaf \in Range(t[root].List) :
    /\ \A other \in CellsOf(t, "ri") : leaf \in Range(t[other].List) => other = root
    /\ \A key \in KeysOf(t) : t[key].SubKeyList # leaf

\* Before the damage the keys are sound, all of them hang from the root key, and are in order.
ASSUME SoundnessAssumption ==
  \A t \in Trees : LET h == [cell |-> t] IN
    /\ \A k \in KeysOf(t) : KeyIsSound(h, k) /\ RootCell \notin Range(SubkeysOf(h, k))
    /\ \A ks \in SUBSET KeysOf(t) :
         RootCell \in ks /\ (\A k \in ks : Range(SubkeysOf(h, k)) \subseteq ks) => ks = KeysOf(t)
    /\ \A leaf \in CellsOf(t, "li") : Range(t[leaf].List) \subseteq KeysOf(t)
    /\ NamesAscend(t) /\ LeavesApart(t)

\* A key that two keys have as their subkey.
KeyIsShared(h) ==
  \E p, q \in Reached(h) :
    p # q /\ Range(SubkeysOf(h, p)) \cap Range(SubkeysOf(h, q)) # {}

(***************************************************************************)
(* A check that repairs nothing accepts the sound hives and no others, but *)
(* for those with more levels than its stack has, and what a repair leaves *)
(* behind, when it reports success, is a sound hive again, whatever two    *)
(* fields were damaged and however many restarts it took.  But a key that  *)
(* two keys have as their subkey is not taken out of either: the walk      *)
(* gives it the parent that it came from last.  Soundness is about keys.   *)
(* A hive with a wrong cell header may be refused or, where HvValidateBin  *)
(* is lenient, accepted; one without any must not be refused for its bins. *)
(***************************************************************************)
VerdictIsRight ==
  /\ status = "good" => Sound(hive) \/ (FixHive /\ KeyIsShared(hive))
  /\ status = "bad" /\ ~FixHive => ~Sound(file) \/ file.bins # BlockList \/ TooDeep

(***************************************************************************)
(* What a check has changed in memory is marked dirty, so that the next    *)
(* flush saves the repair (the HvMarkCellDirty calls of cmheal.cpp), and   *)
(* a check that was not asked to repair changes nothing but the counts     *)
(* of volatile subkeys and of a class that is not there.                   *)
(***************************************************************************)
ChangesAreMarked ==
  \A c \in DOMAIN hive.cell : hive.cell[c] # file.cell[c] =>
    /\ c \in hive.dirty
    /\ ~FixHive => hive.cell[c] = [file.cell[c] EXCEPT
                     !.Volatiles = hive.cell[c].Volatiles, !.ClassLength = hive.cell[c].ClassLength]

\* The path from the root key to a key, in the tree as it was meant to be.
PathTo(c) ==
  LET up[n \in 0 .. Cardinality(KeysOf(tree))] ==
        {c} \cup (IF n = 0 THEN {} ELSE {tree[k].Parent : k \in up[n - 1] \ {RootCell}})
  IN  up[Cardinality(KeysOf(tree))]

\* The lists that lead along a path from key to key.
ListsOver(path) ==
  LET indices == {tree[p].SubKeyList : p \in path} \ {HCELL_NIL}
  IN  indices \cup UNION {Range(tree[i].List) : i \in {j \in indices : tree[j].Signature = "ri"}}

\* The siblings that come before a key of the path.
Before(path) ==
  {s \in KeysOf(tree) : \E k \in path : tree[s].Parent = tree[k].Parent /\ tree[s].Name < tree[k].Name}

(***************************************************************************)
(* A repair takes out what is damaged and what hangs from it, no more: a   *)
(* key that was in the tree can be reached afterwards unless it, or a key  *)
(* or list above it, was damaged, or the name of a sibling before one of   *)
(* them, to which its own is compared.                                     *)
(***************************************************************************)
OnlyDamagedKeysLost ==
  status = "good" =>
    \A c \in KeysOf(tree) \ Reached(hive) :
      \/ \E d \in PathTo(c) \cup ListsOver(PathTo(c) \ {c}) : file.cell[d] # tree[d]
      \/ \E s \in Before(PathTo(c)) : file.cell[s].Name # tree[s].Name

(***************************************************************************)
(* A repair leaves no leaf below a root empty that was not: the search by  *)
(* name asserts that a leaf of a root has entries (CmpFindSubKeyInRoot,    *)
(* cmindex.cpp:173).  The code does not keep to it: CmpRemoveSubkeyInRoot  *)
(* takes the last entry out of a leaf and leaves the leaf in the root.     *)
(***************************************************************************)
LeavesStayFilled ==
  status = "good" =>
    \A key \in Reached(hive) : LET list == hive.cell[key].SubKeyList IN
      hive.cell[key].SubKeyCount > 0 /\ hive.cell[list].Signature = "ri" =>
        \A leaf \in Range(hive.cell[list].List) :
          hive.cell[leaf].List = <<>> => file.cell[leaf].List = <<>>
=============================================================================
