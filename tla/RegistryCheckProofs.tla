------------------------ MODULE RegistryCheckProofs ------------------------
(***************************************************************************)
(* For every set of trees of keys, whatever two fields are damaged in one, *)
(* and for any number of restarts: the check of a hive marks what it       *)
(* changes, keeps to the types of its state and the size of its stack,     *)
(* gives the right verdict, and takes no key out of the tree that the      *)
(* damage has spared.                                                      *)
(*                                                                         *)
(* The argument follows one write at a time.  All writes are of one form,  *)
(* the content of a cell and the dirty bit of the same cell.  So each of   *)
(* the validations of a key, and the removal of a key, leaves a hive in    *)
(* which what is different is marked (ChangesMarked), in which every cell  *)
(* holds what it may hold (Well), and in which nothing that was in order   *)
(* in any key is undone (Touches).                                         *)
(*                                                                         *)
(* The verdict rests on what the walk has made sure of so far (Walk): of   *)
(* the keys that it is done with, and of those on the stack, that they are *)
(* valid and their subkeys in their places, and that there are no others   *)
(* among the keys first met.  Induction over the length of a list or the   *)
(* levels of a tree is replaced by the least number for which something    *)
(* fails (StepsExist, StepsKeep).                                          *)
(*                                                                         *)
(* That no more is lost rests on what is true of each key by itself, given *)
(* its parent, the lists between them and the names before its own         *)
(* (Spared).  From there it is a path from the root key on.                *)
(***************************************************************************)
EXTENDS RegistryCheck, FiniteSetTheorems, SequenceTheorems, WellFoundedInduction, TLAPS

(***************************************************************************)
(* What becomes of the content old of a cell: it is marked if it is        *)
(* another one now, and without a repair only counts are reset.            *)
(***************************************************************************)
CellMarked(new, old, isDirty, fix) ==
  new # old =>
    /\ isDirty
    /\ ~fix => new = [old EXCEPT !.Volatiles = new.Volatiles, !.ClassLength = new.ClassLength]

IsHive(h) == DOMAIN h = {"cell", "dirty", "BootType"}

\* The hive h is what a check of a hive with these cells may have made of it.
Marked(h, cells, fix) ==
  /\ IsHive(h)
  /\ DOMAIN h.cell = DOMAIN cells
  /\ \A c \in DOMAIN cells : CellMarked(h.cell[c], cells[c], c \in h.dirty, fix)

\* The inductive invariant.
MarkedInv == Marked(hive, file.cell, FixHive)

-----------------------------------------------------------------------------
(* One write *)

LEMMA RepairedFields ==
  ASSUME NEW h, NEW c, NEW content, IsHive(h)
  PROVE  /\ IsHive(Repaired(h, c, content))
         /\ Repaired(h, c, content).cell = [h.cell EXCEPT ![c] = content]
         /\ Repaired(h, c, content).dirty = h.dirty \cup {c}
<1>1. IsHive(Repaired(h, c, content))  BY DEF Repaired, IsHive
<1>2. Repaired(h, c, content).cell = [h.cell EXCEPT ![c] = content]  BY DEF Repaired, IsHive
<1>3. Repaired(h, c, content).dirty = h.dirty \cup {c}  BY DEF Repaired, IsHive
<1> QED  BY <1>1, <1>2, <1>3

\* Any content goes, in a repair, to a cell that is marked with it.
LEMMA RepairedIsMarked ==
  ASSUME NEW h, NEW cells, NEW c, NEW content, NEW fix, fix, Marked(h, cells, fix)
  PROVE  Marked(Repaired(h, c, content), cells, fix)
<1> DEFINE g == Repaired(h, c, content)
<1>1. IsHive(g) /\ g.cell = [h.cell EXCEPT ![c] = content] /\ g.dirty = h.dirty \cup {c}
  BY RepairedFields DEF Marked
<1>2. DOMAIN g.cell = DOMAIN cells
  BY <1>1 DEF Marked
<1>3. ASSUME NEW d \in DOMAIN cells
      PROVE  CellMarked(g.cell[d], cells[d], d \in g.dirty, fix)
  <2>1. CASE d = c
    BY <1>1, <2>1 DEF CellMarked
  <2>2. CASE d # c
    <3>1. g.cell[d] = h.cell[d] /\ (d \in h.dirty => d \in g.dirty)
      BY <1>1, <2>2 DEF Marked
    <3>2. CellMarked(h.cell[d], cells[d], d \in h.dirty, fix)
      BY DEF Marked
    <3> QED  BY <3>1, <3>2 DEF CellMarked
  <2> QED  BY <2>1, <2>2
<1> QED  BY <1>1, <1>2, <1>3 DEF Marked

\* The counts of one cell, and no other field, can be reset one after the other.
LEMMA ResetsCompose ==
  ASSUME NEW old, NEW new, NEW newer, NEW field \in {"Volatiles", "ClassLength"},
         CellMarked(new, old, TRUE, FALSE), newer = [new EXCEPT ![field] = 0]
  PROVE  CellMarked(newer, old, TRUE, FALSE)
<1> SUFFICES newer = [old EXCEPT !.Volatiles = newer.Volatiles, !.ClassLength = newer.ClassLength]
  BY DEF CellMarked
<1>1. DOMAIN newer = DOMAIN old /\ newer = [f \in DOMAIN old |-> newer[f]]
  BY DEF CellMarked
<1>2. \A f \in DOMAIN old : f \notin {"Volatiles", "ClassLength"} => newer[f] = old[f]
  BY DEF CellMarked
<1> QED  BY <1>1, <1>2

(***************************************************************************)
(* A count of a cell is reset to zero, and the cell is marked with it,     *)
(* whether or not the check repairs.                                       *)
(***************************************************************************)
LEMMA ResetIsMarked ==
  ASSUME NEW h, NEW g, NEW cells, NEW c, NEW field \in {"Volatiles", "ClassLength"}, NEW fix,
         Marked(h, cells, fix), IsHive(g),
         g.cell = [h.cell EXCEPT ![c] = [h.cell[c] EXCEPT ![field] = 0]],
         g.dirty = h.dirty \cup {c}
  PROVE  Marked(g, cells, fix)
<1>1. DOMAIN g.cell = DOMAIN cells
  BY DEF Marked
<1>2. ASSUME NEW d \in DOMAIN cells
      PROVE  CellMarked(g.cell[d], cells[d], d \in g.dirty, fix)
  <2>0. CellMarked(h.cell[d], cells[d], d \in h.dirty, fix)
    BY DEF Marked
  <2>1. CASE d = c
    <3>1. d \in g.dirty /\ g.cell[d] = [h.cell[d] EXCEPT ![field] = 0]
      BY <2>1 DEF Marked
    <3>2. CASE fix
      BY <3>1, <3>2 DEF CellMarked
    <3>3. CASE ~fix
      <4>1. CellMarked(h.cell[d], cells[d], TRUE, FALSE)
        BY <2>0, <3>3 DEF CellMarked
      <4>2. CellMarked(g.cell[d], cells[d], TRUE, FALSE)
        BY <4>1, <3>1, ResetsCompose
      <4> QED  BY <4>2, <3>1 DEF CellMarked
    <3> QED  BY <3>2, <3>3
  <2>2. CASE d # c
    BY <2>0, <2>2 DEF Marked, CellMarked
  <2> QED  BY <2>1, <2>2
<1> QED  BY <1>1, <1>2 DEF Marked

-----------------------------------------------------------------------------
(* One validation: what it leaves behind is marked if what it finds is *)

LEMMA ParentValidatedMarks ==
  ASSUME NEW h, NEW cells, NEW parent, NEW c, NEW fix, Marked(h, cells, fix)
  PROVE  Marked(ParentValidated(h, parent, c, fix).hive, cells, fix)
  BY RepairedIsMarked DEF ParentValidated, CmpRepairParentNode, Good, Bad

LEMMA SignatureValidatedMarks ==
  ASSUME NEW h, NEW cells, NEW c, NEW fix, Marked(h, cells, fix)
  PROVE  Marked(SignatureValidated(h, c, fix).hive, cells, fix)
  BY RepairedIsMarked DEF SignatureValidated, CmpRepairKeyNodeSignature, Good, Bad

\* A class length without a class is the one thing that is always reset.
LEMMA ClassValidatedMarks ==
  ASSUME NEW h, NEW cells, NEW c, NEW fix, Marked(h, cells, fix)
  PROVE  Marked(CmpValidateClass(h, c, fix).hive, cells, fix)
<1> DEFINE g == [h EXCEPT !.cell[c].ClassLength = 0, !.dirty = @ \cup {c}]
           r == Repaired(h, c, [h.cell[c] EXCEPT !.Class = HCELL_NIL, !.ClassLength = 0])
<1>1. Marked(g, cells, fix)
  <2>1. /\ IsHive(g)
        /\ g.cell = [h.cell EXCEPT ![c] = [h.cell[c] EXCEPT !["ClassLength"] = 0]]
        /\ g.dirty = h.dirty \cup {c}
    BY DEF Marked, IsHive
  <2> HIDE DEF g
  <2> QED  BY <2>1, ResetIsMarked
<1>2. fix => Marked(r, cells, fix)
  BY RepairedIsMarked
<1>3. CmpValidateClass(h, c, fix).hive \in {h, g} \cup (IF fix THEN {r} ELSE {})
  BY DEF CmpValidateClass, Good, Bad
<1> HIDE DEF g, r
<1> QED  BY <1>1, <1>2, <1>3

LEMMA ValueListValidatedMarks ==
  ASSUME NEW h, NEW cells, NEW c, NEW fix, Marked(h, cells, fix)
  PROVE  Marked(CmpValidateValueList(h, c, fix).hive, cells, fix)
<1> DEFINE list == h.cell[h.cell[c].ValueList].List
           count == h.cell[c].ValueCount
<1>1. fix => Marked(CmpRepairValueList(h, c), cells, fix)
  BY RepairedIsMarked DEF CmpRepairValueList
<1>2. fix => Marked(CmpRepairValueListCount(h, c, list, count), cells, fix)
  BY RepairedIsMarked DEF CmpRepairValueListCount
<1>3. CmpValidateValueList(h, c, fix).hive \in
        {h} \cup (IF fix THEN {CmpRepairValueList(h, c), CmpRepairValueListCount(h, c, list, count)}
                  ELSE {})
  BY DEF CmpValidateValueList, Good, Bad
<1> QED  BY <1>1, <1>2, <1>3

LEMMA SubKeyListValidatedMarks ==
  ASSUME NEW h, NEW cells, NEW c, NEW fix, Marked(h, cells, fix)
  PROVE  Marked(CmpValidateSubKeyList(h, c, fix).hive, cells, fix)
<1>1. fix => Marked(CmpRepairSubKeyList(h, c), cells, fix)
  BY RepairedIsMarked DEF CmpRepairSubKeyList
<1>2. \A n : fix => Marked(CmpRepairSubKeyCounts(h, c, n), cells, fix)
  BY RepairedIsMarked DEF CmpRepairSubKeyCounts
<1>3. \A n : Marked(CountValidated(h, c, fix, n).hive, cells, fix)
  BY <1>2 DEF CountValidated, Good, Bad
<1> QED  BY <1>1, <1>3 DEF CmpValidateSubKeyList, Good, Bad

LEMMA PurgeMarks ==
  ASSUME NEW h, NEW cells, NEW c, NEW fix, Marked(h, cells, fix)
  PROVE  Marked(CmpPurgeVolatiles(h, c), cells, fix)
<1> DEFINE g == [h EXCEPT !.cell[c].Volatiles = 0, !.dirty = @ \cup {c}]
<1>1. /\ IsHive(g)
      /\ g.cell = [h.cell EXCEPT ![c] = [h.cell[c] EXCEPT !["Volatiles"] = 0]]
      /\ g.dirty = h.dirty \cup {c}
  BY DEF Marked, IsHive
<1>2. CmpPurgeVolatiles(h, c) \in {h, g}
  BY DEF CmpPurgeVolatiles
<1> HIDE DEF g
<1>3. Marked(g, cells, fix)
  BY <1>1, ResetIsMarked
<1> QED  BY <1>2, <1>3

\* The validations of a key, one after the other until one finds it bad.
LEMMA KeyValidatedMarks ==
  ASSUME NEW h, NEW cells, NEW parent, NEW c, NEW fix, Marked(h, cells, fix),
         NEW v \in CmpValidateKey(h, parent, c, fix)
  PROVE  Marked(v.hive, cells, fix)
<1> DEFINE vs1 == {ParentValidated(h, parent, c, fix)}
           vs2 == {IF w.good THEN SignatureValidated(w.hive, c, fix) ELSE w : w \in vs1}
           vs3 == {IF w.good THEN CmpValidateClass(w.hive, c, fix) ELSE w : w \in vs2}
           vs4 == {IF w.good THEN CmpValidateValueList(w.hive, c, fix) ELSE w : w \in vs3}
           vs5 == {IF w.good THEN CmpValidateSubKeyList(w.hive, c, fix) ELSE w : w \in vs4}
           vs6 == {IF w.good THEN Good(CmpPurgeVolatiles(w.hive, c)) ELSE w : w \in vs5}
           AllMarked(vs) == \A w \in vs : Marked(w.hive, cells, fix)
<1>1. AllMarked(vs1)  BY ParentValidatedMarks
<1>2. AllMarked(vs2)  BY <1>1, SignatureValidatedMarks
<1>3. AllMarked(vs3)  BY <1>2, ClassValidatedMarks
<1>4. AllMarked(vs4)  BY <1>3, ValueListValidatedMarks
<1>5. AllMarked(vs5)  BY <1>4, SubKeyListValidatedMarks
<1>6. AllMarked(vs6)  BY <1>5, PurgeMarks DEF Good
<1>7. v \in {Bad(h)} \cup vs6
  BY DEF CmpValidateKey, Then
<1> QED  BY <1>6, <1>7 DEF Bad

\* Taking a key out of its parent.
LEMMA RemovalMarks ==
  ASSUME NEW h, NEW cells, NEW fix, fix, Marked(h, cells, fix), NEW target, NEW parent
  PROVE  Marked(CmpRepairParentKey(h, target, parent), cells, fix)
<1>1. \A leaf : Marked(CmpRemoveSubKeyInLeaf(h, leaf, target), cells, fix)
  BY RepairedIsMarked DEF CmpRemoveSubKeyInLeaf
<1>2. \A root : Marked(CmpRemoveSubkeyInRoot(h, root, target), cells, fix)
  BY <1>1 DEF CmpRemoveSubkeyInRoot
<1> QED  BY <1>1, <1>2, RepairedIsMarked DEF CmpRepairParentKey

-----------------------------------------------------------------------------
(* The walk *)

LEMMA InitMarked == Init => MarkedInv
<1> SUFFICES ASSUME Init PROVE MarkedInv
  OBVIOUS
<1>1. hive = [cell |-> file.cell, dirty |-> {}, BootType |-> "REGULAR"]
  BY DEF Init
<1> QED  BY <1>1 DEF MarkedInv, Marked, IsHive, CellMarked

LEMMA NextMarked == MarkedInv /\ [Next]_vars => MarkedInv'
<1> SUFFICES ASSUME MarkedInv, [Next]_vars PROVE MarkedInv'
  OBVIOUS
<1>1. ASSUME UNCHANGED <<file, hive, flags>> PROVE MarkedInv'
  BY <1>1 DEF MarkedInv, Marked, IsHive, CellMarked, FixHive
<1>2. ASSUME Validate PROVE MarkedInv'
  <2>1. PICK v \in CmpValidateKey(hive, Top.Parent, Top.Current, FixHive) : Validated(v)
    BY <1>2 DEF Validate
  <2>2. Marked(v.hive, file.cell, FixHive)
    BY KeyValidatedMarks DEF MarkedInv
  <2>3. Marked(hive', file.cell, FixHive)
    <3>1. CASE hive' = v.hive
      BY <3>1, <2>2
    <3>2. CASE FixHive /\ hive' = CmpRepairParentKey(v.hive, Top.Current, Top.Parent)
      BY <3>2, <2>2, RemovalMarks
    <3> QED  BY <2>1, <3>1, <3>2 DEF Validated, Removable, Removes, Fails
  <2>4. file' = file /\ FixHive' = FixHive
    BY <1>2 DEF Validate, FixHive
  <2> QED  BY <2>3, <2>4 DEF MarkedInv, Marked, IsHive, CellMarked
<1>3. CASE Validate
  BY <1>2, <1>3
<1>4. CASE CmCheckRegistry \/ Descend \/ Return \/ UNCHANGED vars
  BY <1>1, <1>4 DEF CmCheckRegistry, Descend, Return, vars
<1> QED  BY <1>3, <1>4 DEF Next

LEMMA MarkedInvariant == Spec => []MarkedInv
  BY InitMarked, NextMarked, PTL DEF Spec

(***************************************************************************)
(* Whatever was damaged in a hive, every cell that a check has changed in  *)
(* memory is marked dirty, and a check that was not asked to repair has    *)
(* changed no more than counts (cmcheck.cpp, cmheal.cpp).                  *)
(***************************************************************************)
THEOREM ChangesMarked == Spec => []ChangesAreMarked
<1>1. MarkedInv => ChangesAreMarked
  BY DEF MarkedInv, Marked, CellMarked, ChangesAreMarked
<1> QED  BY <1>1, MarkedInvariant, PTL

-----------------------------------------------------------------------------
(* Recursion *)

LEMMA MinFacts ==
  ASSUME NEW T \in SUBSET Nat, T # {}
  PROVE  Min(T) \in T /\ \A n \in T : Min(T) <= n
<1> DEFINE R == OpToRel(<, Nat)
<1>1. IsWellFoundedOn(R, Nat)
  BY NatLessThanWellFounded
<1>2. R = {ss \in Nat \X Nat : ss[1] < ss[2]}
  BY Zenon DEF OpToRel
<1> HIDE DEF R
<1>3. PICK x \in T : \A y \in T : <<y, x>> \notin R
  BY <1>1, WFMin
<1>4. \A y \in T : x <= y
  <2> SUFFICES ASSUME NEW y \in T, ~(x <= y) PROVE <<y, x>> \in R
    BY <1>3
  <2>1. x \in Nat /\ y \in Nat /\ y < x
    OBVIOUS
  <2>2. <<y, x>> \in Nat \X Nat /\ <<y, x>>[1] = y /\ <<y, x>>[2] = x
    BY <2>1
  <2> QED  BY <2>1, <2>2, <1>2
<1> QED  BY <1>3, <1>4 DEF Min

(***************************************************************************)
(* The function f starts from base and takes one step after the other, N   *)
(* times.  There is one: else there would be a least number of steps for   *)
(* which there is none.                                                    *)
(***************************************************************************)
Steps(N, base, step, f) ==
  DOMAIN f = 0 .. N /\ f[0] = base /\ \A n \in 1 .. N : f[n] = step[n][f[n - 1]]

LEMMA StepsExist ==
  ASSUME NEW X, NEW base \in X, NEW N \in Nat, NEW step \in [1 .. N -> [X -> X]]
  PROVE  \E f \in [0 .. N -> X] : Steps(N, base, step, f)
<1> DEFINE P(M) == \E f \in [0 .. M -> X] : Steps(M, base, step, f)
           T == {M \in 0 .. N : ~P(M)}
<1> SUFFICES ASSUME T # {} PROVE FALSE
  BY DEF P
<1> DEFINE M == Min(T)
<1>1. M \in T /\ \A n \in T : M <= n
  <2>1. T \in SUBSET Nat
    OBVIOUS
  <2> HIDE DEF T
  <2> QED  BY <2>1, MinFacts
<1> HIDE DEF M
<1>2. M \in 0 .. N /\ ~P(M)
  BY <1>1
<1>3. CASE M = 0
  <2> DEFINE f == [n \in 0 .. 0 |-> base]
  <2>1. f \in [0 .. 0 -> X] /\ Steps(0, base, step, f)
    BY DEF Steps
  <2> QED  BY <1>2, <1>3, <2>1
<1>4. CASE M # 0
  <2>1. M - 1 \in 0 .. N /\ M - 1 \notin T
    BY <1>1, <1>2, <1>4
  <2>2. PICK g \in [0 .. M - 1 -> X] : Steps(M - 1, base, step, g)
    BY <2>1
  <2> DEFINE f == [n \in 0 .. M |-> IF n = M THEN step[M][g[M - 1]] ELSE g[n]]
  <2>3. M \in 1 .. N /\ M - 1 \in 0 .. M - 1 /\ step[M][g[M - 1]] \in X
    BY <1>2, <1>4
  <2>4. f \in [0 .. M -> X]
    BY <1>2, <2>2, <2>3
  <2>5. f[0] = base
    BY <1>2, <1>4, <2>2 DEF Steps
  <2>6. ASSUME NEW n \in 1 .. M PROVE f[n] = step[n][f[n - 1]]
    <3>1. CASE n = M
      <4>1. f[n] = step[M][g[M - 1]] /\ f[n - 1] = g[M - 1]
        BY <1>2, <1>4, <3>1
      <4> QED  BY <4>1, <3>1
    <3>2. CASE n # M
      <4>1. n \in 1 .. M - 1 /\ f[n] = g[n] /\ f[n - 1] = g[n - 1]
        BY <1>2, <1>4, <3>2
      <4> QED  BY <4>1, <2>2 DEF Steps
    <3> QED  BY <3>1, <3>2
  <2> HIDE DEF f
  <2>7. Steps(M, base, step, f)
    BY <2>4, <2>5, <2>6 DEF Steps
  <2> QED  BY <1>2, <2>4, <2>7
<1> QED  BY <1>3, <1>4

\* What holds at the start and is kept by each step holds at the end.
LEMMA StepsKeep ==
  ASSUME NEW N \in Nat, NEW S, 0 \in S, \A n \in 1 .. N : n - 1 \in S => n \in S
  PROVE  \A n \in 0 .. N : n \in S
<1> DEFINE T == {n \in 0 .. N : n \notin S}
<1> SUFFICES ASSUME T # {} PROVE FALSE
  OBVIOUS
<1> DEFINE M == Min(T)
<1>1. M \in T /\ \A n \in T : M <= n
  <2>1. T \in SUBSET Nat
    OBVIOUS
  <2> HIDE DEF T
  <2> QED  BY <2>1, MinFacts
<1> HIDE DEF M
<1>2. M \in 1 .. N /\ M - 1 \in 0 .. N /\ M - 1 \notin T
  BY <1>1
<1> QED  BY <1>1, <1>2

\* FlattenSeq appends one sequence after the other.
LEMMA FlattenIs ==
  ASSUME NEW S, NEW seqs \in Seq(Seq(S)), seqs # << >>
  PROVE  \E f \in [0 .. Len(seqs) -> Seq(S)] :
           /\ f[0] = << >>
           /\ \A n \in 1 .. Len(seqs) : f[n] = f[n - 1] \o seqs[n]
           /\ FlattenSeq(seqs) = f[Len(seqs)]
<1> DEFINE N == Len(seqs)
           Flat(g) == g = [i \in 1 .. N |-> IF i = 1 THEN seqs[i] ELSE g[i - 1] \o seqs[i]]
           flatten == CHOOSE g : Flat(g)
           step == [n \in 1 .. N |-> [x \in Seq(S) |-> x \o seqs[n]]]
<1>1. N \in Nat \ {0} /\ \A n \in 1 .. N : seqs[n] \in Seq(S)
  OBVIOUS
<1>2. FlattenSeq(seqs) = flatten[N]
  BY <1>1 DEF FlattenSeq
<1> HIDE DEF N
<1>3. \A x \in Seq(S) : \A n \in 1 .. N : x \o seqs[n] \in Seq(S)
  BY <1>1
<1>4. step \in [1 .. N -> [Seq(S) -> Seq(S)]]
  BY <1>3
<1>5. PICK f \in [0 .. N -> Seq(S)] : Steps(N, << >>, step, f)
  <2>1. << >> \in Seq(S)
    OBVIOUS
  <2> HIDE DEF step
  <2> QED  BY <1>1, <1>4, <2>1, StepsExist
<1>6. f[0] = << >> /\ \A n \in 1 .. N : f[n] = f[n - 1] \o seqs[n]
  <2>1. ASSUME NEW n \in 1 .. N PROVE f[n] = f[n - 1] \o seqs[n]
    <3>1. n - 1 \in 0 .. N
      BY <1>1
    <3>2. f[n - 1] \in Seq(S)
      BY <1>5, <3>1
    <3>3. f[n] = step[n][f[n - 1]]
      BY <1>5 DEF Steps
    <3> QED  BY <3>2, <3>3
  <2> QED  BY <1>5, <2>1 DEF Steps
<1> HIDE DEF step
<1>7. Flat(flatten)
  <2> DEFINE g == [i \in 1 .. N |-> f[i]]
  <2>1. \A i \in 1 .. N : g[i] = IF i = 1 THEN seqs[i] ELSE g[i - 1] \o seqs[i]
    <3> SUFFICES ASSUME NEW i \in 1 .. N
                 PROVE  g[i] = IF i = 1 THEN seqs[i] ELSE g[i - 1] \o seqs[i]
      OBVIOUS
    <3>1. g[i] = f[i - 1] \o seqs[i]
      BY <1>6
    <3>2. CASE i = 1
      <4>0. f[i - 1] = << >>
        BY <1>6, <3>2
      <4>1. g[i] = << >> \o seqs[i]
        BY <3>1, <4>0
      <4>2. << >> \o seqs[i] = seqs[i]
        BY <1>1
      <4> QED  BY <3>2, <4>1, <4>2
    <3>3. CASE i # 1
      <4>1. i - 1 \in 1 .. N
        BY <1>1, <3>3
      <4>2. g[i - 1] = f[i - 1]
        BY <4>1
      <4> HIDE DEF g
      <4> QED  BY <3>1, <3>3, <4>2
    <3> QED  BY <3>2, <3>3
  <2>2. g = [i \in 1 .. N |-> g[i]]
    OBVIOUS
  <2> HIDE DEF g
  <2>3. Flat(g)
    BY <2>1, <2>2
  <2> QED  BY <2>3
<1> HIDE DEF flatten
<1>8. \A i \in 1 .. N : flatten[i] = IF i = 1 THEN seqs[i] ELSE flatten[i - 1] \o seqs[i]
  BY <1>7
<1>9. \A n \in 0 .. N : n \in {k \in 0 .. N : k # 0 => flatten[k] = f[k]}
  <2> DEFINE Same == {k \in 0 .. N : k # 0 => flatten[k] = f[k]}
  <2>1. 0 \in Same
    BY <1>1
  <2>2. ASSUME NEW n \in 1 .. N, n - 1 \in Same PROVE n \in Same
    <3>1. CASE n = 1
      <4>0. 1 \in 1 .. N /\ 1 - 1 = 0
        BY <3>1
      <4>1. flatten[1] = seqs[1] /\ f[1] = << >> \o seqs[1]
        BY <1>6, <1>8, <4>0
      <4>2. << >> \o seqs[1] = seqs[1]
        BY <1>1, <3>1
      <4> QED  BY <3>1, <4>1, <4>2
    <3>2. CASE n # 1
      <4>1. flatten[n - 1] = f[n - 1]
        BY <2>2, <3>2
      <4>2. flatten[n] = flatten[n - 1] \o seqs[n] /\ f[n] = f[n - 1] \o seqs[n]
        BY <1>6, <1>8, <3>2
      <4>3. flatten[n] = f[n] /\ n \in 0 .. N
        BY <1>1, <4>1, <4>2
      <4> QED  BY <4>3
    <3> QED  BY <3>1, <3>2
  <2> HIDE DEF Same
  <2>3. \A n \in 0 .. N : n \in Same
    BY <1>1, <2>1, <2>2, StepsKeep
  <2> QED  BY <2>3 DEF Same
<1>10. flatten[N] = f[N]
  BY <1>1, <1>9
<1> QED  BY <1>2, <1>6, <1>10 DEF N

LEMMA FlattenFacts ==
  ASSUME NEW S, NEW seqs \in Seq(Seq(S))
  PROVE  /\ FlattenSeq(seqs) \in Seq(S)
         /\ Range(FlattenSeq(seqs)) = UNION {Range(seqs[i]) : i \in DOMAIN seqs}
<1>1. CASE seqs = << >>
  <2>1. FlattenSeq(seqs) = << >>
    BY <1>1 DEF FlattenSeq
  <2>2. << >> \in Seq(S) /\ DOMAIN << >> = {} /\ DOMAIN seqs = {}
    BY <1>1
  <2>3. Range(<< >>) = {} /\ UNION {Range(seqs[i]) : i \in DOMAIN seqs} = {}
    BY <2>2 DEF Range
  <2> QED  BY <2>1, <2>2, <2>3
<1>2. CASE seqs # << >>
  <2> DEFINE N == Len(seqs)
  <2>1. PICK f \in [0 .. N -> Seq(S)] :
           /\ f[0] = << >>
           /\ \A n \in 1 .. N : f[n] = f[n - 1] \o seqs[n]
           /\ FlattenSeq(seqs) = f[N]
    BY <1>2, FlattenIs
  <2>2. N \in Nat /\ DOMAIN seqs = 1 .. N /\ N \in 0 .. N
    OBVIOUS
  <2> DEFINE Upto == {n \in 0 .. N : Range(f[n]) = UNION {Range(seqs[i]) : i \in 1 .. n}}
  <2>3. 0 \in Upto
    BY <2>1, <2>2 DEF Range
  <2>4. ASSUME NEW n \in 1 .. N, n - 1 \in Upto PROVE n \in Upto
    <3>0. n - 1 \in 0 .. N
      BY <2>2
    <3>a. seqs[n] \in Seq(S)
      OBVIOUS
    <3>1. f[n - 1] \in Seq(S) /\ seqs[n] \in Seq(S) /\ f[n] = f[n - 1] \o seqs[n]
      BY <2>1, <3>0, <3>a
    <3>2. Range(f[n]) = Range(f[n - 1]) \cup Range(seqs[n])
      BY <3>1, RangeConcatenation
    <3>3. 1 .. n = (1 .. (n - 1)) \cup {n}
      OBVIOUS
    <3>4. Range(f[n - 1]) = UNION {Range(seqs[i]) : i \in 1 .. (n - 1)}
      BY <2>4
    <3>5. Range(f[n]) = UNION {Range(seqs[i]) : i \in 1 .. n}
      BY <3>2, <3>3, <3>4
    <3> QED  BY <3>5
  <2> HIDE DEF Upto
  <2>5. N \in Upto
    BY <2>2, <2>3, <2>4, StepsKeep
  <2> QED  BY <2>1, <2>2, <2>5 DEF Upto
<1> QED  BY <1>1, <1>2

\* The entries of s stand in the order of the relation.
Ordered(s, order) == \A i, j \in DOMAIN s : i < j => <<s[i], s[j]>> \in order

LEMMA OrderedConcat ==
  ASSUME NEW S, NEW s \in Seq(S), NEW u \in Seq(S), NEW order, Ordered(s, order), Ordered(u, order),
         \A x \in Range(s), y \in Range(u) : <<x, y>> \in order
  PROVE  Ordered(s \o u, order)
<1> SUFFICES ASSUME NEW i \in DOMAIN (s \o u), NEW j \in DOMAIN (s \o u), i < j
             PROVE  <<(s \o u)[i], (s \o u)[j]>> \in order
  BY DEF Ordered
<1>1. /\ Len(s) \in Nat /\ Len(u) \in Nat /\ DOMAIN s = 1 .. Len(s) /\ DOMAIN u = 1 .. Len(u)
      /\ i \in 1 .. Len(s) + Len(u) /\ j \in 1 .. Len(s) + Len(u)
      /\ \A k \in 1 .. Len(s) + Len(u) : (s \o u)[k] = IF k <= Len(s) THEN s[k] ELSE u[k - Len(s)]
  BY ConcatProperties
<1>2. CASE j <= Len(s)
  <2>1. i \in DOMAIN s /\ j \in DOMAIN s /\ (s \o u)[i] = s[i] /\ (s \o u)[j] = s[j]
    BY <1>1, <1>2
  <2> QED  BY <2>1 DEF Ordered
<1>3. CASE ~(i <= Len(s))
  <2>1. /\ i - Len(s) \in DOMAIN u /\ j - Len(s) \in DOMAIN u /\ i - Len(s) < j - Len(s)
        /\ (s \o u)[i] = u[i - Len(s)] /\ (s \o u)[j] = u[j - Len(s)]
    BY <1>1, <1>3
  <2> QED  BY <2>1 DEF Ordered
<1>4. CASE i <= Len(s) /\ ~(j <= Len(s))
  <2>1. /\ i \in DOMAIN s /\ j - Len(s) \in DOMAIN u
        /\ (s \o u)[i] = s[i] /\ (s \o u)[j] = u[j - Len(s)]
    BY <1>1, <1>4
  <2>2. s[i] \in Range(s) /\ u[j - Len(s)] \in Range(u)
    BY <2>1 DEF Range
  <2> QED  BY <2>1, <2>2
<1> QED  BY <1>1, <1>2, <1>3, <1>4

\* What is ordered in each sequence, and from one to the next, is in order when they are joined.
LEMMA FlattenOrdered ==
  ASSUME NEW S, NEW seqs \in Seq(Seq(S)), NEW order, \A i \in DOMAIN seqs : Ordered(seqs[i], order),
         \A i, j \in DOMAIN seqs : i < j =>
           \A x \in Range(seqs[i]), y \in Range(seqs[j]) : <<x, y>> \in order
  PROVE  Ordered(FlattenSeq(seqs), order)
<1>1. CASE seqs = << >>
  <2>1. FlattenSeq(seqs) = << >>
    BY <1>1 DEF FlattenSeq
  <2> QED  BY <2>1 DEF Ordered
<1>2. CASE seqs # << >>
  <2> DEFINE N == Len(seqs)
  <2>1. PICK f \in [0 .. N -> Seq(S)] :
           /\ f[0] = << >>
           /\ \A n \in 1 .. N : f[n] = f[n - 1] \o seqs[n]
           /\ FlattenSeq(seqs) = f[N]
    BY <1>2, FlattenIs
  <2>2. N \in Nat /\ DOMAIN seqs = 1 .. N /\ N \in 0 .. N
    OBVIOUS
  <2>3. \A n \in 1 .. N : seqs[n] \in Seq(S)
    OBVIOUS
  <2> HIDE DEF N
  <2> DEFINE From(s, n) == \A x \in Range(s) : \E i \in 1 .. n : x \in Range(seqs[i])
             Upto == {n \in 0 .. N : Ordered(f[n], order) /\ From(f[n], n)}
  <2>4. 0 \in Upto
    <3>1. Range(<< >>) = {} /\ Ordered(<< >>, order) /\ 0 \in 0 .. N
      BY <2>2 DEF Range, Ordered
    <3> QED  BY <2>1, <3>1
  <2>5. ASSUME NEW n \in 1 .. N, n - 1 \in Upto PROVE n \in Upto
    <3>1. n - 1 \in 0 .. N /\ n \in 0 .. N /\ n \in DOMAIN seqs
      BY <2>2
    <3>2. /\ f[n - 1] \in Seq(S) /\ seqs[n] \in Seq(S) /\ f[n] = f[n - 1] \o seqs[n]
          /\ Ordered(f[n - 1], order) /\ From(f[n - 1], n - 1)
      BY <2>1, <2>3, <2>5, <3>1
    <3>3. ASSUME NEW x \in Range(f[n - 1]), NEW y \in Range(seqs[n]) PROVE <<x, y>> \in order
      <4>1. PICK i \in 1 .. n - 1 : x \in Range(seqs[i])
        BY <3>2
      <4>2. i \in DOMAIN seqs /\ i < n
        BY <2>2
      <4> QED  BY <3>1, <4>1, <4>2
    <3>4. Ordered(f[n], order)
      BY <3>1, <3>2, <3>3, OrderedConcat
    <3>5. Range(f[n]) = Range(f[n - 1]) \cup Range(seqs[n])
      BY <3>2, RangeConcatenation
    <3>6. From(f[n], n)
      <4> SUFFICES ASSUME NEW x \in Range(f[n]) PROVE \E i \in 1 .. n : x \in Range(seqs[i])
        OBVIOUS
      <4>1. CASE x \in Range(seqs[n])
        BY <4>1
      <4>2. CASE x \in Range(f[n - 1])
        <5>1. PICK i \in 1 .. n - 1 : x \in Range(seqs[i])
          BY <3>2, <4>2
        <5>2. i \in 1 .. n
          OBVIOUS
        <5> QED  BY <5>1, <5>2
      <4> QED  BY <3>5, <4>1, <4>2
    <3> QED  BY <3>1, <3>4, <3>6
  <2> HIDE DEF Upto
  <2>6. \A n \in 0 .. N : n \in Upto
    BY <2>2, <2>4, <2>5, StepsKeep
  <2>7. N \in Upto
    BY <2>2, <2>6
  <2> QED  BY <2>1, <2>7 DEF Upto
<1> QED  BY <1>1, <1>2

-----------------------------------------------------------------------------
(* What cells hold *)

\* A hive of which each cell holds what the cell of the tree t may hold.
Well(t, h) ==
  /\ IsHive(h) /\ Shaped(t, h.cell) /\ ListsApart(t, h.cell)
  /\ h.dirty \subseteq DOMAIN t /\ h.BootType \in {"REGULAR", "SELF_HEAL"}

KeyOrOutside(t) == KeysOf(t) \cup {Outside}
Indices(t) == IndicesOf(t) \cup {Outside, HCELL_NIL}

LEMMA TreeFacts ==
  ASSUME NEW t \in Trees
  PROVE  /\ IsFiniteSet(DOMAIN t) /\ Outside \notin DOMAIN t /\ HCELL_NIL \notin DOMAIN t
         /\ RootCell \in KeysOf(t)
         /\ \A c \in KeysOf(t) : c \in DOMAIN t /\ t[c].Signature = "kn"
         /\ \A s : \A c \in CellsOf(t, s) : c \in DOMAIN t /\ t[c].Signature = s
         /\ \A c \in DOMAIN t : t[c].Signature \in {"kn", "li", "ri", "list", "vk", "data"}
         /\ \A c \in IndicesOf(t) : c \in DOMAIN t /\ t[c].Signature \in {"li", "ri"}
  BY TreesAssumption DEF KeysOf, IndicesOf, CellsOf

LEMMA ShapeFacts ==
  ASSUME NEW t \in Trees, NEW cells, Shaped(t, cells), NEW c \in DOMAIN t
  PROVE  /\ c \in DOMAIN cells
         /\ c \in KeysOf(t) => cells[c] \in KeyNodes(t)
         /\ c \in CellsOf(t, "li") => cells[c] \in [Signature : {"li", "junk"}, List : Seq(KeyOrOutside(t))]
         /\ c \in CellsOf(t, "ri") => cells[c] \in [Signature : {"ri", "junk"}, List : Seq(CellsOf(t, "li") \cup {Outside})]
         /\ c \in CellsOf(t, "list") => cells[c] \in [Signature : {"list"}, List : Seq(DOMAIN t \cup {Outside})]
         /\ cells[c].Signature = "kn" => c \in KeysOf(t)
         /\ cells[c].Signature = "li" => c \in CellsOf(t, "li")
         /\ cells[c].Signature = "ri" => c \in CellsOf(t, "ri")
<1>1. t[c].Signature \in {"kn", "li", "ri", "list", "vk", "data"}
  BY TreeFacts
<1>2. c \in DOMAIN cells /\ cells[c] \in ShapeOf(t, t[c].Signature)
  BY DEF Shaped
<1>3. CASE t[c].Signature = "kn"
  <2>1. cells[c] \in KeyNodes(t)
    BY <1>2, <1>3 DEF ShapeOf
  <2>2. cells[c].Signature \in {"kn", "junk"}
    BY <2>1 DEF KeyNodes
  <2> QED  BY <1>2, <1>3, <2>1, <2>2 DEF KeysOf, CellsOf
<1>4. CASE t[c].Signature # "kn"
  <2>1. CASE t[c].Signature = "li"
    <3>1. cells[c] \in [Signature : {"li", "junk"}, List : Seq(KeyOrOutside(t))]
      BY <1>2, <2>1 DEF ShapeOf, KeyOrOutside
    <3> QED  BY <1>2, <2>1, <3>1 DEF KeysOf, CellsOf
  <2>2. CASE t[c].Signature = "ri"
    <3>1. cells[c] \in [Signature : {"ri", "junk"}, List : Seq(CellsOf(t, "li") \cup {Outside})]
      BY <1>2, <2>2 DEF ShapeOf
    <3> QED  BY <1>2, <2>2, <3>1 DEF KeysOf, CellsOf
  <2>3. CASE t[c].Signature = "list"
    <3>1. cells[c] \in [Signature : {"list"}, List : Seq(DOMAIN t \cup {Outside})]
      BY <1>2, <2>3 DEF ShapeOf
    <3> QED  BY <1>2, <2>3, <3>1 DEF KeysOf, CellsOf
  <2>4. CASE t[c].Signature \in {"vk", "data"}
    <3>1. cells[c].Signature \in {"vk", "junk", "data"}
      BY <1>2, <2>4 DEF ShapeOf
    <3> QED  BY <1>2, <2>4, <3>1 DEF KeysOf, CellsOf
  <2> QED  BY <1>1, <1>4, <2>1, <2>2, <2>3, <2>4
<1> QED  BY <1>3, <1>4

\* One write: the content of a cell and its dirty bit.
Written(h, g, c, content) ==
  /\ IsHive(g) /\ g.cell = [h.cell EXCEPT ![c] = content]
  /\ g.dirty = h.dirty \cup {c} /\ g.BootType \in {h.BootType, "SELF_HEAL"}

LEMMA RepairedWrites ==
  ASSUME NEW h, IsHive(h), NEW c, NEW content
  PROVE  Written(h, Repaired(h, c, content), c, content)
<1> DEFINE g == Repaired(h, c, content)
<1>1. g.BootType = "SELF_HEAL"
  BY DEF Repaired, IsHive
<1>2. IsHive(g)
  BY RepairedFields
<1>3. g.cell = [h.cell EXCEPT ![c] = content]
  BY DEF Repaired, IsHive
<1>4. g.dirty = h.dirty \cup {c}
  BY DEF Repaired, IsHive
<1> HIDE DEF g
<1>5. Written(h, g, c, content)
  BY <1>1, <1>2, <1>3, <1>4 DEF Written
<1> QED  BY <1>5 DEF g

LEMMA WrittenWell ==
  ASSUME NEW t \in Trees, NEW h, Well(t, h), NEW c \in DOMAIN t,
         NEW content \in ShapeOf(t, t[c].Signature),
         c \in KeysOf(t) => content.ValueList \in {h.cell[c].ValueList, HCELL_NIL},
         NEW g, Written(h, g, c, content)
  PROVE  /\ Well(t, g) /\ g.cell[c] = content
         /\ \A d \in DOMAIN t : d # c => g.cell[d] = h.cell[d]
<1>1. DOMAIN h.cell = DOMAIN t
  BY DEF Well, Shaped
<1>2. DOMAIN g.cell = DOMAIN t /\ g.cell[c] = content
      /\ \A d \in DOMAIN t : d # c => g.cell[d] = h.cell[d]
  BY <1>1 DEF Written
<1>3. Shaped(t, g.cell)
  BY <1>1, <1>2 DEF Shaped, Well
<1>4. ListsApart(t, g.cell)
  <2> SUFFICES ASSUME NEW a \in KeysOf(t), NEW b \in KeysOf(t), a # b,
                      g.cell[a].ValueList = g.cell[b].ValueList, g.cell[a].ValueList \in DOMAIN t
               PROVE  FALSE
    BY DEF ListsApart
  <2>1. a \in DOMAIN t /\ b \in DOMAIN t /\ HCELL_NIL \notin DOMAIN t
    BY TreeFacts
  <2>2. g.cell[a].ValueList = h.cell[a].ValueList /\ g.cell[b].ValueList = h.cell[b].ValueList
    BY <1>2, <2>1
  <2> QED  BY <2>2 DEF Well, ListsApart
<1>5. g.dirty \subseteq DOMAIN t /\ g.BootType \in {"REGULAR", "SELF_HEAL"} /\ IsHive(g)
  BY DEF Written, Well
<1> QED  BY <1>2, <1>3, <1>4, <1>5 DEF Well

-----------------------------------------------------------------------------
(* The subkeys of a key *)

\* The leaves of an index that can be read.
LeafCells(h, i) == IF IsLeaf(h.cell[i]) THEN {i} ELSE Range(h.cell[i].List)

LEMMA IndexFacts ==
  ASSUME NEW t \in Trees, NEW h, Shaped(t, h.cell), NEW i, ~IndexIsBroken(h, i)
  PROVE  /\ i \in IndicesOf(t) /\ i \in DOMAIN t
         /\ h.cell[i].Signature \in {"li", "ri"}
         /\ \A l \in LeafCells(h, i) : /\ l \in CellsOf(t, "li") /\ IsLeaf(h.cell[l])
                                       /\ h.cell[l].List \in Seq(KeyOrOutside(t))
         /\ ~IsLeaf(h.cell[i]) => h.cell[i].List \in Seq(CellsOf(t, "li"))
<1>1. i \in DOMAIN t /\ h.cell[i].Signature \in {"li", "ri"}
  BY DEF IndexIsBroken, HvIsCellAllocated, Shaped
<1>2. i \in IndicesOf(t)
  BY <1>1, ShapeFacts DEF IndicesOf
<1>3. ASSUME NEW l \in DOMAIN t, IsLeaf(h.cell[l])
      PROVE  l \in CellsOf(t, "li") /\ h.cell[l].List \in Seq(KeyOrOutside(t))
  BY <1>3, ShapeFacts DEF IsLeaf
<1>4. CASE IsLeaf(h.cell[i])
  BY <1>1, <1>2, <1>3, <1>4 DEF LeafCells
<1>5. CASE ~IsLeaf(h.cell[i])
  <2>1. h.cell[i].Signature = "ri"
    BY <1>1, <1>5 DEF IsLeaf
  <2>2. h.cell[i].List \in Seq(CellsOf(t, "li") \cup {Outside})
    BY <1>1, <2>1, ShapeFacts
  <2>3. \A l \in Range(h.cell[i].List) : l \in DOMAIN t /\ IsLeaf(h.cell[l])
    BY <2>1 DEF IndexIsBroken, HvIsCellAllocated, Shaped
  <2>4. \A l \in Range(h.cell[i].List) : l \in CellsOf(t, "li")
    BY <1>3, <2>3
  <2>5. \A j \in 1 .. Len(h.cell[i].List) : h.cell[i].List[j] \in CellsOf(t, "li")
    BY <2>2, <2>4 DEF Range
  <2>6. h.cell[i].List \in Seq(CellsOf(t, "li"))
    BY <2>2, <2>5
  <2> QED  BY <1>1, <1>2, <1>3, <1>5, <2>3, <2>6 DEF LeafCells
<1> QED  BY <1>4, <1>5

\* The entries of an index are those of its leaves.
LEMMA EntriesFacts ==
  ASSUME NEW t \in Trees, NEW h, Shaped(t, h.cell), NEW i, ~IndexIsBroken(h, i)
  PROVE  LET E == Entries(h, h.cell[i]) IN
         /\ E \in Seq(KeyOrOutside(t))
         /\ Range(E) = UNION {Range(h.cell[l].List) : l \in LeafCells(h, i)}
<1> DEFINE leaves == LeavesOf(h, h.cell[i])
           seqs == [j \in DOMAIN leaves |-> leaves[j].List]
<1>1. /\ \A l \in LeafCells(h, i) : h.cell[l].List \in Seq(KeyOrOutside(t))
      /\ ~IsLeaf(h.cell[i]) => h.cell[i].List \in Seq(CellsOf(t, "li"))
  BY IndexFacts
<1>2. /\ seqs \in Seq(Seq(KeyOrOutside(t)))
      /\ {Range(seqs[j]) : j \in DOMAIN seqs} = {Range(h.cell[l].List) : l \in LeafCells(h, i)}
  <2>1. CASE IsLeaf(h.cell[i])
    <3>1. leaves = << h.cell[i] >>
      BY <2>1 DEF LeavesOf
    <3>2. seqs = << h.cell[i].List >>
      BY <3>1
    <3>3. LeafCells(h, i) = {i}
      BY <2>1 DEF LeafCells
    <3> HIDE DEF seqs
    <3>4. h.cell[i].List \in Seq(KeyOrOutside(t))
      BY <1>1, <3>3
    <3>5. DOMAIN seqs = {1} /\ seqs[1] = h.cell[i].List
      BY <3>2
    <3> QED  BY <3>2, <3>3, <3>4, <3>5
  <2>2. CASE ~IsLeaf(h.cell[i])
    <3> DEFINE L == h.cell[i].List
    <3>1. L \in Seq(CellsOf(t, "li")) /\ LeafCells(h, i) = Range(L)
      BY <1>1, <2>2 DEF LeafCells
    <3>2. leaves = [j \in DOMAIN L |-> h.cell[L[j]]]
      BY <2>2 DEF LeavesOf
    <3> HIDE DEF L, leaves
    <3>3. DOMAIN seqs = DOMAIN L /\ \A j \in DOMAIN L : seqs[j] = h.cell[L[j]].List
      BY <3>2
    <3>4. \A j \in DOMAIN L : h.cell[L[j]].List \in Seq(KeyOrOutside(t))
      BY <1>1, <3>1 DEF Range
    <3>5. Len(L) \in Nat /\ DOMAIN L = 1 .. Len(L) /\ DOMAIN leaves = 1 .. Len(L)
      BY <3>1, <3>2
    <3>6. seqs \in Seq(Seq(KeyOrOutside(t)))
      <4>1. seqs \in [1 .. Len(L) -> Seq(KeyOrOutside(t))]
        BY <3>3, <3>4, <3>5
      <4> HIDE DEF seqs
      <4> QED  BY <3>5, <4>1
    <3> HIDE DEF seqs
    <3>7. {Range(seqs[j]) : j \in DOMAIN seqs} = {Range(h.cell[l].List) : l \in LeafCells(h, i)}
      BY <3>1, <3>3 DEF Range
    <3> QED  BY <3>6, <3>7
  <2> QED  BY <2>1, <2>2
<1>3. Entries(h, h.cell[i]) = FlattenSeq(seqs)
  BY DEF Entries
<1> HIDE DEF seqs
<1>4. FlattenSeq(seqs) \in Seq(KeyOrOutside(t))
      /\ Range(FlattenSeq(seqs)) = UNION {Range(seqs[j]) : j \in DOMAIN seqs}
  BY <1>2, FlattenFacts
<1> QED  BY <1>2, <1>3, <1>4

LEMMA SubkeysFacts ==
  ASSUME NEW t \in Trees, NEW h, Shaped(t, h.cell), NEW c
  PROVE  /\ SubkeysOf(h, c) \in Seq(KeyOrOutside(t))
         /\ Range(SubkeysOf(h, c)) \subseteq KeyOrOutside(t)
         /\ Range(SubkeysOf(h, c)) \cap DOMAIN h.cell \subseteq KeysOf(t)
<1>1. SubkeysOf(h, c) \in Seq(KeyOrOutside(t))
  BY EntriesFacts DEF SubkeysOf
<1>2. Range(SubkeysOf(h, c)) \subseteq KeyOrOutside(t)
  BY <1>1, RangeOfSeq
<1> QED  BY <1>1, <1>2, TreeFacts DEF KeyOrOutside, Shaped

\* An index, and with it the subkeys of a key, is in the cells of indices alone.
SameIndices(t, h, g) == \A i \in IndicesOf(t) : g.cell[i] = h.cell[i]

LEMMA IndexKept ==
  ASSUME NEW t \in Trees, NEW h, NEW g, Shaped(t, h.cell), Shaped(t, g.cell), SameIndices(t, h, g),
         NEW i \in Indices(t)
  PROVE  /\ IndexIsBroken(g, i) <=> IndexIsBroken(h, i)
         /\ ~IndexIsBroken(h, i) => Entries(g, g.cell[i]) = Entries(h, h.cell[i])
<1>1. DOMAIN g.cell = DOMAIN t /\ DOMAIN h.cell = DOMAIN t
  BY DEF Shaped
<1>2. \A l \in CellsOf(t, "li") : g.cell[l] = h.cell[l]
  BY DEF SameIndices, IndicesOf
<1>3. i \in DOMAIN t => i \in IndicesOf(t) /\ g.cell[i] = h.cell[i]
  BY TreeFacts DEF Indices, SameIndices
<1>4. i \in DOMAIN t /\ h.cell[i].Signature = "ri" =>
        \A l \in Range(h.cell[i].List) : l \in DOMAIN t => g.cell[l] = h.cell[l]
  <2> SUFFICES ASSUME i \in DOMAIN t, h.cell[i].Signature = "ri",
                      NEW l \in Range(h.cell[i].List), l \in DOMAIN t
               PROVE  g.cell[l] = h.cell[l]
    OBVIOUS
  <2>1. h.cell[i].List \in Seq(CellsOf(t, "li") \cup {Outside})
    BY ShapeFacts
  <2>2. l \in CellsOf(t, "li") \cup {Outside}
    BY <2>1, RangeOfSeq
  <2> QED  BY <1>2, <2>2, TreeFacts
<1>5. IndexIsBroken(g, i) <=> IndexIsBroken(h, i)
  BY <1>1, <1>3, <1>4 DEF IndexIsBroken, HvIsCellAllocated
<1>6. ASSUME ~IndexIsBroken(h, i) PROVE Entries(g, g.cell[i]) = Entries(h, h.cell[i])
  <2>1. i \in DOMAIN t /\ g.cell[i] = h.cell[i] /\ h.cell[i].Signature \in {"li", "ri"}
    BY <1>3, <1>6, IndexFacts
  <2>2. ~IsLeaf(h.cell[i]) => \A j \in DOMAIN h.cell[i].List : g.cell[h.cell[i].List[j]] = h.cell[h.cell[i].List[j]]
    <3>1. ~IsLeaf(h.cell[i]) => h.cell[i].List \in Seq(CellsOf(t, "li"))
      BY <1>6, IndexFacts
    <3> QED  BY <1>2, <3>1
  <2>3. LeavesOf(g, g.cell[i]) = LeavesOf(h, h.cell[i])
    BY <2>1, <2>2 DEF LeavesOf
  <2> QED  BY <2>3 DEF Entries
<1> QED  BY <1>5, <1>6

LEMMA SubkeysKept ==
  ASSUME NEW t \in Trees, NEW h, NEW g, Shaped(t, h.cell), Shaped(t, g.cell), SameIndices(t, h, g),
         NEW c \in KeysOf(t), g.cell[c].SubKeyCount = h.cell[c].SubKeyCount,
         g.cell[c].SubKeyList = h.cell[c].SubKeyList
  PROVE  SubkeysOf(g, c) = SubkeysOf(h, c)
<1>1. h.cell[c].SubKeyList \in Indices(t)
  <2>1. h.cell[c] \in KeyNodes(t)
    BY ShapeFacts, TreeFacts
  <2> QED  BY <2>1 DEF KeyNodes, Indices
<1> QED  BY <1>1, IndexKept DEF SubkeysOf

-----------------------------------------------------------------------------
(* What makes a key sound, but for its place among its siblings *)

SignaturePart(h, c) == h.cell[c].Signature = "kn"

ClassPart(h, c) == h.cell[c].ClassLength > 0 => h.cell[c].Class \in DOMAIN h.cell \cup {HCELL_NIL}

ValuesPart(h, c) ==
  h.cell[c].ValueCount > 0 =>
    /\ h.cell[c].ValueList \in DOMAIN h.cell
    /\ h.cell[c].ValueCount <= Len(h.cell[h.cell[c].ValueList].List)
    /\ \A i \in 1 .. h.cell[c].ValueCount : ValueIsSound(h, h.cell[h.cell[c].ValueList].List[i])

CountPart(h, c) == h.cell[c].SubKeyCount = Len(SubkeysOf(h, c))

Valid(h, c) ==
  /\ h.cell[c].Sane
  /\ SignaturePart(h, c) /\ ClassPart(h, c) /\ ValuesPart(h, c) /\ CountPart(h, c)

(***************************************************************************)
(* What the validations of the key c, with q for its parent, make of the   *)
(* hive h: of what was in order in any key, nothing is undone.             *)
(***************************************************************************)
Touches(t, h, g, c, q) ==
  /\ Well(t, g)
  /\ \A d \in DOMAIN t : d # c /\ d \notin CellsOf(t, "list") => g.cell[d] = h.cell[d]
  /\ \A d \in KeysOf(t) : ValuesPart(h, d) => ValuesPart(g, d)
  /\ g.cell[c].Name = h.cell[c].Name /\ g.cell[c].Comp = h.cell[c].Comp
  /\ g.cell[c].Sane = h.cell[c].Sane
  /\ g.cell[c].Parent \in {h.cell[c].Parent, q}
  /\ SignaturePart(h, c) => SignaturePart(g, c)
  /\ ClassPart(h, c) => ClassPart(g, c)
  /\ CountPart(h, c) => /\ CountPart(g, c)
                        /\ g.cell[c].SubKeyCount = h.cell[c].SubKeyCount
                        /\ g.cell[c].SubKeyList = h.cell[c].SubKeyList
  /\ SubkeysOf(h, c) # << >> => /\ SubkeysOf(g, c) = SubkeysOf(h, c)
                                /\ g.cell[c].SubKeyList = h.cell[c].SubKeyList

LEMMA TouchesNothing ==
  ASSUME NEW t, NEW h, Well(t, h), NEW c, NEW q
  PROVE  Touches(t, h, h, c, q)
  BY DEF Touches

LEMMA TouchesTwice ==
  ASSUME NEW t, NEW h, NEW f, NEW g, NEW c, NEW q, Touches(t, h, f, c, q), Touches(t, f, g, c, q)
  PROVE  Touches(t, h, g, c, q)
  BY DEF Touches

LEMMA KeyFacts ==
  ASSUME NEW t \in Trees, NEW h, Well(t, h), NEW c \in KeysOf(t)
  PROVE  /\ c \in DOMAIN t /\ c \in DOMAIN h.cell /\ DOMAIN h.cell = DOMAIN t
         /\ t[c].Signature = "kn" /\ ShapeOf(t, "kn") = KeyNodes(t) /\ h.cell[c] \in KeyNodes(t)
         /\ h.cell[c].SubKeyCount \in Nat /\ h.cell[c].ValueCount \in Nat
         /\ h.cell[c].ClassLength \in {0, 1}
         /\ h.cell[c].SubKeyList \in Indices(t)
         /\ h.cell[c].ValueList \in CellsOf(t, "list") \cup {Outside, HCELL_NIL}
         /\ c \notin CellsOf(t, "list") /\ c \notin IndicesOf(t) /\ c \notin CellsOf(t, "vk")
         /\ HCELL_NIL \notin DOMAIN h.cell /\ Outside \notin DOMAIN h.cell
<1>1. c \in DOMAIN t /\ t[c].Signature = "kn" /\ DOMAIN h.cell = DOMAIN t
  BY TreeFacts DEF Well, Shaped
<1>2. h.cell[c] \in KeyNodes(t)
  BY <1>1, ShapeFacts DEF Well
<1>3. ShapeOf(t, "kn") = KeyNodes(t)
  BY DEF ShapeOf
<1>4. /\ h.cell[c].SubKeyCount \in Nat /\ h.cell[c].ValueCount \in Nat
      /\ h.cell[c].ClassLength \in {0, 1}
      /\ h.cell[c].SubKeyList \in Indices(t)
      /\ h.cell[c].ValueList \in CellsOf(t, "list") \cup {Outside, HCELL_NIL}
  BY <1>2 DEF KeyNodes, Indices
<1>5. c \notin CellsOf(t, "list") /\ c \notin IndicesOf(t) /\ c \notin CellsOf(t, "vk")
  BY <1>1, TreeFacts DEF CellsOf, IndicesOf
<1> QED  BY <1>1, <1>2, <1>3, <1>4, <1>5, TreeFacts

\* Values are not written to.
LEMMA ValueKept ==
  ASSUME NEW t \in Trees, NEW h, NEW g, Shaped(t, h.cell), Shaped(t, g.cell),
         \A x \in CellsOf(t, "vk") : g.cell[x] = h.cell[x]
  PROVE  \A x : ValueIsSound(g, x) <=> ValueIsSound(h, x)
<1>1. DOMAIN g.cell = DOMAIN t /\ DOMAIN h.cell = DOMAIN t
  BY DEF Shaped
<1>2. ASSUME NEW x \in DOMAIN t, NEW cells, Shaped(t, cells), cells[x].Signature = "vk"
      PROVE  x \in CellsOf(t, "vk")
  <2>1. t[x].Signature \in {"kn", "li", "ri", "list", "vk", "data"}
    BY TreeFacts
  <2>2. cells[x] \in ShapeOf(t, t[x].Signature)
    BY <1>2 DEF Shaped
  <2>3. CASE t[x].Signature = "kn"
    <3>1. cells[x] \in KeyNodes(t)
      BY <2>2, <2>3 DEF ShapeOf
    <3> QED  BY <3>1, <1>2 DEF KeyNodes
  <2>4. t[x].Signature \notin {"li", "ri", "list", "data"}
    BY <2>2, <1>2 DEF ShapeOf
  <2> QED  BY <2>1, <2>3, <2>4 DEF CellsOf
<1>3. ASSUME NEW x, ~(x \in DOMAIN t /\ (h.cell[x].Signature = "vk" \/ g.cell[x].Signature = "vk"))
      PROVE  ~ValueIsSound(g, x) /\ ~ValueIsSound(h, x)
  BY <1>1, <1>3 DEF ValueIsSound, HvIsCellAllocated
<1>4. ASSUME NEW x \in CellsOf(t, "vk") PROVE ValueIsSound(g, x) <=> ValueIsSound(h, x)
  <2>1. g.cell[x] = h.cell[x]
    OBVIOUS
  <2> QED  BY <1>1, <2>1 DEF ValueIsSound, HvIsCellAllocated
<1> QED  BY <1>2, <1>3, <1>4

\* The values of a key are in order as long as its fields and its list are the same.
LEMMA ValuesKept ==
  ASSUME NEW t \in Trees, NEW h, NEW g, Well(t, h), Well(t, g),
         \A x \in CellsOf(t, "vk") : g.cell[x] = h.cell[x],
         NEW d \in KeysOf(t), ValuesPart(h, d),
         g.cell[d].ValueCount = h.cell[d].ValueCount, g.cell[d].ValueList = h.cell[d].ValueList,
         h.cell[d].ValueList \in DOMAIN t => g.cell[h.cell[d].ValueList] = h.cell[h.cell[d].ValueList]
  PROVE  ValuesPart(g, d)
<1>1. \A x : ValueIsSound(g, x) <=> ValueIsSound(h, x)
  BY ValueKept DEF Well
<1>2. DOMAIN g.cell = DOMAIN t /\ DOMAIN h.cell = DOMAIN t
  BY DEF Shaped, Well
<1> QED  BY <1>1, <1>2 DEF ValuesPart

\* The content of the key c has its index if there are subkeys, and counts some.
SubkeysLeft(h, c, content) ==
  SubkeysOf(h, c) # << >> =>
    /\ content.SubKeyList = h.cell[c].SubKeyList
    /\ content.SubKeyCount # h.cell[c].SubKeyCount => content.SubKeyCount # 0

\* One write to a key, of those that the validations do.
LEMMA KeyWritten ==
  ASSUME NEW t \in Trees, NEW h, Well(t, h), NEW c \in KeysOf(t), NEW q,
         NEW content \in KeyNodes(t),
         content.Name = h.cell[c].Name, content.Comp = h.cell[c].Comp, content.Sane = h.cell[c].Sane,
         content.Parent \in {h.cell[c].Parent, q},
         content.Signature \in {h.cell[c].Signature, "kn"},
         content.ClassLength # 0 =>
           content.ClassLength = h.cell[c].ClassLength /\ content.Class = h.cell[c].Class,
         \/ content.ValueList = HCELL_NIL /\ content.ValueCount = 0
         \/ content.ValueList = h.cell[c].ValueList /\ content.ValueCount = h.cell[c].ValueCount,
         CountPart(h, c) => /\ content.SubKeyCount = h.cell[c].SubKeyCount
                            /\ content.SubKeyList = h.cell[c].SubKeyList,
         SubkeysLeft(h, c, content),
         NEW g, Written(h, g, c, content)
  PROVE  Touches(t, h, g, c, q) /\ g.cell[c] = content
<1>1. /\ c \in DOMAIN t /\ DOMAIN h.cell = DOMAIN t /\ c \notin CellsOf(t, "list")
      /\ c \notin IndicesOf(t) /\ c \notin CellsOf(t, "vk")
      /\ content \in ShapeOf(t, t[c].Signature)
  BY KeyFacts
<1>2. /\ Well(t, g) /\ g.cell[c] = content
      /\ \A d \in DOMAIN t : d # c => g.cell[d] = h.cell[d]
  BY <1>1, WrittenWell
<1>3. ASSUME NEW d \in KeysOf(t), ValuesPart(h, d) PROVE ValuesPart(g, d)
  <2>0. d \in DOMAIN t /\ \A x \in CellsOf(t, "vk") : x \in DOMAIN t
    BY TreeFacts
  <2>1. CASE d = c /\ content.ValueCount = 0
    BY <1>2, <2>1 DEF ValuesPart
  <2>2. CASE ~(d = c /\ content.ValueCount = 0)
    <3>1. g.cell[d].ValueCount = h.cell[d].ValueCount /\ g.cell[d].ValueList = h.cell[d].ValueList
      BY <1>2, <2>0, <2>2
    <3>2. h.cell[d].ValueList \in DOMAIN t => g.cell[h.cell[d].ValueList] = h.cell[h.cell[d].ValueList]
      <4>1. h.cell[d].ValueList \in CellsOf(t, "list") \cup {Outside, HCELL_NIL}
        BY KeyFacts
      <4> QED  BY <1>1, <1>2, <4>1, TreeFacts
    <3>3. \A x \in CellsOf(t, "vk") : g.cell[x] = h.cell[x]
      BY <1>1, <1>2, <2>0
    <3> QED  BY <1>2, <1>3, <3>1, <3>2, <3>3, ValuesKept
  <2> QED  BY <2>1, <2>2
<1>4. CountPart(h, c) => CountPart(g, c)
  <2> SUFFICES ASSUME CountPart(h, c) PROVE CountPart(g, c)
    OBVIOUS
  <2>1. SameIndices(t, h, g)
    BY <1>1, <1>2, TreeFacts DEF SameIndices
  <2>2. SubkeysOf(g, c) = SubkeysOf(h, c)
    BY <1>2, <2>1, SubkeysKept DEF Well
  <2> QED  BY <1>2, <2>2 DEF CountPart
<1>5. DOMAIN g.cell = DOMAIN h.cell
  BY <1>1, <1>2 DEF Well, Shaped
<1>6. SubkeysOf(h, c) # << >> => /\ SubkeysOf(g, c) = SubkeysOf(h, c)
                                /\ g.cell[c].SubKeyList = h.cell[c].SubKeyList
  <2> SUFFICES ASSUME SubkeysOf(h, c) # << >>
               PROVE  SubkeysOf(g, c) = SubkeysOf(h, c) /\ g.cell[c].SubKeyList = h.cell[c].SubKeyList
    OBVIOUS
  <2>1. SameIndices(t, h, g)
    BY <1>1, <1>2, TreeFacts DEF SameIndices
  <2>2. /\ ~IndexIsBroken(h, h.cell[c].SubKeyList) /\ h.cell[c].SubKeyCount # 0
        /\ SubkeysOf(h, c) = Entries(h, h.cell[h.cell[c].SubKeyList])
    BY DEF SubkeysOf
  <2>3. g.cell[c].SubKeyList = h.cell[c].SubKeyList /\ g.cell[c].SubKeyCount # 0
    BY <1>2, <2>2 DEF SubkeysLeft
  <2>4. h.cell[c].SubKeyList \in Indices(t)
    BY KeyFacts
  <2>5. /\ ~IndexIsBroken(g, h.cell[c].SubKeyList)
        /\ Entries(g, g.cell[h.cell[c].SubKeyList]) = Entries(h, h.cell[h.cell[c].SubKeyList])
    BY <1>2, <2>1, <2>2, <2>4, IndexKept DEF Well
  <2> QED  BY <2>2, <2>3, <2>5 DEF SubkeysOf
<1> QED  BY <1>1, <1>2, <1>3, <1>4, <1>5, <1>6 DEF Touches, SignaturePart, ClassPart

-----------------------------------------------------------------------------
(* One validation: it finds good what is in order, and leaves it in order *)

LEMMA Outcomes == \A h : Good(h).hive = h /\ Good(h).good /\ Bad(h).hive = h /\ ~Bad(h).good
  BY DEF Good, Bad

LEMMA ParentValidates ==
  ASSUME NEW t \in Trees, NEW h, Well(t, h), NEW c \in KeysOf(t), NEW fix \in BOOLEAN,
         NEW q \in KeysOf(t) \cup {HCELL_NIL}
  PROVE  LET v == ParentValidated(h, q, c, fix) IN
         /\ Touches(t, h, v.hive, c, q)
         /\ v.good => q \in {HCELL_NIL, v.hive.cell[c].Parent}
         /\ q = HCELL_NIL => v.hive = h
         /\ ~fix => v.hive = h
         /\ q \in {HCELL_NIL, h.cell[c].Parent} \/ fix => v.good
<1> DEFINE v == ParentValidated(h, q, c, fix)
           content == [h.cell[c] EXCEPT !.Parent = q]
           g == Repaired(h, c, content)
<1>1. CASE q \in {HCELL_NIL, h.cell[c].Parent} \/ ~fix
  <2>1. v.hive = h /\ (v.good <=> q \in {HCELL_NIL, h.cell[c].Parent})
    BY <1>1, Outcomes DEF ParentValidated
  <2> QED  BY <1>1, <2>1, TouchesNothing
<1>2. CASE q \notin {HCELL_NIL, h.cell[c].Parent} /\ fix
  <2>1. v.hive = g /\ v.good
    BY <1>2, Outcomes DEF ParentValidated, CmpRepairParentNode
  <2>2. h.cell[c] \in KeyNodes(t)
    BY KeyFacts
  <2>3. content \in KeyNodes(t) /\ content.Parent = q
    BY <2>2 DEF KeyNodes
  <2>4. /\ content.Name = h.cell[c].Name /\ content.Comp = h.cell[c].Comp
        /\ content.Sane = h.cell[c].Sane /\ content.Signature = h.cell[c].Signature
        /\ content.ClassLength = h.cell[c].ClassLength /\ content.Class = h.cell[c].Class
        /\ content.ValueList = h.cell[c].ValueList /\ content.ValueCount = h.cell[c].ValueCount
        /\ content.SubKeyCount = h.cell[c].SubKeyCount /\ content.SubKeyList = h.cell[c].SubKeyList
    BY <2>2 DEF KeyNodes
  <2>5. Written(h, g, c, content)
    BY RepairedWrites DEF Well
  <2> HIDE DEF g, content
  <2>6. Touches(t, h, g, c, q) /\ g.cell[c] = content
    BY <2>3, <2>4, <2>5, KeyWritten DEF SubkeysLeft
  <2> QED  BY <1>2, <2>1, <2>3, <2>6
<1> QED  BY <1>1, <1>2

LEMMA SignatureValidates ==
  ASSUME NEW t \in Trees, NEW h, Well(t, h), NEW c \in KeysOf(t), NEW fix \in BOOLEAN, NEW q
  PROVE  LET v == SignatureValidated(h, c, fix) IN
         /\ Touches(t, h, v.hive, c, q) /\ v.hive.cell[c].Parent = h.cell[c].Parent
         /\ v.good => SignaturePart(v.hive, c)
         /\ SignaturePart(h, c) \/ fix => v.good
<1> DEFINE v == SignatureValidated(h, c, fix)
           content == [h.cell[c] EXCEPT !.Signature = "kn"]
           g == Repaired(h, c, content)
<1>1. CASE h.cell[c].Signature = "kn" \/ ~fix
  <2>1. v.hive = h /\ (v.good <=> h.cell[c].Signature = "kn")
    BY <1>1, Outcomes DEF SignatureValidated
  <2> QED  BY <1>1, <2>1, TouchesNothing DEF SignaturePart
<1>2. CASE h.cell[c].Signature # "kn" /\ fix
  <2>1. v.hive = g /\ v.good
    BY <1>2, Outcomes DEF SignatureValidated, CmpRepairKeyNodeSignature
  <2>2. h.cell[c] \in KeyNodes(t)
    BY KeyFacts
  <2>3. content \in KeyNodes(t) /\ content.Signature = "kn"
    BY <2>2 DEF KeyNodes
  <2>4. /\ content.Name = h.cell[c].Name /\ content.Comp = h.cell[c].Comp
        /\ content.Sane = h.cell[c].Sane /\ content.Parent = h.cell[c].Parent
        /\ content.ClassLength = h.cell[c].ClassLength /\ content.Class = h.cell[c].Class
        /\ content.ValueList = h.cell[c].ValueList /\ content.ValueCount = h.cell[c].ValueCount
        /\ content.SubKeyCount = h.cell[c].SubKeyCount /\ content.SubKeyList = h.cell[c].SubKeyList
    BY <2>2 DEF KeyNodes
  <2>5. Written(h, g, c, content)
    BY RepairedWrites DEF Well
  <2> HIDE DEF g, content
  <2>6. Touches(t, h, g, c, q) /\ g.cell[c] = content
    BY <2>3, <2>4, <2>5, KeyWritten DEF SubkeysLeft
  <2> QED  BY <2>1, <2>3, <2>4, <2>6 DEF SignaturePart
<1> QED  BY <1>1, <1>2

LEMMA ClassValidates ==
  ASSUME NEW t \in Trees, NEW h, Well(t, h), NEW c \in KeysOf(t), NEW fix \in BOOLEAN, NEW q
  PROVE  LET v == CmpValidateClass(h, c, fix) IN
         /\ Touches(t, h, v.hive, c, q) /\ v.hive.cell[c].Parent = h.cell[c].Parent
         /\ v.good => ClassPart(v.hive, c)
         /\ ClassPart(h, c) \/ fix => v.good
<1> DEFINE v == CmpValidateClass(h, c, fix)
           fields == [h.cell[c] EXCEPT !.Class = HCELL_NIL, !.ClassLength = 0]
           length == [h.cell[c] EXCEPT !.ClassLength = 0]
           f == Repaired(h, c, fields)
           g == [h EXCEPT !.cell[c].ClassLength = 0, !.dirty = @ \cup {c}]
           Resets(content, w) ==
             content \in {fields, length} /\ Written(h, w, c, content) =>
               Touches(t, h, w, c, q) /\ w.cell[c].Parent = h.cell[c].Parent /\ ClassPart(w, c)
<1>1. h.cell[c] \in KeyNodes(t) /\ h.cell[c].ClassLength \in {0, 1}
  BY KeyFacts
<1>2. \A content \in {fields, length} :
        /\ content \in KeyNodes(t) /\ content.ClassLength = 0
        /\ content.Name = h.cell[c].Name /\ content.Comp = h.cell[c].Comp
        /\ content.Sane = h.cell[c].Sane /\ content.Parent = h.cell[c].Parent
        /\ content.Signature = h.cell[c].Signature
        /\ content.ValueList = h.cell[c].ValueList /\ content.ValueCount = h.cell[c].ValueCount
        /\ content.SubKeyCount = h.cell[c].SubKeyCount /\ content.SubKeyList = h.cell[c].SubKeyList
  BY <1>1 DEF KeyNodes
<1>3. Written(h, f, c, fields)
  BY RepairedWrites DEF Well
<1>4. Written(h, g, c, length)
  BY DEF Written, Well, IsHive
<1> HIDE DEF f, g, fields, length
<1>5. \A content, w : Resets(content, w)
  <2> SUFFICES ASSUME NEW content \in {fields, length}, NEW w, Written(h, w, c, content)
               PROVE  Touches(t, h, w, c, q) /\ w.cell[c].Parent = h.cell[c].Parent /\ ClassPart(w, c)
    OBVIOUS
  <2>1. Touches(t, h, w, c, q) /\ w.cell[c] = content
    <3>1. /\ content \in KeyNodes(t) /\ content.ClassLength = 0
          /\ content.Name = h.cell[c].Name /\ content.Comp = h.cell[c].Comp
          /\ content.Sane = h.cell[c].Sane /\ content.Parent = h.cell[c].Parent
          /\ content.Signature = h.cell[c].Signature
          /\ content.ValueList = h.cell[c].ValueList /\ content.ValueCount = h.cell[c].ValueCount
          /\ content.SubKeyCount = h.cell[c].SubKeyCount /\ content.SubKeyList = h.cell[c].SubKeyList
      BY <1>2
    <3>2. SubkeysLeft(h, c, content)
      BY <3>1 DEF SubkeysLeft
    <3> QED  BY <3>1, <3>2, KeyWritten
  <2> QED  BY <1>2, <2>1 DEF ClassPart
<1>6. CASE ClassPart(h, c) /\ h.cell[c].ClassLength > 0 /\ h.cell[c].Class = HCELL_NIL
  <2>0. HCELL_NIL \notin DOMAIN h.cell
    BY KeyFacts
  <2>a. v = Good(g)
    BY <1>1, <1>6, <2>0 DEF CmpValidateClass, HvIsCellAllocated, g
  <2>1. v.hive = g /\ v.good
    BY <2>a, Outcomes
  <2> QED  BY <1>4, <1>5, <2>1
<1>7. CASE ClassPart(h, c) /\ ~(h.cell[c].ClassLength > 0 /\ h.cell[c].Class = HCELL_NIL)
  <2>1. v.hive = h /\ v.good
    BY <1>1, <1>7, Outcomes DEF CmpValidateClass, ClassPart, HvIsCellAllocated
  <2> QED  BY <1>7, <2>1, TouchesNothing
<1>8. CASE ~ClassPart(h, c)
  <2>1. v = IF fix THEN Good(f) ELSE Bad(h)
    BY <1>1, <1>8 DEF CmpValidateClass, ClassPart, HvIsCellAllocated, f, fields
  <2>2. CASE fix
    <3>1. v.hive = f /\ v.good
      BY <2>1, <2>2, Outcomes
    <3> QED  BY <1>3, <1>5, <1>8, <3>1
  <2>3. CASE ~fix
    <3>1. v.hive = h /\ ~v.good
      BY <2>1, <2>3, Outcomes
    <3> QED  BY <1>8, <2>3, <3>1, TouchesNothing
  <2> QED  BY <2>2, <2>3
<1> QED  BY <1>6, <1>7, <1>8

LEMMA PurgeTouches ==
  ASSUME NEW t \in Trees, NEW h, Well(t, h), NEW c \in KeysOf(t), NEW q
  PROVE  LET g == CmpPurgeVolatiles(h, c) IN
         Touches(t, h, g, c, q) /\ g.cell[c].Parent = h.cell[c].Parent
<1> DEFINE g == [h EXCEPT !.cell[c].Volatiles = 0, !.dirty = @ \cup {c}]
           content == [h.cell[c] EXCEPT !.Volatiles = 0]
<1>1. CmpPurgeVolatiles(h, c) \in {h, g}
  BY DEF CmpPurgeVolatiles
<1>2. Written(h, g, c, content)
  BY DEF Written, Well, IsHive
<1>3. h.cell[c] \in KeyNodes(t)
  BY KeyFacts
<1>4. /\ content \in KeyNodes(t)
      /\ content.Name = h.cell[c].Name /\ content.Comp = h.cell[c].Comp
      /\ content.Sane = h.cell[c].Sane /\ content.Parent = h.cell[c].Parent
      /\ content.Signature = h.cell[c].Signature
      /\ content.ClassLength = h.cell[c].ClassLength /\ content.Class = h.cell[c].Class
      /\ content.ValueList = h.cell[c].ValueList /\ content.ValueCount = h.cell[c].ValueCount
      /\ content.SubKeyCount = h.cell[c].SubKeyCount /\ content.SubKeyList = h.cell[c].SubKeyList
  BY <1>3 DEF KeyNodes
<1> HIDE DEF g, content
<1>5. Touches(t, h, g, c, q) /\ g.cell[c].Parent = h.cell[c].Parent
  BY <1>2, <1>4, KeyWritten DEF SubkeysLeft
<1> QED  BY <1>1, <1>5, TouchesNothing

(***************************************************************************)
(* What is kept of a list of values: those among the first count that are  *)
(* sound, and no others.                                                   *)
(***************************************************************************)
Keeps(h, list, count, sound) ==
  sound = [n \in 0 .. count |->
            IF n = 0 THEN << >>
            ELSE IF ValueIsSound(h, list[n]) THEN Append(sound[n - 1], list[n]) ELSE sound[n - 1]]

LEMMA KeptValues ==
  ASSUME NEW h, NEW S, NEW list \in Seq(S), NEW count \in 0 .. Len(list)
  PROVE  /\ \E s : Keeps(h, list, count, s)
         /\ \A s : Keeps(h, list, count, s) =>
              s[count] \in Seq({x \in S : ValueIsSound(h, x)}) /\ Len(s[count]) <= count
<1> DEFINE Y == {x \in S : ValueIsSound(h, x)}
           X == Seq(Y)
           step == [n \in 1 .. count |->
             [x \in X |-> IF ValueIsSound(h, list[n]) THEN Append(x, list[n]) ELSE x]]
<1>1. count \in Nat /\ << >> \in X /\ \A n \in 1 .. count : list[n] \in S
  OBVIOUS
<1>2. step \in [1 .. count -> [X -> X]]
  <2>1. \A n \in 1 .. count : \A x \in X :
          (IF ValueIsSound(h, list[n]) THEN Append(x, list[n]) ELSE x) \in X
    BY <1>1
  <2> HIDE DEF X
  <2> QED  BY <2>1
<1>3. PICK f \in [0 .. count -> X] : Steps(count, << >>, step, f)
  <2> HIDE DEF step, X
  <2> QED  BY <1>1, <1>2, StepsExist
<1>4. /\ f[0] = << >>
      /\ \A n \in 1 .. count :
           f[n] = IF ValueIsSound(h, list[n]) THEN Append(f[n - 1], list[n]) ELSE f[n - 1]
  <2> HIDE DEF X
  <2>1. ASSUME NEW n \in 1 .. count
        PROVE  f[n] = IF ValueIsSound(h, list[n]) THEN Append(f[n - 1], list[n]) ELSE f[n - 1]
    <3>1. f[n - 1] \in X
      BY <1>1, <1>3
    <3>2. f[n] = step[n][f[n - 1]]
      BY <1>3 DEF Steps
    <3> QED  BY <3>1, <3>2
  <2> HIDE DEF step
  <2> QED  BY <1>3, <2>1 DEF Steps
<1> HIDE DEF step
<1>5. \E s : Keeps(h, list, count, s)
  <2>1. \A n \in 0 .. count : f[n] =
          IF n = 0 THEN << >>
          ELSE IF ValueIsSound(h, list[n]) THEN Append(f[n - 1], list[n]) ELSE f[n - 1]
    <3> SUFFICES ASSUME NEW n \in 0 .. count
                 PROVE  f[n] = IF n = 0 THEN << >>
                               ELSE IF ValueIsSound(h, list[n]) THEN Append(f[n - 1], list[n]) ELSE f[n - 1]
      OBVIOUS
    <3>1. CASE n = 0
      BY <1>4, <3>1
    <3>2. CASE n # 0
      <4>1. n \in 1 .. count
        BY <1>1, <3>2
      <4> QED  BY <1>4, <3>2, <4>1
    <3> QED  BY <3>1, <3>2
  <2>2. Keeps(h, list, count, f)
    <3> HIDE DEF X
    <3> QED  BY <1>3, <2>1 DEF Keeps
  <2> QED  BY <2>2
<1>6. ASSUME NEW sound, Keeps(h, list, count, sound)
      PROVE  sound[count] \in X /\ Len(sound[count]) <= count
  <2>1. \A n \in 0 .. count : sound[n] =
          IF n = 0 THEN << >>
          ELSE IF ValueIsSound(h, list[n]) THEN Append(sound[n - 1], list[n]) ELSE sound[n - 1]
    <3>1. sound = [n \in 0 .. count |->
            IF n = 0 THEN << >>
            ELSE IF ValueIsSound(h, list[n]) THEN Append(sound[n - 1], list[n]) ELSE sound[n - 1]]
      BY <1>6 DEF Keeps
    <3> QED  BY <3>1
  <2> DEFINE Fine == {n \in 0 .. count : sound[n] \in X /\ Len(sound[n]) <= n}
  <2>2. 0 \in Fine
    <3>1. 0 \in 0 .. count /\ sound[0] = << >>
      BY <1>1, <2>1
    <3>2. sound[0] \in X /\ Len(sound[0]) <= 0
      <4> HIDE DEF Y
      <4> QED  BY <3>1
    <3> HIDE DEF X
    <3> QED  BY <3>1, <3>2
  <2>3. ASSUME NEW n \in 1 .. count, n - 1 \in Fine PROVE n \in Fine
    <3>1. n \in 0 .. count /\ n # 0 /\ n \in Nat /\ list[n] \in S
      BY <1>1, <2>3
    <3>2. sound[n] = IF ValueIsSound(h, list[n]) THEN Append(sound[n - 1], list[n]) ELSE sound[n - 1]
      BY <2>1, <3>1
    <3>3. sound[n - 1] \in X /\ Len(sound[n - 1]) <= n - 1
      BY <2>3
    <3>4. sound[n] \in X /\ Len(sound[n]) <= n
      <4>1. CASE ValueIsSound(h, list[n])
        <5>1. list[n] \in Y
          BY <3>1, <4>1
        <5> HIDE DEF Y
        <5>2. sound[n] = Append(sound[n - 1], list[n])
          BY <3>2, <4>1
        <5>3. sound[n] \in Seq(Y) /\ Len(sound[n]) = Len(sound[n - 1]) + 1
          BY <3>3, <5>1, <5>2, AppendProperties
        <5> QED  BY <3>1, <3>3, <5>3
      <4>2. CASE ~ValueIsSound(h, list[n])
        <5> HIDE DEF Y
        <5> QED  BY <3>1, <3>2, <3>3, <4>2
      <4> QED  BY <4>1, <4>2
    <3> QED  BY <3>1, <3>4
  <2>4. count \in Fine
    <3>1. count \in 0 .. count
      BY <1>1
    <3> HIDE DEF Fine
    <3>2. \A n \in 0 .. count : n \in Fine
      BY <1>1, <2>2, <2>3, StepsKeep
    <3> QED  BY <3>1, <3>2
  <2> QED  BY <2>4
<1> QED  BY <1>5, <1>6

LEMMA ValueListValidates ==
  ASSUME NEW t \in Trees, NEW h, Well(t, h), NEW c \in KeysOf(t), NEW fix \in BOOLEAN, NEW q
  PROVE  LET v == CmpValidateValueList(h, c, fix) IN
         /\ Touches(t, h, v.hive, c, q) /\ v.hive.cell[c].Parent = h.cell[c].Parent
         /\ v.good => ValuesPart(v.hive, c)
         /\ ValuesPart(h, c) \/ fix => v.good
<1> DEFINE v == CmpValidateValueList(h, c, fix)
           key == h.cell[c]
           list == h.cell[key.ValueList].List
           count == key.ValueCount
<1>1. /\ key \in KeyNodes(t) /\ count \in Nat /\ c \notin CellsOf(t, "list") /\ c \in DOMAIN t
      /\ key.ValueList \in CellsOf(t, "list") \cup {Outside, HCELL_NIL}
      /\ DOMAIN h.cell = DOMAIN t /\ HCELL_NIL \notin DOMAIN t /\ Outside \notin DOMAIN t
  BY KeyFacts
<1>2. CASE ValuesPart(h, c)
  <2>1. v = Good(h)
    BY <1>1, <1>2 DEF CmpValidateValueList, ValuesPart, HvIsCellAllocated
  <2> QED  BY <1>2, <2>1, TouchesNothing, Outcomes
<1>3. CASE ~ValuesPart(h, c) /\ ~fix
  <2>1. v = Bad(h)
    BY <1>1, <1>3 DEF CmpValidateValueList, ValuesPart, HvIsCellAllocated
  <2> QED  BY <1>3, <2>1, TouchesNothing, Outcomes
<1>4. CASE ~ValuesPart(h, c) /\ fix /\ ~(key.ValueList \in DOMAIN t /\ count <= Len(list))
  <2> DEFINE content == [key EXCEPT !.ValueList = HCELL_NIL, !.ValueCount = 0]
             g == Repaired(h, c, content)
  <2>1. v = Good(g)
    <3>1. count > 0 /\ ~(HvIsCellAllocated(h, key.ValueList) /\ count <= Len(list))
      BY <1>1, <1>4 DEF ValuesPart, HvIsCellAllocated
    <3> QED  BY <1>1, <1>4, <3>1 DEF CmpValidateValueList, CmpRepairValueList
  <2>2. Written(h, g, c, content)
    BY RepairedWrites DEF Well
  <2>3. /\ content \in KeyNodes(t) /\ content.ValueList = HCELL_NIL /\ content.ValueCount = 0
        /\ content.Name = key.Name /\ content.Comp = key.Comp
        /\ content.Sane = key.Sane /\ content.Parent = key.Parent
        /\ content.Signature = key.Signature
        /\ content.ClassLength = key.ClassLength /\ content.Class = key.Class
        /\ content.SubKeyCount = key.SubKeyCount /\ content.SubKeyList = key.SubKeyList
    BY <1>1 DEF KeyNodes
  <2> HIDE DEF g, content
  <2>4. Touches(t, h, g, c, q) /\ g.cell[c] = content
    BY <2>2, <2>3, KeyWritten DEF SubkeysLeft
  <2>5. ValuesPart(g, c)
    BY <2>3, <2>4 DEF ValuesPart
  <2> QED  BY <2>1, <2>3, <2>4, <2>5, Outcomes
<1>5. CASE ~ValuesPart(h, c) /\ fix /\ key.ValueList \in DOMAIN t /\ count <= Len(list)
  <2> DEFINE l == key.ValueList
             g == CmpRepairValueListCount(h, c, list, count)
             S == DOMAIN t \cup {Outside}
             sound == CHOOSE s : Keeps(h, list, count, s)
             kept == sound[count]
             moved == [i \in DOMAIN list |-> IF i <= Len(kept) THEN kept[i]
                                             ELSE IF i <= count THEN list[count] ELSE list[i]]
             content == [key EXCEPT !.ValueCount = Len(kept)]
             healed == Repaired(h, c, content)
             moves == [h.cell[l] EXCEPT !.List = moved]
  <2>1. v = Good(g)
    <3>1. /\ count > 0 /\ HvIsCellAllocated(h, key.ValueList) /\ count <= Len(list)
          /\ ~\A i \in 1 .. count : ValueIsSound(h, list[i])
      BY <1>1, <1>5 DEF ValuesPart, HvIsCellAllocated
    <3> QED  BY <1>1, <1>5, <3>1 DEF CmpValidateValueList
  <2>2. g = Repaired(healed, l, moves)
    BY DEF CmpRepairValueListCount, Keeps
  <2>3. /\ l \in CellsOf(t, "list") /\ l \in DOMAIN t /\ l # c /\ t[l].Signature = "list"
        /\ h.cell[l] \in [Signature : {"list"}, List : Seq(S)]
    <3>1. l \in CellsOf(t, "list") /\ l \in DOMAIN t /\ l # c
      BY <1>1, <1>5
    <3>2. t[l].Signature = "list"
      BY <3>1 DEF CellsOf
    <3> QED  BY <3>1, <3>2, ShapeFacts DEF Well
  <2>4. list \in Seq(S) /\ count \in 0 .. Len(list)
    BY <1>1, <1>5, <2>3
  <2>5. kept \in Seq({x \in S : ValueIsSound(h, x)}) /\ Len(kept) <= count
    <3>1. sound = CHOOSE s : Keeps(h, list, count, s)
      OBVIOUS
    <3>2. /\ \E s : Keeps(h, list, count, s)
          /\ \A s : Keeps(h, list, count, s) =>
               s[count] \in Seq({x \in S : ValueIsSound(h, x)}) /\ Len(s[count]) <= count
      <4> HIDE DEF list, count, S
      <4> QED  BY <2>4, KeptValues
    <3>3. Keeps(h, list, count, sound)
      <4> HIDE DEF list, count
      <4> QED  BY <3>1, <3>2, Zenon
    <3> HIDE DEF sound
    <3> QED  BY <3>2, <3>3
  <2> HIDE DEF kept, sound
  <2>6. Len(kept) \in Nat /\ \A i \in 1 .. Len(kept) : kept[i] \in S /\ ValueIsSound(h, kept[i])
    BY <2>5
  <2>7. /\ moved \in Seq(S) /\ Len(moved) = Len(list)
        /\ \A i \in 1 .. Len(kept) : moved[i] = kept[i]
    <3> HIDE DEF list, count, S
    <3>1. Len(list) \in Nat /\ DOMAIN list = 1 .. Len(list)
      BY <2>4
    <3>2. \A i \in 1 .. Len(list) : moved[i] \in S
      <4> SUFFICES ASSUME NEW i \in 1 .. Len(list) PROVE moved[i] \in S
        OBVIOUS
      <4>1. list[i] \in S
        BY <2>4
      <4>2. i \in Nat /\ count \in Nat /\ (i <= count => list[count] \in S)
        BY <2>4, <3>1
      <4>3. i <= Len(kept) => kept[i] \in S
        BY <2>6, <4>2
      <4> QED  BY <3>1, <4>1, <4>2, <4>3
    <3>3. moved \in [1 .. Len(list) -> S]
      BY <3>1, <3>2
    <3>4. \A i \in 1 .. Len(kept) : i \in DOMAIN list
      BY <2>4, <2>5, <2>6, <3>1
    <3>5. \A i \in 1 .. Len(kept) : moved[i] = kept[i]
      BY <2>6, <3>4
    <3> HIDE DEF moved
    <3> QED  BY <3>1, <3>3, <3>5
  <2>8. /\ content \in KeyNodes(t) /\ content.ValueList = l /\ content.ValueCount = Len(kept)
        /\ content.Name = key.Name /\ content.Comp = key.Comp
        /\ content.Sane = key.Sane /\ content.Parent = key.Parent
        /\ content.Signature = key.Signature
        /\ content.ClassLength = key.ClassLength /\ content.Class = key.Class
        /\ content.SubKeyCount = key.SubKeyCount /\ content.SubKeyList = key.SubKeyList
    BY <1>1, <2>6 DEF KeyNodes
  <2>9. Written(h, healed, c, content)
    BY RepairedWrites DEF Well
  <2> HIDE DEF healed, content
  <2>10. /\ Well(t, healed) /\ healed.cell[c] = content
         /\ \A d \in DOMAIN t : d # c => healed.cell[d] = h.cell[d]
    <3>1. content \in ShapeOf(t, t[c].Signature)
      BY <2>8, KeyFacts
    <3> HIDE DEF key
    <3> QED  BY <1>1, <2>8, <2>9, <3>1, WrittenWell DEF key
  <2>11. moves \in ShapeOf(t, t[l].Signature) /\ moves.List = moved
    <3>1. moves \in [Signature : {"list"}, List : Seq(S)] /\ moves.List = moved
      <4> HIDE DEF moved, S
      <4> QED  BY <2>3, <2>7
    <3>2. ShapeOf(t, "list") = [Signature : {"list"}, List : Seq(S)]
      BY DEF ShapeOf
    <3> QED  BY <2>3, <3>1, <3>2
  <2>12. l \notin KeysOf(t)
    BY <2>3, TreeFacts
  <2> HIDE DEF moves, moved
  <2>13. Written(healed, g, l, moves)
    BY <2>2, <2>10, RepairedWrites DEF Well
  <2> HIDE DEF g
  <2>14. /\ Well(t, g) /\ g.cell[l] = moves
         /\ \A d \in DOMAIN t : d # l => g.cell[d] = healed.cell[d]
    BY <2>3, <2>10, <2>11, <2>12, <2>13, WrittenWell
  <2>15. g.cell[c] = content /\ \A d \in DOMAIN t : d \notin {c, l} => g.cell[d] = h.cell[d]
    BY <1>1, <2>3, <2>10, <2>14
  <2>16. \A x \in CellsOf(t, "vk") : g.cell[x] = h.cell[x]
    <3>1. \A x \in CellsOf(t, "vk") : x \in DOMAIN t /\ x # c /\ x # l
      BY <2>3, KeyFacts, TreeFacts
    <3> QED  BY <2>15, <3>1
  <2>17. ValuesPart(g, c)
    <3>1. \A x : ValueIsSound(g, x) <=> ValueIsSound(h, x)
      BY <2>14, <2>16, ValueKept DEF Well
    <3>2. DOMAIN g.cell = DOMAIN t
      BY <2>14 DEF Well, Shaped
    <3>3. Len(kept) <= Len(moved)
      BY <2>4, <2>5, <2>6, <2>7
    <3>4. g.cell[c].ValueList = l /\ g.cell[c].ValueCount = Len(kept) /\ g.cell[l].List = moved
      BY <2>8, <2>11, <2>14, <2>15
    <3>5. \A i \in 1 .. Len(kept) : ValueIsSound(g, moved[i])
      BY <2>6, <2>7, <3>1
    <3> HIDE DEF l, key
    <3> QED  BY <2>3, <3>2, <3>3, <3>4, <3>5 DEF ValuesPart
  <2>18. ASSUME NEW d \in KeysOf(t), ValuesPart(h, d), d # c PROVE ValuesPart(g, d)
    <3>1. d \in DOMAIN t /\ d # l
      BY <2>12, TreeFacts
    <3>2. g.cell[d] = h.cell[d]
      BY <2>15, <2>18, <3>1
    <3>3. h.cell[d].ValueList # l
      BY <2>3, <2>18 DEF Well, ListsApart
    <3>4. h.cell[d].ValueList # c
      BY <1>1, KeyFacts
    <3>5. h.cell[d].ValueList \in DOMAIN t => g.cell[h.cell[d].ValueList] = h.cell[h.cell[d].ValueList]
      BY <2>15, <3>3, <3>4
    <3> QED  BY <2>14, <2>16, <2>18, <3>2, <3>5, ValuesKept
  <2>19. SubkeysOf(g, c) = SubkeysOf(h, c) /\ (CountPart(h, c) => CountPart(g, c))
    <3>1. SameIndices(t, h, g)
      <4>1. \A i \in IndicesOf(t) : i \in DOMAIN t /\ i # c /\ i # l
        BY <2>3, KeyFacts, TreeFacts
      <4> QED  BY <2>15, <4>1 DEF SameIndices
    <3>2. SubkeysOf(g, c) = SubkeysOf(h, c)
      BY <2>8, <2>14, <2>15, <3>1, SubkeysKept DEF Well
    <3> QED  BY <2>8, <2>15, <3>2 DEF CountPart
  <2>20. Touches(t, h, g, c, q)
    <3>1. \A d \in KeysOf(t) : ValuesPart(h, d) => ValuesPart(g, d)
      BY <2>17, <2>18
    <3>2. \A d \in DOMAIN t : d # c /\ d \notin CellsOf(t, "list") => g.cell[d] = h.cell[d]
      BY <2>3, <2>15
    <3>3. DOMAIN g.cell = DOMAIN h.cell
      BY <1>1, <2>14 DEF Well, Shaped
    <3> QED  BY <2>8, <2>14, <2>15, <2>19, <3>1, <3>2, <3>3 DEF Touches, SignaturePart, ClassPart
  <2>21. g.cell[c].Parent = h.cell[c].Parent
    BY <2>8, <2>15
  <2>22. v.hive = g /\ v.good
    BY <2>1, Outcomes
  <2> HIDE DEF v
  <2> QED  BY <1>5, <2>17, <2>20, <2>21, <2>22 DEF v
<1> QED  BY <1>2, <1>3, <1>4, <1>5

LEMMA SubKeyListValidates ==
  ASSUME NEW t \in Trees, NEW h, Well(t, h), NEW c \in KeysOf(t), NEW fix \in BOOLEAN, NEW q
  PROVE  LET v == CmpValidateSubKeyList(h, c, fix) IN
         /\ Touches(t, h, v.hive, c, q) /\ v.hive.cell[c].Parent = h.cell[c].Parent
         /\ v.good => CountPart(v.hive, c)
         /\ CountPart(h, c) \/ fix => v.good
<1> DEFINE v == CmpValidateSubKeyList(h, c, fix)
           key == h.cell[c]
           entries == Entries(h, h.cell[key.SubKeyList])
           emptied == [key EXCEPT !.SubKeyList = HCELL_NIL, !.SubKeyCount = 0]
           counted == [key EXCEPT !.SubKeyCount = Len(entries)]
           e == Repaired(h, c, emptied)
           r == Repaired(h, c, counted)
<1>1. key \in KeyNodes(t) /\ key.SubKeyCount \in Nat
  BY KeyFacts
<1>2. CASE CountPart(h, c)
  <2>1. v = Good(h)
    <3>1. CASE key.SubKeyCount = 0
      BY <3>1 DEF CmpValidateSubKeyList
    <3>2. CASE key.SubKeyCount # 0
      <4>1. key.SubKeyCount > 0 /\ ~IndexIsBroken(h, key.SubKeyList) /\ key.SubKeyCount = Len(entries)
        BY <1>1, <1>2, <3>2 DEF CountPart, SubkeysOf
      <4> QED  BY <4>1 DEF CmpValidateSubKeyList, CountValidated
    <3> QED  BY <3>1, <3>2
  <2> QED  BY <1>2, <2>1, TouchesNothing, Outcomes
<1>3. CASE ~CountPart(h, c) /\ ~fix
  <2>1. v = Bad(h)
    <3>1. key.SubKeyCount > 0
      BY <1>1, <1>3 DEF CountPart, SubkeysOf
    <3>2. ~IndexIsBroken(h, key.SubKeyList) => key.SubKeyCount # Len(entries)
      BY <1>3, <3>1 DEF CountPart, SubkeysOf
    <3> QED  BY <1>3, <3>1, <3>2 DEF CmpValidateSubKeyList, CountValidated
  <2> QED  BY <1>3, <2>1, TouchesNothing, Outcomes
<1>4. CASE ~CountPart(h, c) /\ fix /\ IndexIsBroken(h, key.SubKeyList)
  <2>1. v = Good(e)
    <3>1. key.SubKeyCount > 0
      BY <1>1, <1>4 DEF CountPart, SubkeysOf
    <3>2. CmpRepairSubKeyList(h, c) = e
      BY DEF CmpRepairSubKeyList
    <3>3. key.SubKeyCount # 0
      BY <1>1, <3>1
    <3>4. v = IF fix THEN Good(CmpRepairSubKeyList(h, c)) ELSE Bad(h)
      BY <1>4, <3>1, <3>3, Zenon DEF CmpValidateSubKeyList
    <3> HIDE DEF v, e
    <3> QED  BY <1>4, <3>2, <3>4
  <2>2. Written(h, e, c, emptied)
    BY RepairedWrites DEF Well
  <2>3. /\ emptied \in KeyNodes(t) /\ emptied.SubKeyCount = 0
        /\ emptied.Name = key.Name /\ emptied.Comp = key.Comp
        /\ emptied.Sane = key.Sane /\ emptied.Parent = key.Parent
        /\ emptied.Signature = key.Signature
        /\ emptied.ClassLength = key.ClassLength /\ emptied.Class = key.Class
        /\ emptied.ValueCount = key.ValueCount /\ emptied.ValueList = key.ValueList
    BY <1>1 DEF KeyNodes
  <2> HIDE DEF e, emptied
  <2>4. Touches(t, h, e, c, q) /\ e.cell[c] = emptied
    <3>1. SubkeysOf(h, c) = << >>
      BY <1>4 DEF SubkeysOf
    <3>2. SubkeysLeft(h, c, emptied)
      BY <3>1 DEF SubkeysLeft
    <3> QED  BY <1>4, <2>2, <2>3, <3>2, KeyWritten
  <2>5. CountPart(e, c)
    BY <2>3, <2>4 DEF CountPart, SubkeysOf
  <2>6. v.hive = e /\ v.good
    BY <2>1, Outcomes
  <2> HIDE DEF v
  <2> QED  BY <1>4, <2>3, <2>4, <2>5, <2>6 DEF v
<1>5. CASE ~CountPart(h, c) /\ fix /\ ~IndexIsBroken(h, key.SubKeyList)
  <2>0. key.SubKeyCount > 0 /\ key.SubKeyCount # Len(entries) /\ Len(entries) \in Nat
    <3>1. key.SubKeyCount > 0
      BY <1>1, <1>5 DEF CountPart, SubkeysOf
    <3>2. entries \in Seq(KeyOrOutside(t))
      BY <1>5, EntriesFacts DEF Well
    <3> QED  BY <1>5, <3>1, <3>2 DEF CountPart, SubkeysOf
  <2>1. v = Good(r)
    BY <1>5, <2>0 DEF CmpValidateSubKeyList, CountValidated, CmpRepairSubKeyCounts
  <2>2. Written(h, r, c, counted)
    BY RepairedWrites DEF Well
  <2> HIDE DEF entries
  <2>3. /\ counted \in KeyNodes(t)
        /\ counted.SubKeyCount = Len(entries) /\ counted.SubKeyList = key.SubKeyList
        /\ counted.Name = key.Name /\ counted.Comp = key.Comp
        /\ counted.Sane = key.Sane /\ counted.Parent = key.Parent
        /\ counted.Signature = key.Signature
        /\ counted.ClassLength = key.ClassLength /\ counted.Class = key.Class
        /\ counted.ValueCount = key.ValueCount /\ counted.ValueList = key.ValueList
    BY <1>1, <2>0 DEF KeyNodes
  <2> HIDE DEF r, counted
  <2>4. Touches(t, h, r, c, q) /\ r.cell[c] = counted
    <3>1. SubkeysOf(h, c) # << >> => Len(entries) # 0
      <4>1. SubkeysOf(h, c) = entries
        BY <1>5, <2>0 DEF SubkeysOf, entries
      <4>2. entries \in Seq(KeyOrOutside(t))
        BY <1>5, EntriesFacts DEF Well, entries
      <4> QED  BY <4>1, <4>2
    <3>2. SubkeysLeft(h, c, counted)
      BY <2>3, <3>1 DEF SubkeysLeft
    <3> QED  BY <1>5, <2>2, <2>3, <3>2, KeyWritten
  <2>5. CountPart(r, c)
    <3>1. SameIndices(t, h, r)
      <4>1. \A i \in IndicesOf(t) : i \in DOMAIN t /\ i # c /\ i \notin CellsOf(t, "list")
        BY KeyFacts, TreeFacts
      <4> QED  BY <2>4, <4>1 DEF SameIndices, Touches
    <3>2. /\ IndexIsBroken(r, key.SubKeyList) <=> IndexIsBroken(h, key.SubKeyList)
          /\ Entries(r, r.cell[key.SubKeyList]) = entries
      <4>1. key.SubKeyList \in Indices(t) /\ Shaped(t, h.cell) /\ Shaped(t, r.cell)
        BY <2>4, KeyFacts DEF Well, Touches
      <4> QED  BY <1>5, <3>1, <4>1, IndexKept DEF entries
    <3>3. CASE Len(entries) = 0
      BY <2>3, <2>4, <3>3 DEF CountPart, SubkeysOf
    <3>4. CASE Len(entries) # 0
      BY <1>5, <2>3, <2>4, <3>2, <3>4 DEF CountPart, SubkeysOf
    <3> QED  BY <3>3, <3>4
  <2>6. v.hive = r /\ v.good
    BY <2>1, Outcomes
  <2> HIDE DEF v
  <2> QED  BY <1>5, <2>3, <2>4, <2>5, <2>6 DEF v
<1> QED  BY <1>2, <1>3, <1>4, <1>5

(***************************************************************************)
(* A key that is found good is valid, and has the parent that it was found *)
(* below; one that is valid before, below its parent, is found good.       *)
(***************************************************************************)
LEMMA KeyValidates ==
  ASSUME NEW t \in Trees, NEW h, Well(t, h), NEW c \in KeyOrOutside(t), NEW fix \in BOOLEAN,
         NEW q \in KeysOf(t) \cup {HCELL_NIL}, NEW v \in CmpValidateKey(h, q, c, fix)
  PROVE  /\ c \notin KeysOf(t) => ~v.good /\ v.hive = h
         /\ c \in KeysOf(t) => Touches(t, h, v.hive, c, q)
         /\ c \in KeysOf(t) /\ (~fix \/ q = HCELL_NIL) => v.hive.cell[c].Parent = h.cell[c].Parent
         /\ v.good => Valid(v.hive, c) /\ q \in {HCELL_NIL, v.hive.cell[c].Parent}
         /\ c \in KeysOf(t) /\ Valid(h, c) /\ q \in {HCELL_NIL, h.cell[c].Parent} => v.good
         /\ c \in KeysOf(t) /\ h.cell[c].Sane /\ fix => v.good
<1> DEFINE IsKey == HvIsCellAllocated(h, c) /\ h.cell[c].Sane
<1>0. DOMAIN h.cell = DOMAIN t /\ Outside \notin DOMAIN t /\ KeysOf(t) \subseteq DOMAIN t
  BY TreeFacts DEF Well, Shaped
<1>1. CASE ~IsKey
  <2>1. v = Bad(h)
    BY <1>1 DEF CmpValidateKey
  <2>2. c \in KeysOf(t) => ~Valid(h, c) /\ ~h.cell[c].Sane
    BY <1>0, <1>1 DEF HvIsCellAllocated, Valid
  <2> QED  BY <2>1, <2>2, TouchesNothing, Outcomes
<1>2. CASE IsKey
  <2>0. c \in KeysOf(t)
    BY <1>0, <1>2 DEF HvIsCellAllocated, KeyOrOutside
  <2> DEFINE v1 == ParentValidated(h, q, c, fix)
             v2 == IF v1.good THEN SignatureValidated(v1.hive, c, fix) ELSE v1
             v3 == IF v2.good THEN CmpValidateClass(v2.hive, c, fix) ELSE v2
             v4 == IF v3.good THEN CmpValidateValueList(v3.hive, c, fix) ELSE v3
             v5 == IF v4.good THEN CmpValidateSubKeyList(v4.hive, c, fix) ELSE v4
             v6 == IF v5.good THEN Good(CmpPurgeVolatiles(v5.hive, c)) ELSE v5
             Fine == (Valid(h, c) /\ q \in {HCELL_NIL, h.cell[c].Parent}) \/ fix
             Same(g) == g.cell[c].Parent = h.cell[c].Parent
             Is(g) == /\ Touches(t, h, g, c, q)
                      /\ ~fix \/ q = HCELL_NIL => Same(g)
             Has(g) == q \in {HCELL_NIL, g.cell[c].Parent}
  <2>1. v = v6
    <3>1. v \in {v6}
      BY <1>2 DEF CmpValidateKey, Then
    <3> QED  BY <3>1
  <2>2. /\ Is(v1.hive) /\ (Fine => v1.good) /\ (v1.good => Has(v1.hive))
    BY <2>0, ParentValidates
  <2> HIDE DEF v1
  <2>3. /\ Is(v2.hive) /\ (Fine => v2.good)
        /\ v2.good => Has(v2.hive) /\ SignaturePart(v2.hive, c)
    <3>1. CASE ~v1.good
      BY <2>2, <3>1
    <3>2. CASE v1.good
      <4> DEFINE w == SignatureValidated(v1.hive, c, fix)
      <4>0. Well(t, v1.hive)
        BY <2>2 DEF Touches
      <4>1. /\ Touches(t, v1.hive, w.hive, c, q) /\ w.hive.cell[c].Parent = v1.hive.cell[c].Parent
            /\ w.good => SignaturePart(w.hive, c)
            /\ SignaturePart(v1.hive, c) \/ fix => w.good
        BY <2>0, <4>0, SignatureValidates
      <4>2. v2 = w
        BY <3>2
      <4>3. Touches(t, h, w.hive, c, q)
        BY <2>2, <4>1, TouchesTwice
      <4>4. Fine => SignaturePart(v1.hive, c) \/ fix
        BY <2>2 DEF Touches, Valid
      <4> HIDE DEF v2, w
      <4> QED  BY <2>2, <3>2, <4>1, <4>2, <4>3, <4>4
    <3> QED  BY <3>1, <3>2
  <2> HIDE DEF v2
  <2>4. /\ Is(v3.hive) /\ (Fine => v3.good)
        /\ v3.good => Has(v3.hive) /\ SignaturePart(v3.hive, c) /\ ClassPart(v3.hive, c)
    <3>1. CASE ~v2.good
      BY <2>3, <3>1
    <3>2. CASE v2.good
      <4> DEFINE w == CmpValidateClass(v2.hive, c, fix)
      <4>0. Well(t, v2.hive)
        BY <2>3 DEF Touches
      <4>1. /\ Touches(t, v2.hive, w.hive, c, q) /\ w.hive.cell[c].Parent = v2.hive.cell[c].Parent
            /\ w.good => ClassPart(w.hive, c)
            /\ ClassPart(v2.hive, c) \/ fix => w.good
        BY <2>0, <4>0, ClassValidates
      <4>2. v3 = w
        BY <3>2
      <4>3. Touches(t, h, w.hive, c, q)
        BY <2>3, <4>1, TouchesTwice
      <4>4. Fine => ClassPart(v2.hive, c) \/ fix
        BY <2>3 DEF Touches, Valid
      <4>5. SignaturePart(w.hive, c)
        BY <2>3, <3>2, <4>1 DEF Touches
      <4> HIDE DEF v3, w
      <4> QED  BY <2>3, <3>2, <4>1, <4>2, <4>3, <4>4, <4>5
    <3> QED  BY <3>1, <3>2
  <2> HIDE DEF v3
  <2>5. /\ Is(v4.hive) /\ (Fine => v4.good)
        /\ v4.good => /\ Has(v4.hive) /\ SignaturePart(v4.hive, c) /\ ClassPart(v4.hive, c)
                      /\ ValuesPart(v4.hive, c)
    <3>1. CASE ~v3.good
      BY <2>4, <3>1
    <3>2. CASE v3.good
      <4> DEFINE w == CmpValidateValueList(v3.hive, c, fix)
      <4>0. Well(t, v3.hive)
        BY <2>4 DEF Touches
      <4>1. /\ Touches(t, v3.hive, w.hive, c, q) /\ w.hive.cell[c].Parent = v3.hive.cell[c].Parent
            /\ w.good => ValuesPart(w.hive, c)
            /\ ValuesPart(v3.hive, c) \/ fix => w.good
        BY <2>0, <4>0, ValueListValidates
      <4>2. v4 = w
        BY <3>2
      <4>3. Touches(t, h, w.hive, c, q)
        BY <2>4, <4>1, TouchesTwice
      <4>4. Fine => ValuesPart(v3.hive, c) \/ fix
        BY <2>0, <2>4 DEF Touches, Valid
      <4>5. SignaturePart(w.hive, c) /\ ClassPart(w.hive, c)
        BY <2>4, <3>2, <4>1 DEF Touches
      <4> HIDE DEF v4, w
      <4> QED  BY <2>4, <3>2, <4>1, <4>2, <4>3, <4>4, <4>5
    <3> QED  BY <3>1, <3>2
  <2> HIDE DEF v4
  <2>6. /\ Is(v5.hive) /\ (Fine => v5.good)
        /\ v5.good => /\ Has(v5.hive) /\ SignaturePart(v5.hive, c) /\ ClassPart(v5.hive, c)
                      /\ ValuesPart(v5.hive, c) /\ CountPart(v5.hive, c)
    <3>1. CASE ~v4.good
      BY <2>5, <3>1
    <3>2. CASE v4.good
      <4> DEFINE w == CmpValidateSubKeyList(v4.hive, c, fix)
      <4>0. Well(t, v4.hive)
        BY <2>5 DEF Touches
      <4>1. /\ Touches(t, v4.hive, w.hive, c, q) /\ w.hive.cell[c].Parent = v4.hive.cell[c].Parent
            /\ w.good => CountPart(w.hive, c)
            /\ CountPart(v4.hive, c) \/ fix => w.good
        BY <2>0, <4>0, SubKeyListValidates
      <4>2. v5 = w
        BY <3>2
      <4>3. Touches(t, h, w.hive, c, q)
        BY <2>5, <4>1, TouchesTwice
      <4>4. Fine => CountPart(v4.hive, c) \/ fix
        BY <2>5 DEF Touches, Valid
      <4>5. SignaturePart(w.hive, c) /\ ClassPart(w.hive, c) /\ ValuesPart(w.hive, c)
        BY <2>0, <2>5, <3>2, <4>1 DEF Touches
      <4> HIDE DEF v5, w
      <4> QED  BY <2>5, <3>2, <4>1, <4>2, <4>3, <4>4, <4>5
    <3> QED  BY <3>1, <3>2
  <2> HIDE DEF v5
  <2>7. /\ Is(v6.hive) /\ (Fine => v6.good)
        /\ v6.good => Has(v6.hive) /\ Valid(v6.hive, c)
    <3>1. CASE ~v5.good
      BY <2>6, <3>1
    <3>2. CASE v5.good
      <4> DEFINE g == CmpPurgeVolatiles(v5.hive, c)
      <4>0. Well(t, v5.hive)
        BY <2>6 DEF Touches
      <4>1. Touches(t, v5.hive, g, c, q) /\ g.cell[c].Parent = v5.hive.cell[c].Parent
        BY <2>0, <4>0, PurgeTouches
      <4>2. v6.hive = g /\ v6.good
        BY <3>2, Outcomes
      <4>3. Touches(t, h, g, c, q)
        BY <2>6, <4>1, TouchesTwice
      <4>5. SignaturePart(g, c) /\ ClassPart(g, c) /\ ValuesPart(g, c) /\ CountPart(g, c)
        BY <2>0, <2>6, <3>2, <4>1 DEF Touches
      <4>6. g.cell[c].Sane
        BY <1>2, <4>3 DEF Touches
      <4> HIDE DEF v6, g
      <4> QED  BY <2>6, <3>2, <4>1, <4>2, <4>3, <4>5, <4>6 DEF Valid
    <3> QED  BY <3>1, <3>2
  <2> HIDE DEF v6
  <2> QED  BY <2>0, <2>1, <2>7
<1> QED  BY <1>1, <1>2

-----------------------------------------------------------------------------
(* What the walk has made sure of *)

LEMMA TouchesFacts ==
  ASSUME NEW t \in Trees, NEW h, Well(t, h), NEW c \in KeysOf(t), NEW q, NEW g, Touches(t, h, g, c, q)
  PROVE  /\ \A k \in KeysOf(t) : /\ g.cell[k].Name = h.cell[k].Name /\ g.cell[k].Comp = h.cell[k].Comp
                                 /\ k # c => g.cell[k].Parent = h.cell[k].Parent
         /\ \A k \in KeysOf(t) : Valid(h, k) => Valid(g, k) /\ SubkeysOf(g, k) = SubkeysOf(h, k)
<1>1. \A k \in KeysOf(t) : k # c => g.cell[k] = h.cell[k]
  BY KeyFacts DEF Touches
<1>2. ASSUME NEW k \in KeysOf(t), Valid(h, k)
      PROVE  Valid(g, k) /\ SubkeysOf(g, k) = SubkeysOf(h, k)
  <2>1. g.cell[k].SubKeyCount = h.cell[k].SubKeyCount /\ g.cell[k].SubKeyList = h.cell[k].SubKeyList
    BY <1>1, <1>2 DEF Touches, Valid
  <2>2. SameIndices(t, h, g)
    <3>1. \A i \in IndicesOf(t) : i \in DOMAIN t /\ i # c /\ i \notin CellsOf(t, "list")
      BY KeyFacts, TreeFacts
    <3> QED  BY <3>1 DEF SameIndices, Touches
  <2>3. SubkeysOf(g, k) = SubkeysOf(h, k)
    BY <2>1, <2>2, SubkeysKept DEF Touches, Well
  <2>4. CASE k = c
    BY <1>2, <2>3, <2>4 DEF Touches, Valid
  <2>5. CASE k # c
    <3>1. DOMAIN g.cell = DOMAIN h.cell
      BY DEF Touches, Well, Shaped
    <3>2. ValuesPart(g, k)
      BY <1>2 DEF Touches, Valid
    <3> QED  BY <1>1, <1>2, <2>3, <2>5, <3>1, <3>2 DEF Valid, SignaturePart, ClassPart, CountPart
  <2> QED  BY <2>3, <2>4, <2>5
<1> QED  BY <1>1, <1>2 DEF Touches

(***************************************************************************)
(* The parent of a key c that was met below p: it is p, unless a repair    *)
(* gave it another key that has it as a subkey too.                        *)
(***************************************************************************)
ParentKept(h, fix, seen, p, c) ==
  \/ h.cell[c].Parent = p
  \/ fix /\ \E q \in seen \ {p} : c \in Range(SubkeysOf(h, q))

\* The subkey j of p is in its place.
ChildKept(t, h, fix, seen, p, j) ==
  LET s == SubkeysOf(h, p) IN
  /\ s[j] \in KeysOf(t) /\ ParentKept(h, fix, seen, p, s[j])
  /\ j > 1 => s[j - 1] \in KeysOf(t) /\ CmpValidateLexicalOrder(h, s[j], s[j - 1])

\* The walk is done with the first n subkeys of p.
ChildrenDone(t, h, fix, seen, fin, p, n) ==
  \A j \in 1 .. n : SubkeysOf(h, p)[j] \in fin /\ ChildKept(t, h, fix, seen, p, j)

\* The walk is done with the keys of fin.
KeysDone(t, h, fix, seen, fin) ==
  \A k \in fin : /\ k \in KeysOf(t) /\ Valid(h, k)
                 /\ ChildrenDone(t, h, fix, seen, fin, k, Len(SubkeysOf(h, k)))

\* A set of keys that has the root and is closed under subkeys has all keys of seen.
LeastSeen(t, h, seen) ==
  \A X \in SUBSET KeysOf(t) :
    /\ RootCell \in X
    /\ \A k \in X \cap seen : Range(SubkeysOf(h, k)) \cap KeysOf(t) \subseteq X
    => seen \subseteq X

\* A key of the stack that was validated, with so many subkeys done and validated.
FrameKept(t, h, fix, seen, fin, frame, done, validated) ==
  /\ frame.Current \in KeysOf(t) /\ Valid(h, frame.Current)
  /\ frame.ChildCellIndex <= Len(SubkeysOf(h, frame.Current))
  /\ ChildrenDone(t, h, fix, seen, fin, frame.Current, done)
  /\ frame.Sibling = IF validated = 0 THEN HCELL_NIL ELSE SubkeysOf(h, frame.Current)[validated]

\* A key of the stack is the subkey of the one before it that the walk is at.
Linked(t, h, fix, seen, ws, i, d) ==
  LET p == ws[i].Current
      j == ws[i].ChildCellIndex
  IN  /\ j >= 1 /\ ws[i + 1].Current = SubkeysOf(h, p)[j] /\ ws[i + 1].Parent = p
      /\ i < d => ChildKept(t, h, fix, seen, p, j)

Frames(t) == [ChildCellIndex : Nat, Current : KeyOrOutside(t), Parent : KeysOf(t) \cup {HCELL_NIL},
              Sibling : KeyOrOutside(t) \cup {HCELL_NIL}]

Seen(fin, ws, d) == fin \cup {ws[i].Current : i \in 1 .. d}

(***************************************************************************)
(* The walk with the stack ws, the first d keys of which are validated,    *)
(* after it is done with the keys of fin.  Of the subkeys of a key of the  *)
(* stack all are done but for the one that is on the stack itself.         *)
(***************************************************************************)
Walk(t, h, fix, ws, d, fin) ==
  /\ ws \in Seq(Frames(t)) /\ Len(ws) >= 1 /\ d \in {Len(ws), Len(ws) - 1}
  /\ Len(ws) <= CMP_REGISTRY_MAX_LEVELS_TREE_DEPTH - 1
  /\ ws[1].Current = RootCell /\ ws[1].Parent = HCELL_NIL
  /\ fin \subseteq KeysOf(t) /\ RootCell \notin fin
  /\ KeysDone(t, h, fix, Seen(fin, ws, d), fin)
  /\ \A i \in 1 .. d :
       FrameKept(t, h, fix, Seen(fin, ws, d), fin, ws[i],
                 IF i < Len(ws) THEN ws[i].ChildCellIndex - 1 ELSE ws[i].ChildCellIndex,
                 IF i = d /\ d < Len(ws) THEN ws[i].ChildCellIndex - 1 ELSE ws[i].ChildCellIndex)
  /\ d < Len(ws) => ws[Len(ws)] = Frame(ws[Len(ws)].Current, ws[Len(ws)].Parent)
  /\ \A i \in 1 .. Len(ws) - 1 : Linked(t, h, fix, Seen(fin, ws, d), ws, i, d)
  /\ LeastSeen(t, h, Seen(fin, ws, d))

LEMMA SeenFacts ==
  ASSUME NEW t \in Trees, NEW h, NEW fix, NEW ws, NEW d, NEW fin, Walk(t, h, fix, ws, d, fin)
  PROVE  /\ d \in Nat /\ Len(ws) \in Nat /\ d <= Len(ws)
         /\ \A i \in 1 .. Len(ws) : ws[i] \in Frames(t)
         /\ \A k \in Seen(fin, ws, d) : k \in KeysOf(t) /\ Valid(h, k)
<1>1. Len(ws) \in Nat /\ \A i \in 1 .. Len(ws) : ws[i] \in Frames(t)
  BY DEF Walk
<1>2. d \in Nat /\ d <= Len(ws)
  BY <1>1 DEF Walk
<1>3. \A k \in Seen(fin, ws, d) : k \in KeysOf(t) /\ Valid(h, k)
  BY DEF Walk, Seen, KeysDone, FrameKept
<1> QED  BY <1>1, <1>2, <1>3

\* The walk starts at the root key.
LEMMA WalkStarts ==
  ASSUME NEW t \in Trees, NEW h, NEW fix
  PROVE  Walk(t, h, fix, AtRoot, 0, {})
<1>1. CMP_REGISTRY_MAX_LEVELS_TREE_DEPTH \in Nat \ {0, 1}
  BY DepthAssumption
<1>2. AtRoot = << Frame(RootCell, HCELL_NIL) >> /\ Len(AtRoot) = 1
      /\ AtRoot[1] = Frame(RootCell, HCELL_NIL)
  BY DEF AtRoot
<1>3. Frame(RootCell, HCELL_NIL) \in Frames(t)
  BY TreeFacts DEF Frame, Frames, KeyOrOutside
<1>4. AtRoot \in Seq(Frames(t))
  <2>1. AtRoot = << Frame(RootCell, HCELL_NIL) >>
    BY <1>2
  <2> HIDE DEF Frames
  <2> QED  BY <1>3, <2>1
<1>5. Frame(RootCell, HCELL_NIL).Current = RootCell /\ Frame(RootCell, HCELL_NIL).Parent = HCELL_NIL
  BY DEF Frame
<1>6. Seen({}, AtRoot, 0) = {}
  BY DEF Seen
<1>7. 1 .. 0 = {} /\ 1 .. (1 - 1) = {}
  OBVIOUS
<1> QED  BY <1>1, <1>2, <1>4, <1>5, <1>6, <1>7 DEF Walk, KeysDone, LeastSeen

(***************************************************************************)
(* The validation of the key that the walk is at undoes nothing.           *)
(***************************************************************************)
LEMMA WalkTouched ==
  ASSUME NEW t \in Trees, NEW h, Well(t, h), NEW fix \in BOOLEAN, NEW ws, NEW fin,
         Walk(t, h, fix, ws, Len(ws) - 1, fin),
         NEW c \in KeysOf(t), c = ws[Len(ws)].Current, NEW q, q = ws[Len(ws)].Parent,
         NEW g, Touches(t, h, g, c, q),
         ~fix \/ q = HCELL_NIL => g.cell[c].Parent = h.cell[c].Parent
  PROVE  Walk(t, g, fix, ws, Len(ws) - 1, fin)
<1> DEFINE d == Len(ws) - 1
           seen == Seen(fin, ws, d)
<1>0. d \in Nat /\ Len(ws) \in Nat /\ \A k \in seen : k \in KeysOf(t) /\ Valid(h, k)
  BY SeenFacts
<1>1. \A k \in KeysOf(t) : /\ g.cell[k].Name = h.cell[k].Name /\ g.cell[k].Comp = h.cell[k].Comp
                           /\ k # c => g.cell[k].Parent = h.cell[k].Parent
  BY TouchesFacts
<1>2. \A k \in seen : Valid(g, k) /\ SubkeysOf(g, k) = SubkeysOf(h, k)
  BY <1>0, TouchesFacts
<1>3. q = HCELL_NIL \/ (q \in seen /\ c \in Range(SubkeysOf(h, q)))
  <2>1. CASE Len(ws) = 1
    BY <2>1 DEF Walk
  <2>2. CASE Len(ws) # 1
    <3>1. Len(ws) >= 1
      BY DEF Walk
    <3>2. d \in 1 .. d /\ d \in 1 .. Len(ws) - 1 /\ d + 1 = Len(ws) /\ d \in 1 .. Len(ws)
      <4>1. \A n \in Nat : n >= 1 /\ n # 1 =>
              n - 1 \in 1 .. n - 1 /\ n - 1 + 1 = n /\ n - 1 \in 1 .. n
        OBVIOUS
      <4> QED  BY <1>0, <2>2, <3>1, <4>1
    <3>3. Linked(t, h, fix, seen, ws, d, d)
      BY <3>2 DEF Walk
    <3>4. q = ws[d].Current /\ ws[d].ChildCellIndex >= 1 /\ c = SubkeysOf(h, q)[ws[d].ChildCellIndex]
      BY <3>2, <3>3 DEF Linked
    <3>5. ws[d].ChildCellIndex <= Len(SubkeysOf(h, q)) /\ ws[d].ChildCellIndex \in Nat
      <4>1. ws[d] \in Frames(t)
        BY <3>2, SeenFacts
      <4>2. ws[d].Current \in KeysOf(t) /\ ws[d].ChildCellIndex <= Len(SubkeysOf(h, ws[d].Current))
        BY <3>2 DEF Walk, FrameKept
      <4> QED  BY <3>4, <4>1, <4>2 DEF Frames
    <3>6. q \in seen
      BY <3>2, <3>4 DEF Seen
    <3>7. SubkeysOf(h, q) \in Seq(KeyOrOutside(t))
      BY SubkeysFacts DEF Well
    <3>8. ws[d].ChildCellIndex \in DOMAIN SubkeysOf(h, q)
      BY <3>4, <3>5, <3>7
    <3> QED  BY <3>4, <3>6, <3>8 DEF Range
  <2> QED  BY <2>1, <2>2
<1> HIDE DEF d, seen
<1>4. ASSUME NEW p, NEW k \in KeysOf(t), ParentKept(h, fix, seen, p, k)
      PROVE  ParentKept(g, fix, seen, p, k)
  <2>1. CASE fix /\ \E r \in seen \ {p} : k \in Range(SubkeysOf(h, r))
    BY <1>2, <2>1 DEF ParentKept
  <2>2. CASE h.cell[k].Parent = p /\ (k # c \/ g.cell[c].Parent = h.cell[c].Parent)
    BY <1>1, <2>2 DEF ParentKept
  <2>3. CASE h.cell[k].Parent = p /\ k = c /\ g.cell[c].Parent # h.cell[c].Parent
    <3>1. g.cell[c].Parent = q /\ fix /\ q # HCELL_NIL
      BY <2>3 DEF Touches
    <3>2. q \in seen /\ c \in Range(SubkeysOf(g, q))
      BY <1>2, <1>3, <3>1
    <3> QED  BY <2>3, <3>1, <3>2 DEF ParentKept
  <2> QED  BY <1>4, <2>1, <2>2, <2>3 DEF ParentKept
<1>5. ASSUME NEW p \in seen, NEW j, ChildKept(t, h, fix, seen, p, j)
      PROVE  ChildKept(t, g, fix, seen, p, j)
  BY <1>1, <1>2, <1>4, <1>5 DEF ChildKept, CmpValidateLexicalOrder
<1>6. ASSUME NEW p \in seen, NEW n, ChildrenDone(t, h, fix, seen, fin, p, n)
      PROVE  ChildrenDone(t, g, fix, seen, fin, p, n)
  BY <1>2, <1>5, <1>6 DEF ChildrenDone
<1>7. KeysDone(t, g, fix, seen, fin)
  <2>1. KeysDone(t, h, fix, seen, fin) /\ fin \subseteq seen
    BY DEF Walk, d, seen, Seen
  <2> QED  BY <1>2, <1>6, <2>1 DEF KeysDone
<1>8. ASSUME NEW i \in 1 .. d, NEW done, NEW validated,
             FrameKept(t, h, fix, seen, fin, ws[i], done, validated)
      PROVE  FrameKept(t, g, fix, seen, fin, ws[i], done, validated)
  <2>1. ws[i].Current \in seen
    BY DEF seen, Seen
  <2> QED  BY <1>2, <1>6, <1>8, <2>1 DEF FrameKept
<1>9. ASSUME NEW i \in 1 .. Len(ws) - 1, Linked(t, h, fix, seen, ws, i, d)
      PROVE  Linked(t, g, fix, seen, ws, i, d)
  <2>1. ws[i].Current \in seen
    BY DEF seen, Seen, d
  <2> QED  BY <1>2, <1>5, <1>9, <2>1 DEF Linked
<1>10. LeastSeen(t, g, seen)
  <2>1. LeastSeen(t, h, seen)
    BY DEF Walk, d, seen
  <2> QED  BY <1>2, <2>1 DEF LeastSeen
<1>11. /\ \A i \in 1 .. d :
            FrameKept(t, h, fix, seen, fin, ws[i],
                      IF i < Len(ws) THEN ws[i].ChildCellIndex - 1 ELSE ws[i].ChildCellIndex,
                      IF i = d /\ d < Len(ws) THEN ws[i].ChildCellIndex - 1 ELSE ws[i].ChildCellIndex)
       /\ \A i \in 1 .. Len(ws) - 1 : Linked(t, h, fix, seen, ws, i, d)
  BY DEF Walk, d, seen
<1>12. /\ \A i \in 1 .. d :
            FrameKept(t, g, fix, seen, fin, ws[i],
                      IF i < Len(ws) THEN ws[i].ChildCellIndex - 1 ELSE ws[i].ChildCellIndex,
                      IF i = d /\ d < Len(ws) THEN ws[i].ChildCellIndex - 1 ELSE ws[i].ChildCellIndex)
       /\ \A i \in 1 .. Len(ws) - 1 : Linked(t, g, fix, seen, ws, i, d)
  BY <1>8, <1>9, <1>11
<1> QED  BY <1>7, <1>10, <1>12 DEF Walk, d, seen

\* What is in place stays so as the walk sees and finishes more keys.
LEMMA MoreSeen ==
  ASSUME NEW t, NEW h, NEW fix, NEW seen, NEW more, seen \subseteq more, NEW fin, NEW fin2, fin \subseteq fin2
  PROVE  /\ \A p, j : ChildKept(t, h, fix, seen, p, j) => ChildKept(t, h, fix, more, p, j)
         /\ \A p, n : ChildrenDone(t, h, fix, seen, fin, p, n) => ChildrenDone(t, h, fix, more, fin2, p, n)
         /\ KeysDone(t, h, fix, seen, fin) => KeysDone(t, h, fix, more, fin)
<1>1. \A p, c : ParentKept(h, fix, seen, p, c) => ParentKept(h, fix, more, p, c)
  BY DEF ParentKept
<1>2. \A p, j : ChildKept(t, h, fix, seen, p, j) => ChildKept(t, h, fix, more, p, j)
  BY <1>1 DEF ChildKept
<1>3. \A f, p, n : fin \subseteq f /\ ChildrenDone(t, h, fix, seen, fin, p, n) => ChildrenDone(t, h, fix, more, f, p, n)
  BY <1>2 DEF ChildrenDone
<1> QED  BY <1>2, <1>3 DEF KeysDone

\* The subkeys of a key that is on the stack or done.
LEMMA CountIs ==
  ASSUME NEW t \in Trees, NEW h, Well(t, h), NEW k \in KeysOf(t), Valid(h, k)
  PROVE  /\ SubkeysOf(h, k) \in Seq(KeyOrOutside(t))
         /\ h.cell[k].SubKeyCount = Len(SubkeysOf(h, k)) /\ Len(SubkeysOf(h, k)) \in Nat
         /\ h.cell[k].SubKeyCount > 0 =>
              /\ ~IndexIsBroken(h, h.cell[k].SubKeyList)
              /\ SubkeysOf(h, k) = Entries(h, h.cell[h.cell[k].SubKeyList])
<1>1. SubkeysOf(h, k) \in Seq(KeyOrOutside(t))
  BY SubkeysFacts DEF Well
<1>2. h.cell[k].SubKeyCount = Len(SubkeysOf(h, k))
  BY DEF Valid, CountPart
<1>3. h.cell[k].SubKeyCount > 0 => SubkeysOf(h, k) # << >>
  BY <1>2
<1> QED  BY <1>1, <1>2, <1>3 DEF SubkeysOf

\* The key that the walk is at becomes the last validated one of its siblings.
SiblingSet(ws, c) == IF Len(ws) = 1 THEN ws ELSE [ws EXCEPT ![Len(ws) - 1].Sibling = c]

\* The key that the walk is at was found good and in order.
LEMMA WalkValidated ==
  ASSUME NEW t \in Trees, NEW h, Well(t, h), NEW fix, NEW ws, NEW fin,
         Walk(t, h, fix, ws, Len(ws) - 1, fin),
         NEW c \in KeysOf(t), c = ws[Len(ws)].Current, Valid(h, c),
         ws[Len(ws)].Parent \in {HCELL_NIL, h.cell[c].Parent},
         \/ Len(ws) = 1
         \/ ws[Len(ws) - 1].Sibling = HCELL_NIL
         \/ CmpValidateLexicalOrder(h, c, ws[Len(ws) - 1].Sibling),
         NEW ws2, ws2 = SiblingSet(ws, c)
  PROVE  Len(ws2) = Len(ws) /\ Walk(t, h, fix, ws2, Len(ws2), fin)
<1> DEFINE N == Len(ws)
           d == N - 1
           seen == Seen(fin, ws, d)
           more == Seen(fin, ws2, N)
<1>0. d \in Nat /\ N \in Nat \ {0} /\ ws \in Seq(Frames(t)) /\ DOMAIN ws = 1 .. N
      /\ \A i \in 1 .. N : ws[i] \in Frames(t)
  BY SeenFacts DEF Walk
<1>a. d \in 0 .. N /\ d < N /\ N \in 1 .. N /\ (N # 1 => d \in 1 .. d /\ d \in 1 .. N /\ d + 1 = N)
  BY <1>0
<1>b. N \in Nat \ {0} /\ d \in Nat /\ d = N - 1
  BY <1>0
<1>1. /\ ws2 \in Seq(Frames(t)) /\ Len(ws2) = N
      /\ \A i \in 1 .. N : /\ ws2[i].Current = ws[i].Current /\ ws2[i].Parent = ws[i].Parent
                           /\ ws2[i].ChildCellIndex = ws[i].ChildCellIndex
                           /\ ws2[i].Sibling = IF i = d THEN c ELSE ws[i].Sibling
  <2>1. CASE N = 1
    BY <1>0, <2>1 DEF SiblingSet
  <2>2. CASE N # 1
    <3>1. d \in 1 .. N /\ ws[d] \in Frames(t)
      BY <1>0, <1>a, <2>2
    <3> DEFINE f == [ws[d] EXCEPT !.Sibling = c]
    <3>2. /\ f \in Frames(t) /\ f.Current = ws[d].Current /\ f.Parent = ws[d].Parent
          /\ f.ChildCellIndex = ws[d].ChildCellIndex /\ f.Sibling = c
      BY <3>1 DEF Frames, KeyOrOutside
    <3>3. ws2 = [ws EXCEPT ![d] = f]
      BY <1>0, <3>1, <2>2 DEF SiblingSet
    <3> HIDE DEF f, d, N
    <3>4. ws2 \in Seq(Frames(t)) /\ Len(ws2) = N /\ DOMAIN ws2 = DOMAIN ws
      <4>1. ws2 \in Seq(Frames(t))
        BY <1>0, <3>1, <3>2, <3>3
      <4> QED  BY <1>0, <3>3, <4>1 DEF N
    <3>5. \A i \in 1 .. N : ws2[i] = IF i = d THEN f ELSE ws[i]
      BY <1>0, <3>1, <3>3
    <3>6. \A i \in 1 .. N : /\ ws2[i].Current = ws[i].Current /\ ws2[i].Parent = ws[i].Parent
                           /\ ws2[i].ChildCellIndex = ws[i].ChildCellIndex
                           /\ ws2[i].Sibling = IF i = d THEN c ELSE ws[i].Sibling
      <4> SUFFICES ASSUME NEW i \in 1 .. N
                   PROVE  /\ ws2[i].Current = ws[i].Current /\ ws2[i].Parent = ws[i].Parent
                          /\ ws2[i].ChildCellIndex = ws[i].ChildCellIndex
                          /\ ws2[i].Sibling = IF i = d THEN c ELSE ws[i].Sibling
        OBVIOUS
      <4>1. CASE i = d
        BY <3>2, <3>5, <4>1
      <4>2. CASE i # d
        BY <3>5, <4>2
      <4> QED  BY <4>1, <4>2
    <3> QED  BY <3>4, <3>6
  <2> QED  BY <2>1, <2>2
<1>2. more = seen \cup {c}
  <2>1. {ws2[i].Current : i \in 1 .. N} = {ws[i].Current : i \in 1 .. N}
    BY <1>1
  <2>2. 1 .. N = (1 .. d) \cup {N}
    BY <1>0
  <2>3. {ws[i].Current : i \in 1 .. N} = {ws[i].Current : i \in 1 .. d} \cup {c}
    BY <2>2
  <2> HIDE DEF N, d
  <2> QED  BY <2>1, <2>3 DEF Seen
<1>3. seen \subseteq more /\ fin \subseteq fin
  BY <1>2
<1>4. /\ \A p, j : ChildKept(t, h, fix, seen, p, j) => ChildKept(t, h, fix, more, p, j)
      /\ \A p, n : ChildrenDone(t, h, fix, seen, fin, p, n) => ChildrenDone(t, h, fix, more, fin, p, n)
      /\ KeysDone(t, h, fix, seen, fin) => KeysDone(t, h, fix, more, fin)
  <2> HIDE DEF seen, more
  <2> QED  BY <1>3, MoreSeen
<1>5. /\ KeysDone(t, h, fix, seen, fin)
      /\ \A i \in 1 .. d : FrameKept(t, h, fix, seen, fin, ws[i], ws[i].ChildCellIndex - 1,
                             IF i = d THEN ws[i].ChildCellIndex - 1 ELSE ws[i].ChildCellIndex)
      /\ \A i \in 1 .. d : Linked(t, h, fix, seen, ws, i, d)
      /\ LeastSeen(t, h, seen)
      /\ ws[N].ChildCellIndex = 0 /\ ws[N].Sibling = HCELL_NIL
      /\ N <= CMP_REGISTRY_MAX_LEVELS_TREE_DEPTH - 1
      /\ ws[1].Current = RootCell /\ ws[1].Parent = HCELL_NIL
      /\ fin \subseteq KeysOf(t) /\ RootCell \notin fin
  <2>1. \A i \in 1 .. d : i < N
    BY <1>0
  <2>2. d < N
    BY <1>a
  <2> QED  BY <2>1, <2>2 DEF Walk, Frame
\* The key is the next subkey of the one before it.
<1>6. ASSUME N # 1
      PROVE  /\ ws[d].Current \in seen /\ c = SubkeysOf(h, ws[d].Current)[ws[d].ChildCellIndex]
             /\ ws[d].ChildCellIndex \in 1 .. Len(SubkeysOf(h, ws[d].Current))
             /\ c \in Range(SubkeysOf(h, ws[d].Current))
             /\ ws[N].Parent = ws[d].Current
             /\ FrameKept(t, h, fix, seen, fin, ws[d], ws[d].ChildCellIndex - 1, ws[d].ChildCellIndex - 1)
  <2>1. d \in 1 .. d /\ d \in 1 .. N /\ d + 1 = N
    BY <1>a, <1>6
  <2>2. FrameKept(t, h, fix, seen, fin, ws[d], ws[d].ChildCellIndex - 1, ws[d].ChildCellIndex - 1)
    BY <1>5, <2>1
  <2>3. Linked(t, h, fix, seen, ws, d, d)
    BY <1>5, <2>1
  <2>4. ws[d] \in Frames(t)
    BY <1>0, <2>1
  <2>5. ws[d].ChildCellIndex \in Nat
    BY <2>4 DEF Frames
  <2>6. /\ ws[d].ChildCellIndex \in 1 .. Len(SubkeysOf(h, ws[d].Current))
        /\ c = SubkeysOf(h, ws[d].Current)[ws[d].ChildCellIndex] /\ ws[N].Parent = ws[d].Current
    <3>1. SubkeysOf(h, ws[d].Current) \in Seq(KeyOrOutside(t))
      BY SubkeysFacts DEF Well
    <3>2. /\ ws[d].ChildCellIndex <= Len(SubkeysOf(h, ws[d].Current)) /\ ws[d].ChildCellIndex >= 1
      BY <2>2, <2>3 DEF FrameKept, Linked
    <3>3. c = SubkeysOf(h, ws[d].Current)[ws[d].ChildCellIndex] /\ ws[N].Parent = ws[d].Current
      BY <2>1, <2>3 DEF Linked
    <3> QED  BY <2>5, <3>1, <3>2, <3>3
  <2>7. c \in Range(SubkeysOf(h, ws[d].Current))
    <3>1. SubkeysOf(h, ws[d].Current) \in Seq(KeyOrOutside(t))
      BY SubkeysFacts DEF Well
    <3> QED  BY <2>6, <3>1 DEF Range
  <2>8. ws[d].Current \in seen
    BY <2>1 DEF Seen
  <2> HIDE DEF seen, d, N
  <2> QED  BY <2>2, <2>6, <2>7, <2>8
<1>7. N # 1 => ChildKept(t, h, fix, more, ws[d].Current, ws[d].ChildCellIndex)
  <2> SUFFICES ASSUME N # 1 PROVE ChildKept(t, h, fix, more, ws[d].Current, ws[d].ChildCellIndex)
    OBVIOUS
  <2> DEFINE p == ws[d].Current
             j == ws[d].ChildCellIndex
             s == SubkeysOf(h, p)
  <2>1. /\ s[j] = c /\ j \in 1 .. Len(s) /\ ws[N].Parent = p
        /\ FrameKept(t, h, fix, seen, fin, ws[d], j - 1, j - 1)
    BY <1>6
  <2>2. ParentKept(h, fix, more, p, c)
    <3>1. p # HCELL_NIL
      <4>1. p \in KeysOf(t)
        BY <2>1 DEF FrameKept
      <4> QED  BY <4>1, TreeFacts
    <3> QED  BY <2>1, <3>1 DEF ParentKept
  <2>3. j > 1 => s[j - 1] \in KeysOf(t) /\ CmpValidateLexicalOrder(h, c, s[j - 1])
    <3> SUFFICES ASSUME j > 1 PROVE s[j - 1] \in KeysOf(t) /\ CmpValidateLexicalOrder(h, c, s[j - 1])
      OBVIOUS
    <3>1. j - 1 \in 1 .. j - 1 /\ j - 1 # 0
      BY <2>1
    <3>2. s[j - 1] \in KeysOf(t)
      <4>1. ChildrenDone(t, h, fix, seen, fin, p, j - 1)
        BY <2>1 DEF FrameKept
      <4> HIDE DEF s, j, p, seen, d
      <4> QED  BY <3>1, <4>1 DEF ChildrenDone, ChildKept, s
    <3>3. ws[d].Sibling = s[j - 1]
      BY <2>1, <3>1 DEF FrameKept
    <3>4. s[j - 1] # HCELL_NIL
      BY <3>2, TreeFacts
    <3> QED  BY <3>2, <3>3, <3>4
  <2> HIDE DEF p, j, s
  <2>4. ChildKept(t, h, fix, more, p, j)
    BY <2>1, <2>2, <2>3 DEF ChildKept, s
  <2> QED  BY <2>4 DEF p, j
<1>8. \A i \in 1 .. N : FrameKept(t, h, fix, more, fin, ws2[i],
         IF i < N THEN ws2[i].ChildCellIndex - 1 ELSE ws2[i].ChildCellIndex, ws2[i].ChildCellIndex)
  <2> SUFFICES ASSUME NEW i \in 1 .. N
               PROVE  FrameKept(t, h, fix, more, fin, ws2[i],
                        IF i < N THEN ws2[i].ChildCellIndex - 1 ELSE ws2[i].ChildCellIndex,
                        ws2[i].ChildCellIndex)
    OBVIOUS
  <2>1. CASE i = N
    <3>1. ws2[i].Current = c /\ ws2[i].ChildCellIndex = 0 /\ ws2[i].Sibling = HCELL_NIL
      <4>1. N # d /\ N \in 1 .. N
        <5> HIDE DEF N, d
        <5> QED  BY <1>b
      <4>2. ws2[N].Current = ws[N].Current /\ ws2[N].ChildCellIndex = ws[N].ChildCellIndex
            /\ ws2[N].Sibling = ws[N].Sibling
        BY <1>1, <4>1
      <4> HIDE DEF N, d
      <4> QED  BY <1>5, <2>1, <4>2 DEF N
    <3>2. Len(SubkeysOf(h, c)) \in Nat
      BY CountIs
    <3>3. ChildrenDone(t, h, fix, more, fin, c, 0)
      BY DEF ChildrenDone
    <3>4. ~(i < N)
      BY <1>0, <2>1
    <3> QED  BY <3>1, <3>2, <3>3, <3>4 DEF FrameKept
  <2>2. CASE i = d
    <3>1. N # 1 /\ i < N /\ i \in 1 .. d
      BY <1>0, <2>2
    <3>2. FrameKept(t, h, fix, seen, fin, ws[d], ws[d].ChildCellIndex - 1, ws[d].ChildCellIndex - 1)
      BY <1>6, <3>1
    <3>3. /\ ws2[i].Current = ws[d].Current /\ ws2[i].ChildCellIndex = ws[d].ChildCellIndex
          /\ ws2[i].Sibling = c
      BY <1>1, <2>2
    <3>4. c = SubkeysOf(h, ws[d].Current)[ws[d].ChildCellIndex] /\ ws[d].ChildCellIndex # 0
      BY <1>6, <3>1
    <3> HIDE DEF d, N, seen, more
    <3> QED  BY <1>4, <3>1, <3>2, <3>3, <3>4 DEF FrameKept
  <2>3. CASE i # N /\ i # d
    <3>1. i \in 1 .. d /\ i < N
      <4> HIDE DEF N, d
      <4> QED  BY <1>b, <2>3
    <3>2. FrameKept(t, h, fix, seen, fin, ws[i], ws[i].ChildCellIndex - 1, ws[i].ChildCellIndex)
      BY <1>5, <2>3, <3>1
    <3>3. /\ ws2[i].Current = ws[i].Current /\ ws2[i].ChildCellIndex = ws[i].ChildCellIndex
          /\ ws2[i].Sibling = ws[i].Sibling
      BY <1>1, <2>3
    <3> HIDE DEF d, N, seen, more
    <3> QED  BY <1>4, <3>1, <3>2, <3>3 DEF FrameKept
  <2> QED  BY <2>1, <2>2, <2>3
<1>9. \A i \in 1 .. N - 1 : Linked(t, h, fix, more, ws2, i, N)
  <2> SUFFICES ASSUME NEW i \in 1 .. d PROVE Linked(t, h, fix, more, ws2, i, N)
    OBVIOUS
  <2>1. i \in 1 .. N /\ i + 1 \in 1 .. N /\ N # 1 /\ i \in Nat
    BY <1>0
  <2>2. Linked(t, h, fix, seen, ws, i, d)
    BY <1>5
  <2>3. ChildKept(t, h, fix, more, ws[i].Current, ws[i].ChildCellIndex)
    <3>1. CASE i = d
      BY <1>7, <2>1, <3>1
    <3>2. CASE i # d
      <4>1. i < d
        <5> HIDE DEF N, d
        <5> QED  BY <1>b, <3>2
      <4> QED  BY <1>4, <2>2, <4>1 DEF Linked
    <3> QED  BY <3>1, <3>2
  <2> HIDE DEF d, N, seen, more
  <2> QED  BY <1>1, <2>1, <2>2, <2>3 DEF Linked
<1>10. LeastSeen(t, h, more)
  <2> SUFFICES ASSUME NEW X \in SUBSET KeysOf(t), RootCell \in X,
                      \A k \in X \cap more : Range(SubkeysOf(h, k)) \cap KeysOf(t) \subseteq X
               PROVE  more \subseteq X
    BY DEF LeastSeen
  <2>1. seen \subseteq X
    BY <1>3, <1>5 DEF LeastSeen
  <2>2. c \in X
    <3>1. CASE N = 1
      BY <1>5, <3>1
    <3>2. CASE N # 1
      BY <1>3, <1>6, <2>1, <3>2
    <3> QED  BY <3>1, <3>2
  <2> QED  BY <1>2, <2>1, <2>2
<1>11. ws2[1].Current = RootCell /\ ws2[1].Parent = HCELL_NIL
  <2>1. 1 \in 1 .. N
    <3> HIDE DEF N, d
    <3> QED  BY <1>b
  <2>2. ws2[1].Current = ws[1].Current /\ ws2[1].Parent = ws[1].Parent
    BY <1>1, <2>1
  <2> QED  BY <1>5, <2>2
<1>12. ~(N < N) /\ N >= 1
  BY <1>0
<1> HIDE DEF N, d, seen
<1>13. \A i \in 1 .. N : FrameKept(t, h, fix, more, fin, ws2[i],
         IF i < Len(ws2) THEN ws2[i].ChildCellIndex - 1 ELSE ws2[i].ChildCellIndex,
         IF i = N /\ N < Len(ws2) THEN ws2[i].ChildCellIndex - 1 ELSE ws2[i].ChildCellIndex)
  <2> SUFFICES ASSUME NEW i \in 1 .. N
               PROVE  FrameKept(t, h, fix, more, fin, ws2[i],
                        IF i < Len(ws2) THEN ws2[i].ChildCellIndex - 1 ELSE ws2[i].ChildCellIndex,
                        IF i = N /\ N < Len(ws2) THEN ws2[i].ChildCellIndex - 1
                        ELSE ws2[i].ChildCellIndex)
    OBVIOUS
  <2>1. ~(i = N /\ N < Len(ws2)) /\ Len(ws2) = N
    BY <1>1, <1>12
  <2> HIDE DEF more
  <2> QED  BY <1>8, <2>1
<1> HIDE DEF more
<1>14. \A i \in 1 .. Len(ws2) - 1 : Linked(t, h, fix, more, ws2, i, N)
  BY <1>1, <1>9
<1>15. Walk(t, h, fix, ws2, N, fin)
  BY <1>1, <1>4, <1>5, <1>10, <1>11, <1>12, <1>13, <1>14 DEF Walk, more
<1> QED  BY <1>1, <1>15 DEF N

\* The walk goes on to the next subkey of the key that it is at.
LEMMA WalkDescends ==
  ASSUME NEW t \in Trees, NEW h, Well(t, h), NEW fix, NEW ws, NEW fin, NEW N \in Nat, N = Len(ws),
         Walk(t, h, fix, ws, N, fin),
         ws[N].ChildCellIndex < h.cell[ws[N].Current].SubKeyCount,
         N + 1 <= CMP_REGISTRY_MAX_LEVELS_TREE_DEPTH - 1,
         NEW ws2 \in Seq(Frames(t)), Len(ws2) = N + 1,
         \A i \in 1 .. N : /\ ws2[i].Current = ws[i].Current /\ ws2[i].Parent = ws[i].Parent
                           /\ ws2[i].Sibling = ws[i].Sibling
                           /\ i # N => ws2[i].ChildCellIndex = ws[i].ChildCellIndex,
         ws2[N].ChildCellIndex = ws[N].ChildCellIndex + 1,
         ws2[N + 1] = Frame(CmpFindSubKeyByNumber(h, ws[N].Current, ws[N].ChildCellIndex), ws[N].Current)
  PROVE  Walk(t, h, fix, ws2, N, fin)
<1> DEFINE seen == Seen(fin, ws, N)
           p == ws[N].Current
           j == ws[N].ChildCellIndex
           s == SubkeysOf(h, p)
<1>1. /\ KeysDone(t, h, fix, seen, fin)
      /\ \A i \in 1 .. N : FrameKept(t, h, fix, seen, fin, ws[i],
                             IF i < N THEN ws[i].ChildCellIndex - 1 ELSE ws[i].ChildCellIndex,
                             IF i = N /\ N < N THEN ws[i].ChildCellIndex - 1 ELSE ws[i].ChildCellIndex)
      /\ \A i \in 1 .. N - 1 : Linked(t, h, fix, seen, ws, i, N)
      /\ LeastSeen(t, h, seen)
      /\ ws[1].Current = RootCell /\ ws[1].Parent = HCELL_NIL /\ N >= 1
      /\ fin \subseteq KeysOf(t) /\ RootCell \notin fin
  BY DEF Walk
<1>2. \A i \in 1 .. N : ws[i] \in Frames(t)
  BY SeenFacts
<1>3. N \in 1 .. N /\ 1 \in 1 .. N
  BY <1>1
<1>4. Seen(fin, ws2, N) = seen
  <2>1. {ws2[i].Current : i \in 1 .. N} = {ws[i].Current : i \in 1 .. N}
    OBVIOUS
  <2> QED  BY <2>1 DEF Seen
<1>5. /\ p \in KeysOf(t) /\ Valid(h, p) /\ j \in Nat
      /\ ChildrenDone(t, h, fix, seen, fin, p, j)
      /\ ws[N].Sibling = IF j = 0 THEN HCELL_NIL ELSE s[j]
  <2>1. FrameKept(t, h, fix, seen, fin, ws[N], j, j)
    <3>1. ~(N < N)
      OBVIOUS
    <3> QED  BY <1>1, <1>3, <3>1
  <2>2. j \in Nat
    <3>1. ws[N] \in Frames(t)
      BY <1>2, <1>3
    <3> QED  BY <3>1 DEF Frames
  <2> QED  BY <2>1, <2>2 DEF FrameKept
<1>6. s \in Seq(KeyOrOutside(t)) /\ j < Len(s) /\ Len(s) \in Nat
      /\ ws2[N + 1] = Frame(s[j + 1], p)
  <2>1. j < Len(s) /\ Len(s) \in Nat /\ s \in Seq(KeyOrOutside(t))
    BY <1>5, CountIs
  <2>2. s = Entries(h, h.cell[h.cell[p].SubKeyList])
    <3>1. h.cell[p].SubKeyCount > 0
      BY <1>5, <2>1, CountIs
    <3> QED  BY <1>5, <3>1, CountIs
  <2> HIDE DEF s
  <2>3. CmpFindSubKeyByNumber(h, p, j) = s[j + 1]
    BY <2>2 DEF CmpFindSubKeyByNumber
  <2> QED  BY <2>1, <2>3
<1>7. \A i \in 1 .. N : FrameKept(t, h, fix, seen, fin, ws2[i], ws2[i].ChildCellIndex - 1,
         IF i = N THEN ws2[i].ChildCellIndex - 1 ELSE ws2[i].ChildCellIndex)
  <2> SUFFICES ASSUME NEW i \in 1 .. N
               PROVE  FrameKept(t, h, fix, seen, fin, ws2[i], ws2[i].ChildCellIndex - 1,
                        IF i = N THEN ws2[i].ChildCellIndex - 1 ELSE ws2[i].ChildCellIndex)
    OBVIOUS
  <2>1. CASE i = N
    <3>1. /\ ws2[i].Current = p /\ ws2[i].ChildCellIndex = j + 1 /\ ws2[i].Sibling = ws[N].Sibling
          /\ j + 1 - 1 = j /\ j + 1 <= Len(s)
      BY <1>3, <1>5, <1>6, <2>1
    <3> HIDE DEF seen, p, j, s
    <3> QED  BY <1>5, <2>1, <3>1 DEF FrameKept, s
  <2>2. CASE i # N
    <3>1. i < N
      BY <2>2
    <3>2. FrameKept(t, h, fix, seen, fin, ws[i], ws[i].ChildCellIndex - 1, ws[i].ChildCellIndex)
      BY <1>1, <2>2, <3>1
    <3>3. /\ ws2[i].Current = ws[i].Current /\ ws2[i].ChildCellIndex = ws[i].ChildCellIndex
          /\ ws2[i].Sibling = ws[i].Sibling
      BY <2>2
    <3> HIDE DEF seen
    <3> QED  BY <2>2, <3>2, <3>3 DEF FrameKept
  <2> QED  BY <2>1, <2>2
<1>8. \A i \in 1 .. N : Linked(t, h, fix, seen, ws2, i, N)
  <2> SUFFICES ASSUME NEW i \in 1 .. N PROVE Linked(t, h, fix, seen, ws2, i, N)
    OBVIOUS
  <2>1. CASE i = N
    <3>1. /\ ws2[i].Current = p /\ ws2[i].ChildCellIndex = j + 1
          /\ ws2[i + 1].Current = s[j + 1] /\ ws2[i + 1].Parent = p
      BY <1>3, <1>6, <2>1 DEF Frame
    <3>2. j + 1 >= 1 /\ ~(i < N)
      BY <1>5, <2>1
    <3> HIDE DEF seen, p, j
    <3> QED  BY <3>1, <3>2 DEF Linked
  <2>2. CASE i # N
    <3>1. i \in 1 .. N - 1 /\ i + 1 \in 1 .. N
      BY <2>2
    <3>2. Linked(t, h, fix, seen, ws, i, N)
      BY <1>1, <3>1
    <3>3. /\ ws2[i].Current = ws[i].Current /\ ws2[i].ChildCellIndex = ws[i].ChildCellIndex
          /\ ws2[i + 1].Current = ws[i + 1].Current /\ ws2[i + 1].Parent = ws[i + 1].Parent
      BY <2>2, <3>1
    <3> HIDE DEF seen
    <3> QED  BY <3>2, <3>3 DEF Linked
  <2> QED  BY <2>1, <2>2
<1>9. ws2[1].Current = RootCell /\ ws2[1].Parent = HCELL_NIL
  BY <1>1, <1>3
<1>10. /\ N < Len(ws2) /\ N = Len(ws2) - 1 /\ Len(ws2) >= 1
       /\ ws2[Len(ws2)] = Frame(ws2[Len(ws2)].Current, ws2[Len(ws2)].Parent)
  BY <1>6 DEF Frame
<1>11. \A i \in 1 .. N : FrameKept(t, h, fix, seen, fin, ws2[i],
          IF i < Len(ws2) THEN ws2[i].ChildCellIndex - 1 ELSE ws2[i].ChildCellIndex,
          IF i = N /\ N < Len(ws2) THEN ws2[i].ChildCellIndex - 1 ELSE ws2[i].ChildCellIndex)
  <2> SUFFICES ASSUME NEW i \in 1 .. N
               PROVE  FrameKept(t, h, fix, seen, fin, ws2[i],
                        IF i < Len(ws2) THEN ws2[i].ChildCellIndex - 1 ELSE ws2[i].ChildCellIndex,
                        IF i = N /\ N < Len(ws2) THEN ws2[i].ChildCellIndex - 1
                        ELSE ws2[i].ChildCellIndex)
    OBVIOUS
  <2>1. i < Len(ws2) /\ N < Len(ws2)
    OBVIOUS
  <2> HIDE DEF seen
  <2> QED  BY <1>7, <2>1
<1>12. \A i \in 1 .. Len(ws2) - 1 : Linked(t, h, fix, seen, ws2, i, N)
  BY <1>8
<1> HIDE DEF seen, p, j, s
<1> QED  BY <1>1, <1>4, <1>9, <1>10, <1>11, <1>12 DEF Walk

(***************************************************************************)
(* The root key is not met again: the keys from the root key on along the  *)
(* stack would all be done by the time it is done.                         *)
(***************************************************************************)
LEMMA RootIsFirst ==
  ASSUME NEW t \in Trees, NEW h, Well(t, h), NEW fix, NEW ws, NEW fin, NEW N \in Nat, N = Len(ws),
         Walk(t, h, fix, ws, N, fin), N > 1, Range(SubkeysOf(h, ws[N].Current)) \subseteq fin
  PROVE  ws[N].Current # RootCell
<1> SUFFICES ASSUME ws[N].Current = RootCell PROVE FALSE
  OBVIOUS
<1>1. \A k \in fin : Range(SubkeysOf(h, k)) \subseteq fin
  <2> SUFFICES ASSUME NEW k \in fin, NEW x \in Range(SubkeysOf(h, k)) PROVE x \in fin
    OBVIOUS
  <2>1. k \in KeysOf(t) /\ ChildrenDone(t, h, fix, Seen(fin, ws, N), fin, k, Len(SubkeysOf(h, k)))
    BY DEF Walk, KeysDone
  <2>2. SubkeysOf(h, k) \in Seq(KeyOrOutside(t))
    BY SubkeysFacts DEF Well
  <2>3. PICK j \in 1 .. Len(SubkeysOf(h, k)) : x = SubkeysOf(h, k)[j]
    BY <2>2 DEF Range
  <2> QED  BY <2>1, <2>3 DEF ChildrenDone
<1>2. ASSUME NEW i \in 1 .. N - 1
      PROVE  ws[i + 1].Current \in Range(SubkeysOf(h, ws[i].Current))
  <2>1. Linked(t, h, fix, Seen(fin, ws, N), ws, i, N) /\ i \in 1 .. N
    BY DEF Walk
  <2>2. ws[i].Current \in KeysOf(t) /\ ws[i].ChildCellIndex <= Len(SubkeysOf(h, ws[i].Current))
    BY <2>1 DEF Walk, FrameKept
  <2>3. ws[i].ChildCellIndex \in Nat
    <3>1. ws[i] \in Frames(t)
      BY <2>1, SeenFacts
    <3> QED  BY <3>1 DEF Frames
  <2>4. SubkeysOf(h, ws[i].Current) \in Seq(KeyOrOutside(t))
    BY SubkeysFacts DEF Well
  <2>5. ws[i].ChildCellIndex \in DOMAIN SubkeysOf(h, ws[i].Current)
    BY <2>1, <2>2, <2>3, <2>4 DEF Linked
  <2> QED  BY <2>1, <2>5 DEF Linked, Range
<1> DEFINE Behind == {n \in 0 .. N - 2 : ws[n + 2].Current \in fin}
<1>3. 0 \in Behind
  <2>1. 1 \in 1 .. N - 1 /\ 1 + 1 = 2 /\ 0 \in 0 .. N - 2 /\ 0 + 2 = 2
    OBVIOUS
  <2>2. ws[1].Current = RootCell
    BY DEF Walk
  <2>3. ws[1 + 1].Current \in Range(SubkeysOf(h, ws[1].Current))
    BY <1>2, <2>1
  <2> QED  BY <2>1, <2>2, <2>3
<1>4. ASSUME NEW n \in 1 .. N - 2, n - 1 \in Behind PROVE n \in Behind
  <2>1. n + 1 \in 1 .. N - 1 /\ n + 1 + 1 = n + 2 /\ n - 1 + 2 = n + 1 /\ n \in 0 .. N - 2
    OBVIOUS
  <2>2. ws[n + 1].Current \in fin
    BY <1>4, <2>1
  <2>3. ws[n + 1 + 1].Current \in Range(SubkeysOf(h, ws[n + 1].Current))
    BY <1>2, <2>1
  <2> QED  BY <1>1, <2>1, <2>2, <2>3
<1>5. N - 2 \in Behind
  <2>1. N - 2 \in Nat /\ N - 2 \in 0 .. N - 2
    OBVIOUS
  <2> HIDE DEF Behind
  <2>2. \A n \in 0 .. N - 2 : n \in Behind
    BY <1>3, <1>4, <2>1, StepsKeep
  <2> QED  BY <2>1, <2>2
<1>6. N - 2 + 2 = N
  OBVIOUS
<1>7. RootCell \in fin
  BY <1>5, <1>6
<1> QED  BY <1>7 DEF Walk

\* All subkeys of the key that the walk is at are done.
LEMMA LastSubkey ==
  ASSUME NEW t \in Trees, NEW h, Well(t, h), NEW fix, NEW ws, NEW fin, NEW N \in Nat, N = Len(ws),
         Walk(t, h, fix, ws, N, fin),
         ~(ws[N].ChildCellIndex < h.cell[ws[N].Current].SubKeyCount)
  PROVE  /\ ws[N].Current \in KeysOf(t) /\ Valid(h, ws[N].Current)
         /\ ChildrenDone(t, h, fix, Seen(fin, ws, N), fin, ws[N].Current, Len(SubkeysOf(h, ws[N].Current)))
         /\ Range(SubkeysOf(h, ws[N].Current)) \subseteq fin
<1> DEFINE seen == Seen(fin, ws, N)
           p == ws[N].Current
           j == ws[N].ChildCellIndex
           s == SubkeysOf(h, p)
<1>1. N \in 1 .. N /\ ~(N < N)
  BY DEF Walk
<1>2. FrameKept(t, h, fix, seen, fin, ws[N], j, j)
  BY <1>1 DEF Walk
<1>3. j \in Nat
  <2>1. ws[N] \in Frames(t)
    BY <1>1, SeenFacts
  <2> QED  BY <2>1 DEF Frames
<1>4. p \in KeysOf(t) /\ Valid(h, p) /\ j <= Len(s) /\ ChildrenDone(t, h, fix, seen, fin, p, j)
  BY <1>2 DEF FrameKept
<1>5. s \in Seq(KeyOrOutside(t)) /\ h.cell[p].SubKeyCount = Len(s) /\ Len(s) \in Nat
  BY <1>4, CountIs
<1>6. j = Len(s)
  BY <1>3, <1>4, <1>5
<1>7. Range(s) \subseteq fin
  <2> HIDE DEF s, seen, j
  <2>1. \A i \in 1 .. Len(s) : s[i] \in fin
    BY <1>4, <1>6 DEF ChildrenDone, s
  <2> QED  BY <1>5, <2>1 DEF Range
<1> QED  BY <1>4, <1>6, <1>7

\* The walk goes back to the parent of the key that it is done with.
LEMMA WalkReturns ==
  ASSUME NEW t \in Trees, NEW h, Well(t, h), NEW fix, NEW ws, NEW fin, NEW N \in Nat, N = Len(ws), N > 1,
         Walk(t, h, fix, ws, N, fin),
         ~(ws[N].ChildCellIndex < h.cell[ws[N].Current].SubKeyCount),
         NEW ws2 \in Seq(Frames(t)), Len(ws2) = N - 1, \A i \in 1 .. N - 1 : ws2[i] = ws[i]
  PROVE  Walk(t, h, fix, ws2, N - 1, fin \cup {ws[N].Current})
<1> DEFINE c == ws[N].Current
           M == N - 1
           seen == Seen(fin, ws, N)
           fin2 == fin \cup {c}
<1>1. /\ KeysDone(t, h, fix, seen, fin)
      /\ \A i \in 1 .. N : FrameKept(t, h, fix, seen, fin, ws[i],
                             IF i < N THEN ws[i].ChildCellIndex - 1 ELSE ws[i].ChildCellIndex,
                             IF i = N /\ N < N THEN ws[i].ChildCellIndex - 1 ELSE ws[i].ChildCellIndex)
      /\ \A i \in 1 .. N - 1 : Linked(t, h, fix, seen, ws, i, N)
      /\ LeastSeen(t, h, seen)
      /\ ws[1].Current = RootCell /\ ws[1].Parent = HCELL_NIL
      /\ fin \subseteq KeysOf(t) /\ RootCell \notin fin
      /\ N <= CMP_REGISTRY_MAX_LEVELS_TREE_DEPTH - 1
  BY DEF Walk
<1>2. M \in Nat /\ M >= 1 /\ 1 \in 1 .. M /\ M \in 1 .. M /\ N \in 1 .. N /\ M + 1 = N /\ 1 .. N = 1 .. M \cup {N}
  OBVIOUS
<1>3. Seen(fin2, ws2, M) = seen
  <2>1. {ws2[i].Current : i \in 1 .. M} = {ws[i].Current : i \in 1 .. M}
    OBVIOUS
  <2>2. {ws[i].Current : i \in 1 .. N} = {ws[i].Current : i \in 1 .. M} \cup {c}
    BY <1>2
  <2> HIDE DEF M, c
  <2> QED  BY <2>1, <2>2 DEF Seen
<1>4. /\ c \in KeysOf(t) /\ Valid(h, c) /\ Range(SubkeysOf(h, c)) \subseteq fin
      /\ ChildrenDone(t, h, fix, seen, fin, c, Len(SubkeysOf(h, c)))
  BY LastSubkey
<1>5. c # RootCell
  BY <1>4, RootIsFirst
<1>6. \A p, n : ChildrenDone(t, h, fix, seen, fin, p, n) => ChildrenDone(t, h, fix, seen, fin2, p, n)
  <2>1. seen \subseteq seen /\ fin \subseteq fin2
    OBVIOUS
  <2> HIDE DEF seen, fin2
  <2> QED  BY <2>1, MoreSeen
<1>7. KeysDone(t, h, fix, seen, fin2)
  <2> HIDE DEF seen, c
  <2> QED  BY <1>1, <1>4, <1>6 DEF KeysDone
<1>8. \A i \in 1 .. M : FrameKept(t, h, fix, seen, fin2, ws2[i],
         IF i < M THEN ws2[i].ChildCellIndex - 1 ELSE ws2[i].ChildCellIndex, ws2[i].ChildCellIndex)
  <2> SUFFICES ASSUME NEW i \in 1 .. M
               PROVE  FrameKept(t, h, fix, seen, fin2, ws2[i],
                        IF i < M THEN ws2[i].ChildCellIndex - 1 ELSE ws2[i].ChildCellIndex,
                        ws2[i].ChildCellIndex)
    OBVIOUS
  <2>1. i \in 1 .. N /\ i < N /\ i # N /\ ws2[i] = ws[i]
    OBVIOUS
  <2>2. FrameKept(t, h, fix, seen, fin, ws[i], ws[i].ChildCellIndex - 1, ws[i].ChildCellIndex)
    BY <1>1, <2>1
  <2>3. CASE i # M
    <3>1. i < M
      BY <2>3
    <3> HIDE DEF seen, fin2, M
    <3> QED  BY <1>6, <2>1, <2>2, <3>1 DEF FrameKept
  <2>4. CASE i = M
    <3> DEFINE p == ws[M].Current
               j == ws[M].ChildCellIndex
    <3>1. Linked(t, h, fix, seen, ws, M, N) /\ M < N
      BY <1>1, <1>2
    <3>2. c = SubkeysOf(h, p)[j] /\ ChildKept(t, h, fix, seen, p, j) /\ j >= 1
      BY <1>2, <3>1 DEF Linked
    <3>3. j \in Nat
      <4>1. ws[M] \in Frames(t)
        BY <1>2, SeenFacts
      <4> QED  BY <4>1 DEF Frames
    <3>4. ChildrenDone(t, h, fix, seen, fin, p, j - 1)
      BY <2>2, <2>4 DEF FrameKept
    <3>5. ChildrenDone(t, h, fix, seen, fin2, p, j)
      <4> SUFFICES ASSUME NEW i2 \in 1 .. j
                   PROVE  SubkeysOf(h, p)[i2] \in fin2 /\ ChildKept(t, h, fix, seen, p, i2)
        BY DEF ChildrenDone
      <4>1. CASE i2 = j
        BY <3>2, <4>1
      <4>2. CASE i2 # j
        <5>1. i2 \in 1 .. j - 1
          BY <3>3, <4>2
        <5> HIDE DEF p, j, seen, c
        <5> QED  BY <3>4, <5>1 DEF ChildrenDone
      <4> QED  BY <4>1, <4>2
    <3>6. ~(i < M)
      BY <2>4
    <3> HIDE DEF seen, fin2
    <3> QED  BY <2>1, <2>2, <2>4, <3>5, <3>6 DEF FrameKept
  <2> QED  BY <2>3, <2>4
<1>9. \A i \in 1 .. M - 1 : Linked(t, h, fix, seen, ws2, i, M)
  <2> SUFFICES ASSUME NEW i \in 1 .. M - 1 PROVE Linked(t, h, fix, seen, ws2, i, M)
    OBVIOUS
  <2>1. i \in 1 .. N - 1 /\ i \in 1 .. M /\ i + 1 \in 1 .. M /\ i < N
    OBVIOUS
  <2>2. Linked(t, h, fix, seen, ws, i, N) /\ ws2[i] = ws[i] /\ ws2[i + 1] = ws[i + 1]
    BY <1>1, <2>1
  <2> HIDE DEF seen, M
  <2> QED  BY <2>1, <2>2 DEF Linked
<1>10. ws2[1].Current = RootCell /\ ws2[1].Parent = HCELL_NIL
  BY <1>1, <1>2
<1>11. /\ Len(ws2) = M /\ ~(M < Len(ws2)) /\ Len(ws2) >= 1 /\ M \in {Len(ws2), Len(ws2) - 1}
       /\ Len(ws2) <= CMP_REGISTRY_MAX_LEVELS_TREE_DEPTH - 1
  BY <1>1, DepthAssumption
<1>12. \A i \in 1 .. M : FrameKept(t, h, fix, seen, fin2, ws2[i],
          IF i < Len(ws2) THEN ws2[i].ChildCellIndex - 1 ELSE ws2[i].ChildCellIndex,
          IF i = M /\ M < Len(ws2) THEN ws2[i].ChildCellIndex - 1 ELSE ws2[i].ChildCellIndex)
  <2> HIDE DEF seen, fin2, M
  <2> QED  BY <1>8, <1>11
<1>13. fin2 \subseteq KeysOf(t) /\ RootCell \notin fin2
  BY <1>1, <1>4, <1>5
<1> HIDE DEF seen, fin2, M
<1>14. Walk(t, h, fix, ws2, M, fin2)
  BY <1>1, <1>3, <1>7, <1>9, <1>10, <1>11, <1>12, <1>13 DEF Walk
<1> QED  BY <1>14 DEF M, fin2

(***************************************************************************)
(* The walk is done with the root key: the keys that it is done with are   *)
(* those that can be reached, all sound but for the parents of keys that   *)
(* are shared.                                                             *)
(***************************************************************************)
LEMMA WalkEnds ==
  ASSUME NEW t \in Trees, NEW h, Well(t, h), NEW fix, NEW ws, NEW fin, Len(ws) = 1,
         Walk(t, h, fix, ws, 1, fin),
         ~(ws[1].ChildCellIndex < h.cell[ws[1].Current].SubKeyCount)
  PROVE  LET all == fin \cup {RootCell} IN
         /\ all \subseteq KeysOf(t)
         /\ \A k \in all : Range(SubkeysOf(h, k)) \subseteq all \ {RootCell}
         /\ KeysDone(t, h, fix, all, all)
         /\ LeastSeen(t, h, all)
<1> DEFINE seen == Seen(fin, ws, 1)
           all == fin \cup {RootCell}
<1>1. ws[1].Current = RootCell /\ KeysDone(t, h, fix, seen, fin) /\ LeastSeen(t, h, seen)
      /\ fin \subseteq KeysOf(t) /\ RootCell \notin fin
  BY DEF Walk
<1>2. seen = all
  BY <1>1 DEF Seen
<1>3. /\ RootCell \in KeysOf(t) /\ Valid(h, RootCell) /\ Range(SubkeysOf(h, RootCell)) \subseteq fin
      /\ ChildrenDone(t, h, fix, seen, fin, RootCell, Len(SubkeysOf(h, RootCell)))
  BY <1>1, LastSubkey
<1>4. \A p, n : ChildrenDone(t, h, fix, seen, fin, p, n) => ChildrenDone(t, h, fix, seen, all, p, n)
  <2>1. seen \subseteq seen /\ fin \subseteq all
    OBVIOUS
  <2> HIDE DEF seen, all
  <2> QED  BY <2>1, MoreSeen
<1> HIDE DEF seen
<1>5. KeysDone(t, h, fix, seen, all)
  BY <1>1, <1>3, <1>4 DEF KeysDone
<1>6. \A k \in fin : Range(SubkeysOf(h, k)) \subseteq fin
  <2> SUFFICES ASSUME NEW k \in fin, NEW x \in Range(SubkeysOf(h, k)) PROVE x \in fin
    OBVIOUS
  <2>1. k \in KeysOf(t) /\ ChildrenDone(t, h, fix, seen, fin, k, Len(SubkeysOf(h, k)))
    BY <1>1 DEF KeysDone
  <2>2. SubkeysOf(h, k) \in Seq(KeyOrOutside(t))
    BY SubkeysFacts DEF Well
  <2>3. PICK j \in 1 .. Len(SubkeysOf(h, k)) : x = SubkeysOf(h, k)[j]
    BY <2>2 DEF Range
  <2> QED  BY <2>1, <2>3 DEF ChildrenDone
<1>7. \A k \in all : Range(SubkeysOf(h, k)) \subseteq all \ {RootCell}
  BY <1>1, <1>3, <1>6
<1> QED  BY <1>1, <1>2, <1>3, <1>5, <1>7

-----------------------------------------------------------------------------
(* Taking a key out of its parent *)

LEMMA EntryRemoved ==
  ASSUME NEW S, NEW s \in Seq(S), NEW i \in 1 .. Len(s)
  PROVE  /\ RemoveAt(s, i) \in Seq(S) /\ Len(RemoveAt(s, i)) = Len(s) - 1
         /\ \A j \in 1 .. Len(s) - 1 : RemoveAt(s, i)[j] = IF j < i THEN s[j] ELSE s[j + 1]
<1> DEFINE a == SubSeq(s, 1, i - 1)
           b == SubSeq(s, i + 1, Len(s))
<1>0. Len(s) \in Nat /\ i \in Nat /\ i >= 1 /\ i <= Len(s) /\ \A j \in 1 .. Len(s) : s[j] \in S
  OBVIOUS
<1>1. a \in Seq(S) /\ Len(a) = i - 1 /\ \A j \in 1 .. i - 1 : a[j] = s[j]
  <2>1. 1 \in Int /\ i - 1 \in Int /\ \A j \in 1 .. i - 1 : s[j] \in S
    BY <1>0
  <2>2. /\ a \in Seq(S) /\ Len(a) = IF 1 <= i - 1 THEN i - 1 - 1 + 1 ELSE 0
        /\ \A j \in 1 .. i - 1 - 1 + 1 : a[j] = s[1 + j - 1]
    BY <2>1, SubSeqProperties
  <2> HIDE DEF a
  <2> QED  BY <1>0, <2>2
<1>2. b \in Seq(S) /\ Len(b) = Len(s) - i /\ \A j \in 1 .. Len(s) - i : b[j] = s[i + j]
  <2>1. i + 1 \in Int /\ Len(s) \in Int /\ \A j \in i + 1 .. Len(s) : s[j] \in S
    BY <1>0
  <2>2. /\ b \in Seq(S) /\ Len(b) = IF i + 1 <= Len(s) THEN Len(s) - (i + 1) + 1 ELSE 0
        /\ \A j \in 1 .. Len(s) - (i + 1) + 1 : b[j] = s[i + 1 + j - 1]
    BY <2>1, SubSeqProperties
  <2> HIDE DEF b
  <2>3. Len(b) = Len(s) - i
    BY <1>0, <2>2
  <2>4. ASSUME NEW j \in 1 .. Len(s) - i PROVE b[j] = s[i + j]
    <3>1. j \in 1 .. Len(s) - (i + 1) + 1 /\ i + 1 + j - 1 = i + j
      BY <1>0
    <3> QED  BY <2>2, <3>1
  <2> QED  BY <2>2, <2>3, <2>4
<1>3. RemoveAt(s, i) = a \o b
  BY DEF RemoveAt
<1> HIDE DEF a, b
<1>4. /\ a \o b \in Seq(S) /\ Len(a \o b) = Len(a) + Len(b)
      /\ \A j \in 1 .. Len(a) + Len(b) : (a \o b)[j] = IF j <= Len(a) THEN a[j] ELSE b[j - Len(a)]
  BY <1>1, <1>2, ConcatProperties
<1>5. Len(a) + Len(b) = Len(s) - 1
  BY <1>0, <1>1, <1>2
<1>6. ASSUME NEW j \in 1 .. Len(s) - 1 PROVE (a \o b)[j] = IF j < i THEN s[j] ELSE s[j + 1]
  <2>1. CASE j < i
    <3>1. j <= Len(a) /\ j \in 1 .. i - 1
      BY <1>0, <1>1, <2>1
    <3>2. j \in 1 .. Len(a) + Len(b)
      BY <1>5
    <3> QED  BY <1>1, <1>4, <2>1, <3>1, <3>2
  <2>2. CASE ~(j < i)
    <3>1. ~(j <= Len(a)) /\ j - Len(a) \in 1 .. Len(s) - i /\ i + (j - Len(a)) = j + 1
      BY <1>0, <1>1, <2>2
    <3>2. j \in 1 .. Len(a) + Len(b)
      BY <1>5
    <3>3. (a \o b)[j] = b[j - Len(a)]
      BY <1>4, <3>1, <3>2
    <3>4. b[j - Len(a)] = s[j + 1]
      BY <1>2, <3>1
    <3> QED  BY <2>2, <3>3, <3>4
  <2> QED  BY <2>1, <2>2
<1> QED  BY <1>3, <1>4, <1>5, <1>6

\* Where a leaf names a key first, and the first leaf of a root that names it.
FirstEntry(s, c) == Min({i \in 1 .. Len(s) : s[i] = c})
FirstLeaf(h, s, c) == Min({i \in 1 .. Len(s) : c \in Range(h.cell[s[i]].List)})

LEMMA EntryFound ==
  ASSUME NEW S, NEW s \in Seq(S), NEW c, c \in Range(s)
  PROVE  FirstEntry(s, c) \in 1 .. Len(s) /\ s[FirstEntry(s, c)] = c
         /\ {i \in 1 .. Len(s) : s[i] = c} # {}
<1> DEFINE I == {i \in 1 .. Len(s) : s[i] = c}
<1>1. I # {}
  BY DEF Range
<1>2. I \in SUBSET Nat
  OBVIOUS
<1> HIDE DEF I
<1>3. Min(I) \in I
  BY <1>1, <1>2, MinFacts
<1> QED  BY <1>1, <1>3 DEF I, FirstEntry

LEMMA LeafFound ==
  ASSUME NEW h, NEW S, NEW s \in Seq(S), NEW c, \E l \in Range(s) : c \in Range(h.cell[l].List)
  PROVE  FirstLeaf(h, s, c) \in 1 .. Len(s) /\ c \in Range(h.cell[s[FirstLeaf(h, s, c)]].List)
         /\ {i \in 1 .. Len(s) : c \in Range(h.cell[s[i]].List)} # {}
<1> DEFINE I == {i \in 1 .. Len(s) : c \in Range(h.cell[s[i]].List)}
<1>1. I # {}
  <2>1. PICK l \in Range(s) : c \in Range(h.cell[l].List)
    OBVIOUS
  <2>2. PICK i \in 1 .. Len(s) : l = s[i]
    BY DEF Range
  <2> QED  BY <2>1, <2>2
<1>2. I \in SUBSET Nat
  OBVIOUS
<1> HIDE DEF I
<1>3. Min(I) \in I
  BY <1>1, <1>2, MinFacts
<1> QED  BY <1>1, <1>3 DEF I, FirstLeaf

(***************************************************************************)
(* A key that is a subkey of p is taken out of a leaf of the index of p,   *)
(* the count of p is one less, and nothing else has changed.               *)
(***************************************************************************)
LEMMA KeyRemoved ==
  ASSUME NEW t \in Trees, NEW h, Well(t, h), NEW p \in KeysOf(t), NEW c, c \in Range(SubkeysOf(h, p))
  PROVE  LET g == CmpRepairParentKey(h, c, p) IN
         /\ Well(t, g)
         /\ g.cell[p] = [h.cell[p] EXCEPT !.SubKeyCount = h.cell[p].SubKeyCount - 1]
         /\ \E l \in LeafCells(h, h.cell[p].SubKeyList) :
              /\ c \in Range(h.cell[l].List)
              /\ g.cell[l] = [h.cell[l] EXCEPT
                   !.List = RemoveAt(h.cell[l].List, FirstEntry(h.cell[l].List, c))]
              /\ \A d \in DOMAIN t : d \notin {l, p} => g.cell[d] = h.cell[d]
<1> DEFINE index == h.cell[p].SubKeyList
           Rest(l) == RemoveAt(h.cell[l].List, FirstEntry(h.cell[l].List, c))
           Left(l) == [h.cell[l] EXCEPT !.List = Rest(l)]
<1>1. /\ ~IndexIsBroken(h, index) /\ SubkeysOf(h, p) = Entries(h, h.cell[index])
      /\ h.cell[p].SubKeyCount # 0
  BY DEF SubkeysOf, Range
<1>2. /\ \A l \in LeafCells(h, index) : /\ l \in CellsOf(t, "li") /\ h.cell[l].List \in Seq(KeyOrOutside(t))
      /\ ~IsLeaf(h.cell[index]) => h.cell[index].List \in Seq(CellsOf(t, "li"))
  BY <1>1, IndexFacts DEF Well
<1>3. \E l \in LeafCells(h, index) : c \in Range(h.cell[l].List)
  BY <1>1, EntriesFacts DEF Well
<1>4. PICK l \in LeafCells(h, index) :
        /\ c \in Range(h.cell[l].List)
        /\ CmpRepairParentKey(h, c, p) =
             LET removed == CmpRemoveSubKeyInLeaf(h, l, c)
             IN  Repaired(removed, p, [removed.cell[p] EXCEPT !.SubKeyCount = removed.cell[p].SubKeyCount - 1])
  <2>1. CASE IsLeaf(h.cell[index])
    <3>1. LeafCells(h, index) = {index}
      BY <2>1 DEF LeafCells
    <3>2. c \in Range(h.cell[index].List) /\ index \in LeafCells(h, index)
      BY <1>3, <3>1
    <3>3. CmpRepairParentKey(h, c, p) =
             LET removed == CmpRemoveSubKeyInLeaf(h, index, c)
             IN  Repaired(removed, p, [removed.cell[p] EXCEPT !.SubKeyCount = removed.cell[p].SubKeyCount - 1])
      BY <2>1 DEF CmpRepairParentKey
    <3> QED  BY <3>2, <3>3
  <2>2. CASE ~IsLeaf(h.cell[index])
    <3> DEFINE list == h.cell[index].List
               i == FirstLeaf(h, list, c)
    <3>1. LeafCells(h, index) = Range(list) /\ list \in Seq(CellsOf(t, "li"))
      BY <1>2, <2>2 DEF LeafCells
    <3>2. i \in 1 .. Len(list) /\ c \in Range(h.cell[list[i]].List)
          /\ {k \in 1 .. Len(list) : c \in Range(h.cell[list[k]].List)} # {}
      <4> HIDE DEF list
      <4> QED  BY <1>3, <3>1, LeafFound
    <3>3. list[i] \in LeafCells(h, index)
      <4> HIDE DEF i, list
      <4> QED  BY <3>1, <3>2 DEF Range
    <3>4. CmpRepairParentKey(h, c, p) =
             LET removed == CmpRemoveSubKeyInLeaf(h, list[i], c)
             IN  Repaired(removed, p, [removed.cell[p] EXCEPT !.SubKeyCount = removed.cell[p].SubKeyCount - 1])
      <4>1. CmpRemoveSubkeyInRoot(h, index, c) = CmpRemoveSubKeyInLeaf(h, list[i], c)
        BY <3>2 DEF CmpRemoveSubkeyInRoot, SelectInSeq, FirstLeaf
      <4> QED  BY <2>2, <4>1 DEF CmpRepairParentKey
    <3> HIDE DEF i, list
    <3> QED  BY <3>2, <3>3, <3>4
  <2> QED  BY <2>1, <2>2
<1> DEFINE removed == CmpRemoveSubKeyInLeaf(h, l, c)
           content == [h.cell[p] EXCEPT !.SubKeyCount = h.cell[p].SubKeyCount - 1]
           g == CmpRepairParentKey(h, c, p)
<1>5. /\ l \in CellsOf(t, "li") /\ h.cell[l].List \in Seq(KeyOrOutside(t)) /\ l \in DOMAIN t
      /\ t[l].Signature = "li" /\ l # p /\ l \notin KeysOf(t)
  <2>1. l \in CellsOf(t, "li") /\ h.cell[l].List \in Seq(KeyOrOutside(t))
    BY <1>2
  <2> QED  BY <2>1, TreeFacts
<1>6. h.cell[l] \in [Signature : {"li", "junk"}, List : Seq(KeyOrOutside(t))]
  BY <1>5, ShapeFacts DEF Well
<1>7. Rest(l) \in Seq(KeyOrOutside(t))
  <2>1. FirstEntry(h.cell[l].List, c) \in 1 .. Len(h.cell[l].List)
    BY <1>4, <1>5, EntryFound
  <2> QED  BY <1>5, <2>1, EntryRemoved
<1>8. Left(l) \in ShapeOf(t, t[l].Signature)
  <2>1. Left(l) \in [Signature : {"li", "junk"}, List : Seq(KeyOrOutside(t))]
    <3> HIDE DEF Rest
    <3> QED  BY <1>6, <1>7
  <2>2. ShapeOf(t, "li") = [Signature : {"li", "junk"}, List : Seq(KeyOrOutside(t))]
    BY DEF ShapeOf, KeyOrOutside
  <2> QED  BY <1>5, <2>1, <2>2
<1>9. Written(h, removed, l, Left(l))
  <2>1. removed = Repaired(h, l, Left(l))
    <3>1. {i \in 1 .. Len(h.cell[l].List) : h.cell[l].List[i] = c} # {}
      BY <1>4, <1>5, EntryFound
    <3> QED  BY <3>1 DEF CmpRemoveSubKeyInLeaf, SelectInSeq, FirstEntry
  <2> HIDE DEF removed, Left
  <2> QED  BY <2>1, RepairedWrites DEF Well
<1> HIDE DEF removed, Left
<1>10. /\ Well(t, removed) /\ removed.cell[l] = Left(l)
       /\ \A d \in DOMAIN t : d # l => removed.cell[d] = h.cell[d]
  BY <1>5, <1>8, <1>9, WrittenWell
<1>11. removed.cell[p] = h.cell[p] /\ p \in DOMAIN t
  BY <1>5, <1>10, KeyFacts
<1>12. g = Repaired(removed, p, content)
  BY <1>4, <1>11 DEF removed
<1>13. content \in ShapeOf(t, t[p].Signature) /\ content.ValueList = h.cell[p].ValueList
  <2>1. h.cell[p] \in KeyNodes(t) /\ h.cell[p].SubKeyCount \in Nat /\ ShapeOf(t, t[p].Signature) = KeyNodes(t)
    BY KeyFacts
  <2>2. h.cell[p].SubKeyCount - 1 \in Nat
    BY <1>1, <2>1
  <2> QED  BY <2>1, <2>2 DEF KeyNodes
<1> HIDE DEF content, g
<1>14. Written(removed, g, p, content)
  BY <1>10, <1>12, RepairedWrites DEF Well
<1>15. /\ Well(t, g) /\ g.cell[p] = content
       /\ \A d \in DOMAIN t : d # p => g.cell[d] = removed.cell[d]
  BY <1>10, <1>11, <1>13, <1>14, WrittenWell
<1>16. g.cell[l] = Left(l) /\ \A d \in DOMAIN t : d \notin {l, p} => g.cell[d] = h.cell[d]
  BY <1>5, <1>10, <1>15
<1> QED  BY <1>4, <1>15, <1>16 DEF g, content, Left

-----------------------------------------------------------------------------
(* The damage leaves every cell what it was: a key, a list, or a value *)

LEMMA KeyWritesFit ==
  ASSUME NEW t \in Trees, NEW cells, KeysOf(cells) \subseteq KeysOf(t), IndicesOf(cells) \subseteq IndicesOf(t),
         NEW key \in KeyNodes(t), NEW w \in KeyWrites(cells, key)
  PROVE  w \in KeyNodes(t) /\ w.ValueList \in {key.ValueList, Outside}
<1>1. /\ key.ClassLength \in {0, 1} /\ key.ValueCount \in Nat /\ key.SubKeyCount \in Nat
      /\ key.Comp \in BOOLEAN
  BY DEF KeyNodes
<1>2. CASE w \in {[key EXCEPT !.Sane = FALSE], [key EXCEPT !.Signature = "junk"],
                  [key EXCEPT !.Class = Outside]}
  BY <1>2 DEF KeyNodes
<1>9. CASE w = [key EXCEPT !.ClassLength = 1 - @]
  <2>1. 1 - key.ClassLength \in {0, 1}
    BY <1>1
  <2> QED  BY <1>9, <2>1 DEF KeyNodes
<1>3. CASE w \in {[key EXCEPT !.ValueList = Outside], [key EXCEPT !.Comp = ~@]}
  BY <1>1, <1>3 DEF KeyNodes
<1>4. CASE \E n \in Names : w = [key EXCEPT !.Name = n]
  BY <1>4 DEF KeyNodes
<1>5. CASE \E p \in KeysOf(cells) : w = [key EXCEPT !.Parent = p]
  BY <1>5 DEF KeyNodes
<1>6. CASE \E n \in {0, key.ValueCount + 1} : w = [key EXCEPT !.ValueCount = n]
  BY <1>1, <1>6 DEF KeyNodes
<1>7. CASE \E n \in {0, key.SubKeyCount + 1} : w = [key EXCEPT !.SubKeyCount = n]
  BY <1>1, <1>7 DEF KeyNodes
<1>8. CASE \E i \in IndicesOf(cells) \cup {Outside} : w = [key EXCEPT !.SubKeyList = i]
  BY <1>8 DEF KeyNodes
<1> QED  BY <1>2, <1>3, <1>4, <1>5, <1>6, <1>7, <1>8, <1>9 DEF KeyWrites

LEMMA ListWritesFit ==
  ASSUME NEW t, NEW cells, NEW list, NEW S, NEW signature \in {"li", "ri", "list"},
         list \in [Signature : {signature, "junk"}, List : Seq(S)], Outside \in S,
         IsLeaf(list) => KeysOf(cells) \subseteq S,
         NEW w \in ListWrites(cells, list)
  PROVE  /\ w \in [Signature : {signature, "junk"}, List : Seq(S)]
         /\ list.Signature = "list" => w.Signature = "list"
<1>1. list.List \in Seq(S) /\ DOMAIN list.List = 1 .. Len(list.List)
  OBVIOUS
<1>2. CASE w = [list EXCEPT !.Signature = IF @ = "list" THEN @ ELSE "junk"]
  BY <1>2
<1>3. CASE \E i \in DOMAIN list.List : w = [list EXCEPT !.List = RemoveAt(@, i)]
  <2>1. PICK i \in 1 .. Len(list.List) : w = [list EXCEPT !.List = RemoveAt(@, i)]
    BY <1>1, <1>3
  <2>2. RemoveAt(list.List, i) \in Seq(S)
    BY <1>1, <2>1, EntryRemoved
  <2> QED  BY <2>1, <2>2
<1>4. CASE \E i \in DOMAIN list.List, c \in (IF IsLeaf(list) THEN KeysOf(cells) ELSE {}) \cup {Outside} :
             w = [list EXCEPT !.List[i] = c]
  <2>1. PICK i \in DOMAIN list.List, c \in S : w = [list EXCEPT !.List[i] = c]
    BY <1>4
  <2>2. [list.List EXCEPT ![i] = c] \in Seq(S)
    BY <1>1, <2>1
  <2> QED  BY <2>1, <2>2
<1> QED  BY <1>2, <1>3, <1>4 DEF ListWrites

LEMMA DamageFits ==
  ASSUME NEW t \in Trees, NEW cells, Shaped(t, cells), ListsApart(t, cells), NEW new \in Damaged(cells)
  PROVE  Shaped(t, new) /\ ListsApart(t, new)
<1>1. DOMAIN cells = DOMAIN t
  BY DEF Shaped
<1>2. KeysOf(cells) \subseteq KeysOf(t)
  <2> SUFFICES ASSUME NEW c \in DOMAIN cells, cells[c].Signature = "kn" PROVE c \in KeysOf(t)
    BY DEF KeysOf, CellsOf
  <2> QED  BY <1>1, ShapeFacts
<1>3. IndicesOf(cells) \subseteq IndicesOf(t)
  <2> SUFFICES ASSUME NEW c \in DOMAIN cells, cells[c].Signature \in {"li", "ri"} PROVE c \in IndicesOf(t)
    BY DEF IndicesOf, CellsOf
  <2> QED  BY <1>1, ShapeFacts DEF IndicesOf
<1>4. CASE new = cells
  BY <1>4
<1>5. CASE new # cells
  <2> DEFINE Writes(c) == CASE cells[c].Signature = "kn" -> KeyWrites(cells, cells[c])
                            [] cells[c].Signature = "vk" -> ValueWrites(cells[c])
                            [] cells[c].Signature \in {"li", "ri", "list"} -> ListWrites(cells, cells[c])
                            [] OTHER -> {cells[c]}
  <2>1. PICK c \in DOMAIN t : \E w \in Writes(c) : new = [cells EXCEPT ![c] = w]
    BY <1>1, <1>5 DEF Damaged
  <2>2. PICK w \in Writes(c) : new = [cells EXCEPT ![c] = w]
    BY <2>1
  <2>3. cells[c] \in ShapeOf(t, t[c].Signature)
    BY DEF Shaped
  <2>4. /\ w \in ShapeOf(t, t[c].Signature)
        /\ c \in KeysOf(t) => w.ValueList \in {cells[c].ValueList, Outside}
    <3>1. CASE t[c].Signature = "kn"
      <4>1. cells[c] \in KeyNodes(t)
        BY <2>3, <3>1 DEF ShapeOf
      <4>2. cells[c].Signature \in {"kn", "junk"}
        BY <4>1 DEF KeyNodes
      <4>3. w \in KeyWrites(cells, cells[c]) \/ w = cells[c]
        BY <4>2
      <4>4. w \in KeyNodes(t) /\ w.ValueList \in {cells[c].ValueList, Outside}
        BY <1>2, <1>3, <4>1, <4>3, KeyWritesFit
      <4> QED  BY <3>1, <4>4 DEF ShapeOf
    <3>2. CASE t[c].Signature = "vk"
      <4>1. cells[c] \in [Signature : {"vk", "junk"}, Sane : BOOLEAN, DataLength : {"none", "small", "some"},
                          Data : DOMAIN t \cup {Outside, HCELL_NIL}]
        BY <2>3, <3>2 DEF ShapeOf
      <4>2. w \in ValueWrites(cells[c]) \/ w = cells[c]
        BY <4>1
      <4>3. w \in [Signature : {"vk", "junk"}, Sane : BOOLEAN, DataLength : {"none", "small", "some"},
                   Data : DOMAIN t \cup {Outside, HCELL_NIL}]
        <5> HIDE DEF Writes
        <5> QED  BY <4>1, <4>2 DEF ValueWrites
      <4> QED  BY <3>2, <4>3 DEF ShapeOf, KeysOf, CellsOf
    <3>3. CASE t[c].Signature = "li"
      <4>1. cells[c] \in [Signature : {"li", "junk"}, List : Seq(KeyOrOutside(t))]
        BY <2>3, <3>3 DEF ShapeOf, KeyOrOutside
      <4>2. w \in ListWrites(cells, cells[c]) \/ w = cells[c]
        BY <4>1
      <4>3. w \in [Signature : {"li", "junk"}, List : Seq(KeyOrOutside(t))]
        <5> HIDE DEF Writes
        <5>1. Outside \in KeyOrOutside(t) /\ KeysOf(cells) \subseteq KeyOrOutside(t)
          BY <1>2 DEF KeyOrOutside
        <5> QED  BY <4>1, <4>2, <5>1, ListWritesFit
      <4> QED  BY <3>3, <4>3 DEF ShapeOf, KeysOf, CellsOf, KeyOrOutside
    <3>4. CASE t[c].Signature = "ri"
      <4>1. cells[c] \in [Signature : {"ri", "junk"}, List : Seq(CellsOf(t, "li") \cup {Outside})]
        BY <2>3, <3>4 DEF ShapeOf
      <4>2. w \in ListWrites(cells, cells[c]) \/ w = cells[c]
        BY <4>1
      <4>3. w \in [Signature : {"ri", "junk"}, List : Seq(CellsOf(t, "li") \cup {Outside})]
        <5> HIDE DEF Writes
        <5>1. ~IsLeaf(cells[c])
          BY <4>1 DEF IsLeaf
        <5> QED  BY <4>1, <4>2, <5>1, ListWritesFit
      <4> QED  BY <3>4, <4>3 DEF ShapeOf, KeysOf, CellsOf
    <3>5. CASE t[c].Signature = "list"
      <4>1. cells[c] \in [Signature : {"list"}, List : Seq(DOMAIN t \cup {Outside})]
        BY <2>3, <3>5 DEF ShapeOf
      <4>2. w \in ListWrites(cells, cells[c]) \/ w = cells[c]
        BY <4>1
      <4>3. w \in [Signature : {"list"}, List : Seq(DOMAIN t \cup {Outside})]
        <5> HIDE DEF Writes
        <5>1. ~IsLeaf(cells[c]) /\ cells[c] \in [Signature : {"list", "junk"}, List : Seq(DOMAIN t \cup {Outside})]
              /\ cells[c].Signature = "list"
          BY <4>1 DEF IsLeaf
        <5>2. CASE w = cells[c]
          BY <4>1, <5>2
        <5>3. CASE w \in ListWrites(cells, cells[c])
          <6>1. w \in [Signature : {"list", "junk"}, List : Seq(DOMAIN t \cup {Outside})] /\ w.Signature = "list"
            BY <5>1, <5>3, ListWritesFit
          <6> QED  BY <6>1
        <5> QED  BY <4>2, <5>2, <5>3
      <4> QED  BY <3>5, <4>3 DEF ShapeOf, KeysOf, CellsOf
    <3>6. CASE t[c].Signature = "data"
      <4>1. cells[c] \in [Signature : {"data"}]
        BY <2>3, <3>6 DEF ShapeOf
      <4>2. w = cells[c]
        BY <4>1
      <4> QED  BY <2>3, <3>6, <4>2 DEF KeysOf, CellsOf
    <3>7. t[c].Signature \in {"kn", "li", "ri", "list", "vk", "data"}
      BY TreeFacts
    <3> QED  BY <3>1, <3>2, <3>3, <3>4, <3>5, <3>6, <3>7
  <2> HIDE DEF Writes
  <2>5. DOMAIN new = DOMAIN t /\ new[c] = w /\ \A d \in DOMAIN t : d # c => new[d] = cells[d]
    BY <1>1, <2>2
  <2>6. Shaped(t, new)
    BY <2>4, <2>5 DEF Shaped
  <2>7. ListsApart(t, new)
    <3>1. \A d \in KeysOf(t) : d \in DOMAIN t /\ new[d].ValueList \in {cells[d].ValueList, Outside}
      BY <2>4, <2>5, TreeFacts
    <3> QED  BY <3>1, TreeFacts DEF ListsApart
  <2> QED  BY <2>6, <2>7
<1> QED  BY <1>4, <1>5

\* The hive that is loaded, after two writes.
LEMMA InitFits ==
  Init => /\ tree \in Trees /\ Well(tree, hive) /\ hive.cell = file.cell /\ flags \in CallerFlags
          /\ FixHive \in BOOLEAN /\ WorkState = << >> /\ status = "called"
<1> SUFFICES ASSUME Init
             PROVE  /\ tree \in Trees /\ Well(tree, hive) /\ hive.cell = file.cell /\ flags \in CallerFlags
                    /\ FixHive \in BOOLEAN /\ WorkState = << >> /\ status = "called"
  OBVIOUS
<1>0. flags \in CallerFlags /\ FixHive \in BOOLEAN /\ WorkState = << >> /\ status = "called"
  BY DEF Init, FixHive
<1>1. tree \in Trees /\ hive = [cell |-> file.cell, dirty |-> {}, BootType |-> "REGULAR"]
  BY DEF Init
<1>2. \E once \in Damaged(tree) : \E twice \in Damaged(once) : file.cell = twice
  BY DEF Init
<1>3. Shaped(tree, tree) /\ ListsApart(tree, tree)
  BY <1>1, TreesAssumption
<1>4. Shaped(tree, file.cell) /\ ListsApart(tree, file.cell)
  BY <1>1, <1>2, <1>3, DamageFits
<1> QED  BY <1>0, <1>1, <1>4 DEF Well, IsHive

-----------------------------------------------------------------------------
(* The keys that can be reached: the least set with the root and its subkeys *)

(***************************************************************************)
(* The set that f gives for n has what n steps lead to from a, when one    *)
(* step leads from the members of a set x to those of F[x].                *)
(***************************************************************************)
Levels(N, a, F, f) == f[0] = {a} /\ \A n \in 1 .. N : f[n] = {a} \cup F[f[n - 1]]

\* From more members a step leads to more.
Rises(K, F) == \A x, y \in SUBSET K : x \subseteq y => F[x] \subseteq F[y]

\* The least set of members of K with a that no step leads out of.
IsLeast(K, a, F, x) ==
  /\ x \in SUBSET K /\ a \in x /\ F[x] \subseteq x
  /\ \A X \in SUBSET K : a \in X /\ F[X] \subseteq X => x \subseteq X

LEMMA LevelsExist ==
  ASSUME NEW K, NEW N \in Nat, NEW a \in K, NEW F \in [SUBSET K -> SUBSET K]
  PROVE  \E f \in [0 .. N -> SUBSET K] : Levels(N, a, F, f)
<1> DEFINE X == SUBSET K
           step == [n \in 1 .. N |-> [x \in X |-> {a} \cup F[x]]]
<1>1. \A x \in X : {a} \cup F[x] \in X
  OBVIOUS
<1>2. {a} \in X
  OBVIOUS
<1> HIDE DEF X
<1>3. step \in [1 .. N -> [X -> X]]
  BY <1>1
<1>4. \A n \in 1 .. N : \A x \in X : step[n][x] = {a} \cup F[x]
  OBVIOUS
<1> HIDE DEF step
<1>5. PICK f \in [0 .. N -> X] : Steps(N, {a}, step, f)
  BY <1>2, <1>3, StepsExist
<1>6. ASSUME NEW n \in 1 .. N PROVE f[n] = {a} \cup F[f[n - 1]]
  <2>1. n - 1 \in 0 .. N
    OBVIOUS
  <2>2. f[n - 1] \in X
    BY <1>5, <2>1
  <2>3. f[n] = step[n][f[n - 1]]
    BY <1>5 DEF Steps
  <2> QED  BY <1>4, <2>2, <2>3
<1>7. Levels(N, a, F, f)
  BY <1>5, <1>6 DEF Levels, Steps
<1> QED  BY <1>5, <1>7 DEF X

(***************************************************************************)
(* As many steps as there are members are enough: while a step adds some,  *)
(* there are more members than steps, and after one that adds none, none   *)
(* does.                                                                   *)
(***************************************************************************)
LEMMA LevelsEnd ==
  ASSUME NEW K, IsFiniteSet(K), NEW N, N = Cardinality(K), NEW a \in K,
         NEW F \in [SUBSET K -> SUBSET K], Rises(K, F),
         NEW f \in [0 .. N -> SUBSET K], Levels(N, a, F, f)
  PROVE  IsLeast(K, a, F, f[N])
<1>1. N \in Nat
  BY FS_CardinalityType
<1>2. f[0] = {a} /\ \A n \in 1 .. N : f[n] = {a} \cup F[f[n - 1]]
  BY DEF Levels
<1>3. \A n \in 0 .. N : f[n] \in SUBSET K
  OBVIOUS
<1>4. \A n \in 1 .. N : f[n - 1] \subseteq f[n]
  <2> DEFINE S == {n \in 0 .. N : n # 0 => f[n - 1] \subseteq f[n]}
  <2>1. 0 \in S
    BY <1>1
  <2>2. ASSUME NEW n \in 1 .. N, n - 1 \in S PROVE n \in S
    <3>1. CASE n = 1
      <4>1. f[1 - 1] = {a} /\ f[1] = {a} \cup F[f[1 - 1]]
        BY <1>2, <3>1
      <4> QED  BY <3>1, <4>1
    <3>2. CASE n # 1
      <4>1. n - 1 \in 1 .. N /\ n \in 0 .. N /\ (n - 1) - 1 \in 0 .. N /\ n - 1 \in 0 .. N
        BY <1>1, <3>2
      <4>2. f[(n - 1) - 1] \subseteq f[n - 1]
        BY <2>2, <4>1
      <4>3. f[n - 1] = {a} \cup F[f[(n - 1) - 1]] /\ f[n] = {a} \cup F[f[n - 1]]
        BY <1>2, <4>1
      <4>4. F[f[(n - 1) - 1]] \subseteq F[f[n - 1]]
        BY <1>3, <4>1, <4>2 DEF Rises
      <4>5. f[n - 1] \subseteq f[n]
        BY <4>3, <4>4
      <4> QED  BY <4>1, <4>5
    <3> QED  BY <3>1, <3>2
  <2> HIDE DEF S
  <2>3. \A n \in 0 .. N : n \in S
    BY <1>1, <2>1, <2>2, StepsKeep
  <2> QED  BY <2>3 DEF S
<1>5. f[N] \in SUBSET K /\ a \in f[N]
  <2>1. N \in 0 .. N /\ (N = 0 \/ N \in 1 .. N)
    BY <1>1
  <2> QED  BY <1>2, <2>1
<1>6. F[f[N]] \subseteq f[N]
  <2>1. CASE \A n \in 1 .. N : f[n - 1] # f[n]
    <3> DEFINE S == {n \in 0 .. N : Cardinality(f[n]) \in Nat /\ Cardinality(f[n]) >= n + 1}
    <3>0. \A n \in 0 .. N : IsFiniteSet(f[n]) /\ Cardinality(f[n]) \in Nat
      BY <1>3, FS_Subset, FS_CardinalityType
    <3>1. 0 \in S
      <4>0. Cardinality({a}) = 1
        BY FS_Singleton
      <4>1. Cardinality(f[0]) = 1 /\ 0 \in 0 .. N
        BY <1>1, <1>2, <4>0
      <4> QED  BY <4>1
    <3>2. ASSUME NEW n \in 1 .. N, n - 1 \in S PROVE n \in S
      <4>1. n - 1 \in 0 .. N /\ n \in 0 .. N
        BY <1>1
      <4>2. /\ f[n - 1] \in SUBSET f[n] /\ f[n - 1] # f[n]
            /\ Cardinality(f[n - 1]) \in Nat /\ Cardinality(f[n - 1]) >= n
        BY <1>4, <2>1, <3>2
      <4>3. Cardinality(f[n - 1]) <= Cardinality(f[n]) /\ Cardinality(f[n - 1]) # Cardinality(f[n])
        BY <3>0, <4>1, <4>2, FS_Subset
      <4>4. Cardinality(f[n]) \in Nat
        BY <3>0, <4>1
      <4> QED  BY <4>1, <4>2, <4>3, <4>4
    <3> HIDE DEF S
    <3>3. \A n \in 0 .. N : n \in S
      BY <1>1, <3>1, <3>2, StepsKeep
    <3>4. Cardinality(f[N]) <= N
      BY <1>5, FS_Subset
    <3> QED  BY <1>1, <3>3, <3>4 DEF S
  <2>2. ASSUME NEW k \in 1 .. N, f[k - 1] = f[k] PROVE F[f[N]] \subseteq f[N]
    <3> DEFINE S == {n \in 0 .. N : n >= k => f[n] = f[k]}
    <3>1. 0 \in S
      BY <1>1
    <3>2. ASSUME NEW n \in 1 .. N, n - 1 \in S PROVE n \in S
      <4>1. CASE n <= k
        BY <1>1, <4>1
      <4>2. CASE n > k
        <5>1. f[n - 1] = f[k] /\ n \in 0 .. N
          BY <1>1, <3>2, <4>2
        <5>2. f[n] = {a} \cup F[f[n - 1]] /\ f[k] = {a} \cup F[f[k - 1]]
          BY <1>2
        <5>3. f[n] = f[k]
          BY <2>2, <5>1, <5>2
        <5> QED  BY <5>1, <5>3
      <4> QED  BY <1>1, <4>1, <4>2
    <3> HIDE DEF S
    <3>3. \A n \in 0 .. N : n \in S
      BY <1>1, <3>1, <3>2, StepsKeep
    <3>4. f[N] = f[k]
      BY <1>1, <3>3 DEF S
    <3>5. f[k] = {a} \cup F[f[k]]
      BY <1>2, <2>2
    <3> QED  BY <3>4, <3>5
  <2> QED  BY <2>1, <2>2
<1>7. ASSUME NEW X \in SUBSET K, a \in X, F[X] \subseteq X PROVE f[N] \subseteq X
  <2> DEFINE S == {n \in 0 .. N : f[n] \subseteq X}
  <2>1. 0 \in S
    BY <1>1, <1>2, <1>7
  <2>2. ASSUME NEW n \in 1 .. N, n - 1 \in S PROVE n \in S
    <3>1. f[n - 1] \subseteq X /\ n \in 0 .. N /\ n - 1 \in 0 .. N
      BY <1>1, <2>2
    <3>2. f[n] = {a} \cup F[f[n - 1]]
      BY <1>2
    <3>3. F[f[n - 1]] \subseteq F[X]
      BY <1>3, <3>1 DEF Rises
    <3> QED  BY <1>7, <3>1, <3>2, <3>3
  <2> HIDE DEF S
  <2>3. \A n \in 0 .. N : n \in S
    BY <1>1, <2>1, <2>2, StepsKeep
  <2> QED  BY <1>1, <2>3 DEF S
<1> QED  BY <1>5, <1>6, <1>7 DEF IsLeast

StepsOn(K, N, a, F, g) ==
  g[0] = {a} /\ \A n \in 1 .. N : g[n - 1] \in SUBSET K => g[n] = {a} \cup F[g[n - 1]]

LEMMA StepsReach ==
  ASSUME NEW K, IsFiniteSet(K), NEW N, N = Cardinality(K), NEW a \in K,
         NEW F \in [SUBSET K -> SUBSET K], Rises(K, F), NEW g, StepsOn(K, N, a, F, g)
  PROVE  IsLeast(K, a, F, g[N])
<1>0. N \in Nat
  BY FS_CardinalityType
<1> DEFINE S == {n \in 0 .. N : g[n] \in SUBSET K}
<1>1. 0 \in S
  BY <1>0 DEF StepsOn
<1>2. ASSUME NEW n \in 1 .. N, n - 1 \in S PROVE n \in S
  BY <1>0, <1>2 DEF StepsOn
<1> HIDE DEF S
<1>3. \A n \in 0 .. N : n \in S
  BY <1>0, <1>1, <1>2, StepsKeep
<1> DEFINE f == [n \in 0 .. N |-> g[n]]
<1>4. \A n \in 0 .. N : g[n] \in SUBSET K /\ f[n] = g[n]
  BY <1>3 DEF S
<1>5. f \in [0 .. N -> SUBSET K]
  BY <1>4
<1> HIDE DEF f
<1>6. ASSUME NEW n \in 1 .. N PROVE f[n] = {a} \cup F[f[n - 1]]
  <2>1. n \in 0 .. N /\ n - 1 \in 0 .. N
    BY <1>0
  <2> QED  BY <1>4, <2>1 DEF StepsOn
<1>7. 0 \in 0 .. N /\ N \in 0 .. N
  BY <1>0
<1>8. Levels(N, a, F, f) /\ f[N] = g[N]
  BY <1>4, <1>6, <1>7 DEF Levels, StepsOn
<1> QED  BY <1>5, <1>8, LevelsEnd

Below(h, ks) == (UNION {Range(SubkeysOf(h, k)) : k \in ks}) \cap DOMAIN h.cell

\* The set ks has the root key, and with a key its subkeys.
Closed(h, ks) == RootCell \in ks /\ Below(h, ks) \subseteq ks

LEMMA KeysAreFinite ==
  ASSUME NEW t \in Trees
  PROVE  IsFiniteSet(KeysOf(t)) /\ Cardinality(KeysOf(t)) \in Nat
<1>1. KeysOf(t) \in SUBSET DOMAIN t
  BY DEF KeysOf, CellsOf
<1> QED  BY <1>1, TreeFacts, FS_Subset, FS_CardinalityType

LEMMA ReachedFacts ==
  ASSUME tree \in Trees, NEW h, Shaped(tree, h.cell)
  PROVE  /\ Reached(h) \subseteq KeysOf(tree) /\ Closed(h, Reached(h))
         /\ \A X : Closed(h, X) => Reached(h) \subseteq X
<1> DEFINE K == KeysOf(tree)
           N == Cardinality(KeysOf(tree))
           F == [x \in SUBSET K |-> Below(h, x)]
           Flat(g) == g = [n \in 0 .. N |->
                        {RootCell} \cup (IF n = 0 THEN {} ELSE Below(h, g[n - 1]))]
           within == CHOOSE g : Flat(g)
<1>1. IsFiniteSet(K) /\ N \in Nat /\ RootCell \in K
  BY KeysAreFinite, TreeFacts
<1>2. Reached(h) = within[N]
  BY DEF Reached, Below
<1>3. \A x : Below(h, x) \in SUBSET K
  BY SubkeysFacts, TreeFacts DEF Below
<1>4. \A x, y : x \subseteq y => Below(h, x) \subseteq Below(h, y)
  BY DEF Below
<1> HIDE DEF K, N
<1>5. F \in [SUBSET K -> SUBSET K] /\ \A x \in SUBSET K : F[x] = Below(h, x)
  BY <1>3
<1> HIDE DEF F
<1>6. Flat(within)
  <2>1. PICK f \in [0 .. N -> SUBSET K] : Levels(N, RootCell, F, f)
    BY <1>1, <1>5, LevelsExist
  <2>2. ASSUME NEW n \in 0 .. N
        PROVE  f[n] = {RootCell} \cup (IF n = 0 THEN {} ELSE Below(h, f[n - 1]))
    <3>1. CASE n = 0
      BY <2>1, <3>1 DEF Levels
    <3>2. CASE n # 0
      <4>1. n \in 1 .. N /\ n - 1 \in 0 .. N
        BY <1>1, <3>2
      <4>2. f[n] = {RootCell} \cup F[f[n - 1]]
        BY <2>1, <4>1 DEF Levels
      <4> QED  BY <1>5, <3>2, <4>1, <4>2
    <3> QED  BY <3>1, <3>2
  <2>3. f = [n \in 0 .. N |-> f[n]]
    OBVIOUS
  <2>4. Flat(f)
    BY <2>2, <2>3
  <2> QED  BY <2>4
<1> HIDE DEF within
<1>7. \A n \in 0 .. N : within[n] = {RootCell} \cup (IF n = 0 THEN {} ELSE Below(h, within[n - 1]))
  BY <1>6
<1>8. IsLeast(K, RootCell, F, within[N])
  <2>1. within[0] = {RootCell}
    <3>1. 0 \in 0 .. N
      BY <1>1
    <3>2. within[0] = {RootCell} \cup {}
      BY <1>7, <3>1
    <3> QED  BY <3>2
  <2>2. ASSUME NEW n \in 1 .. N, within[n - 1] \in SUBSET K
        PROVE  within[n] = {RootCell} \cup F[within[n - 1]]
    <3>1. n \in 0 .. N /\ n # 0
      BY <1>1
    <3> QED  BY <1>5, <1>7, <2>2, <3>1
  <2>3. StepsOn(K, N, RootCell, F, within) /\ Rises(K, F) /\ N = Cardinality(K)
    BY <1>4, <1>5, <2>1, <2>2 DEF StepsOn, Rises, N, K
  <2>4. IsFiniteSet(K) /\ RootCell \in K /\ F \in [SUBSET K -> SUBSET K]
    BY <1>1, <1>5
  <2> QED  BY ONLY <2>3, <2>4, StepsReach
<1>9. /\ within[N] \in SUBSET K /\ RootCell \in within[N] /\ F[within[N]] \subseteq within[N]
      /\ \A X \in SUBSET K : RootCell \in X /\ F[X] \subseteq X => within[N] \subseteq X
  BY <1>8 DEF IsLeast
<1>10. ASSUME NEW X, Closed(h, X) PROVE Reached(h) \subseteq X
  <2>1. X \cap K \in SUBSET K /\ RootCell \in X \cap K
    BY <1>1, <1>10 DEF Closed
  <2>2. F[X \cap K] \subseteq X \cap K
    <3>1. Below(h, X \cap K) \subseteq Below(h, X)
      BY <1>4
    <3> QED  BY <1>3, <1>5, <1>10, <2>1, <3>1 DEF Closed
  <2>3. within[N] \subseteq X \cap K
    BY <1>9, <2>1, <2>2
  <2> QED  BY <1>2, <2>3
<1> QED  BY <1>2, <1>5, <1>9, <1>10 DEF Closed, K

-----------------------------------------------------------------------------
(* The path from the root key to a key *)

LEMMA PathFacts ==
  ASSUME tree \in Trees, NEW c \in KeysOf(tree),
         \A k \in KeysOf(tree) \ {RootCell} : tree[k].Parent \in KeysOf(tree)
  PROVE  /\ PathTo(c) \subseteq KeysOf(tree) /\ c \in PathTo(c)
         /\ \A k \in PathTo(c) \ {RootCell} : tree[k].Parent \in PathTo(c)
<1> DEFINE K == KeysOf(tree)
           N == Cardinality(KeysOf(tree))
           Up(x) == {tree[k].Parent : k \in x \ {RootCell}}
           F == [x \in SUBSET K |-> Up(x)]
           Flat(g) == g = [n \in 0 .. N |-> {c} \cup (IF n = 0 THEN {} ELSE Up(g[n - 1]))]
           up == CHOOSE g : Flat(g)
<1>1. IsFiniteSet(K) /\ N \in Nat /\ c \in K
  BY KeysAreFinite
<1>2. PathTo(c) = up[N]
  BY DEF PathTo
<1>3. \A x \in SUBSET K : Up(x) \in SUBSET K
  OBVIOUS
<1>4. \A x, y : x \subseteq y => Up(x) \subseteq Up(y)
  OBVIOUS
<1>a. \A x : \A k \in x \ {RootCell} : tree[k].Parent \in Up(x)
  OBVIOUS
<1> HIDE DEF K, N, Up
<1>5. F \in [SUBSET K -> SUBSET K] /\ \A x \in SUBSET K : F[x] = Up(x)
  BY <1>3
<1> HIDE DEF F
<1>6. Flat(up)
  <2>1. PICK f \in [0 .. N -> SUBSET K] : Levels(N, c, F, f)
    BY <1>1, <1>5, LevelsExist
  <2>2. ASSUME NEW n \in 0 .. N
        PROVE  f[n] = {c} \cup (IF n = 0 THEN {} ELSE Up(f[n - 1]))
    <3>1. CASE n = 0
      BY <2>1, <3>1 DEF Levels
    <3>2. CASE n # 0
      <4>1. n \in 1 .. N /\ n - 1 \in 0 .. N
        BY <1>1, <3>2
      <4>2. f[n] = {c} \cup F[f[n - 1]]
        BY <2>1, <4>1 DEF Levels
      <4> QED  BY <1>5, <3>2, <4>1, <4>2
    <3> QED  BY <3>1, <3>2
  <2>3. f = [n \in 0 .. N |-> f[n]]
    OBVIOUS
  <2>4. Flat(f)
    BY <2>2, <2>3
  <2> QED  BY <2>4
<1> HIDE DEF up
<1>7. \A n \in 0 .. N : up[n] = {c} \cup (IF n = 0 THEN {} ELSE Up(up[n - 1]))
  BY <1>6
<1>8. IsLeast(K, c, F, up[N])
  <2>1. up[0] = {c}
    <3>1. 0 \in 0 .. N
      BY <1>1
    <3>2. up[0] = {c} \cup {}
      BY <1>7, <3>1
    <3> QED  BY <3>2
  <2>2. ASSUME NEW n \in 1 .. N, up[n - 1] \in SUBSET K
        PROVE  up[n] = {c} \cup F[up[n - 1]]
    <3>1. n \in 0 .. N /\ n # 0
      BY <1>1
    <3> QED  BY <1>5, <1>7, <2>2, <3>1
  <2>3. StepsOn(K, N, c, F, up) /\ Rises(K, F) /\ N = Cardinality(K)
    BY <1>4, <1>5, <2>1, <2>2 DEF StepsOn, Rises, N, K
  <2>4. IsFiniteSet(K) /\ c \in K /\ F \in [SUBSET K -> SUBSET K]
    BY <1>1, <1>5
  <2> QED  BY ONLY <2>3, <2>4, StepsReach
<1>9. /\ up[N] \in SUBSET K /\ c \in up[N] /\ F[up[N]] \subseteq up[N]
      /\ \A X \in SUBSET K : c \in X /\ F[X] \subseteq X => up[N] \subseteq X
  BY <1>8 DEF IsLeast
<1>10. Up(PathTo(c)) \subseteq PathTo(c)
  BY <1>2, <1>5, <1>9
<1> QED  BY <1>2, <1>9, <1>10, <1>a DEF K

-----------------------------------------------------------------------------
(* The invariant of the walk *)

\* What was in order in the cells of f is in order in h, of which no names and parents changed.
Untouched(t, f, h) ==
  \A c \in KeysOf(t) :
    /\ h.cell[c].Parent = f.cell[c].Parent
    /\ h.cell[c].Name = f.cell[c].Name /\ h.cell[c].Comp = f.cell[c].Comp
    /\ Valid(f, c) => Valid(h, c) /\ SubkeysOf(h, c) = SubkeysOf(f, c)

\* The cells hold what they may hold; a check that repairs nothing undoes nothing.
HiveInv ==
  /\ tree \in Trees /\ FixHive \in BOOLEAN /\ Well(tree, hive) /\ Shaped(tree, file.cell)
  /\ ~FixHive => Untouched(tree, file, hive)

\* The stack is that of a walk, before or after the validation of the key it is at.
StackInv ==
  /\ status \in {"called", "validate", "descend", "good", "bad"}
  /\ Len(WorkState) \in Nat /\ Len(WorkState) <= CMP_REGISTRY_MAX_LEVELS_TREE_DEPTH - 1
  /\ status = "validate" => \E fin : Walk(tree, hive, FixHive, WorkState, Len(WorkState) - 1, fin)
  /\ status = "descend" => \E fin : Walk(tree, hive, FixHive, WorkState, Len(WorkState), fin)

\* The inductive invariant.
WalkInv == HiveInv /\ StackInv /\ VerdictIsRight

LEMMA HiveKept ==
  ASSUME HiveInv, UNCHANGED <<tree, file, hive, flags>>
  PROVE  HiveInv' /\ FixHive' = FixHive
<1>1. FixHive' = FixHive
  BY DEF FixHive
<1>2. tree' = tree /\ file' = file /\ hive' = hive
  OBVIOUS
<1>3. Untouched(tree, file, hive)' = Untouched(tree, file, hive)
  BY <1>2 DEF Untouched, Valid, SignaturePart, ClassPart, ValuesPart, CountPart, SubkeysOf,
              ValueIsSound, HvIsCellAllocated, IndexIsBroken, IsLeaf, Entries, LeavesOf
<1> QED  BY <1>1, <1>2, <1>3 DEF HiveInv

\* The key that the walk is at is the root, or the subkey j of the key p that it was met below.
WalkAt(t, h, ws, fin, N) ==
  LET p == ws[N - 1].Current
      j == ws[N - 1].ChildCellIndex
  IN  /\ ws \in Seq(Frames(t)) /\ N \in Nat \ {0} /\ Last(ws) = ws[N]
      /\ ws[N].Current \in KeyOrOutside(t) /\ ws[N].Parent \in KeysOf(t) \cup {HCELL_NIL}
      /\ N = 1 => ws[N].Current = RootCell /\ ws[N].Parent = HCELL_NIL
      /\ N # 1 => /\ p \in Seen(fin, ws, N - 1) /\ p \in KeysOf(t) /\ Valid(h, p)
                  /\ SubkeysOf(h, p) \in Seq(KeyOrOutside(t)) /\ j \in 1 .. Len(SubkeysOf(h, p))
                  /\ ws[N].Current = SubkeysOf(h, p)[j] /\ ws[N].Parent = p
                  /\ j = 1 => ws[N - 1].Sibling = HCELL_NIL
                  /\ j # 1 => ws[N - 1].Sibling = SubkeysOf(h, p)[j - 1]

LEMMA WalkTop ==
  ASSUME NEW t \in Trees, NEW h, Well(t, h), NEW fix, NEW ws, NEW fin, NEW N, N = Len(ws),
         Walk(t, h, fix, ws, N - 1, fin)
  PROVE  WalkAt(t, h, ws, fin, N)
<1>1. ws \in Seq(Frames(t)) /\ N \in Nat \ {0} /\ Last(ws) = ws[N]
  BY DEF Walk, Last
<1>2. ws[1].Current = RootCell /\ ws[1].Parent = HCELL_NIL
  BY DEF Walk
<1>3. ws[N] \in Frames(t)
  BY <1>1
<1>4. CASE N # 1
  <2> DEFINE p == ws[N - 1].Current
             j == ws[N - 1].ChildCellIndex
  <2>1. N - 1 \in 1 .. N - 1 /\ N - 1 < N /\ N - 1 \in 1 .. N /\ N - 1 + 1 = N
    BY <1>1, <1>4
  <2>2. /\ Linked(t, h, fix, Seen(fin, ws, N - 1), ws, N - 1, N - 1)
        /\ FrameKept(t, h, fix, Seen(fin, ws, N - 1), fin, ws[N - 1], j - 1, j - 1)
    <3>1. /\ \A i \in 1 .. N - 1 : Linked(t, h, fix, Seen(fin, ws, N - 1), ws, i, N - 1)
          /\ \A i \in 1 .. N - 1 :
               FrameKept(t, h, fix, Seen(fin, ws, N - 1), fin, ws[i],
                 IF i < N THEN ws[i].ChildCellIndex - 1 ELSE ws[i].ChildCellIndex,
                 IF i = N - 1 /\ N - 1 < N THEN ws[i].ChildCellIndex - 1 ELSE ws[i].ChildCellIndex)
      BY DEF Walk
    <3> HIDE DEF j
    <3>2. FrameKept(t, h, fix, Seen(fin, ws, N - 1), fin, ws[N - 1],
                 IF N - 1 < N THEN ws[N - 1].ChildCellIndex - 1 ELSE ws[N - 1].ChildCellIndex,
                 IF N - 1 = N - 1 /\ N - 1 < N THEN ws[N - 1].ChildCellIndex - 1
                 ELSE ws[N - 1].ChildCellIndex)
      BY <2>1, <3>1
    <3>3. Linked(t, h, fix, Seen(fin, ws, N - 1), ws, N - 1, N - 1)
      BY <2>1, <3>1
    <3> QED  BY <2>1, <3>2, <3>3 DEF j
  <2>3. p \in Seen(fin, ws, N - 1)
    BY <2>1 DEF Seen
  <2>4. p \in KeysOf(t) /\ Valid(h, p) /\ j <= Len(SubkeysOf(h, p))
        /\ ws[N - 1].Sibling = IF j - 1 = 0 THEN HCELL_NIL ELSE SubkeysOf(h, p)[j - 1]
    BY <2>2 DEF FrameKept
  <2>5. j >= 1 /\ ws[N].Current = SubkeysOf(h, p)[j] /\ ws[N].Parent = p
    BY <2>1, <2>2 DEF Linked
  <2>6. SubkeysOf(h, p) \in Seq(KeyOrOutside(t))
    BY SubkeysFacts DEF Well
  <2>7. j \in Nat
    <3>1. ws[N - 1] \in Frames(t)
      BY <1>1, <2>1
    <3> QED  BY <3>1 DEF Frames
  <2>8. j \in 1 .. Len(SubkeysOf(h, p))
    BY <2>4, <2>5, <2>6, <2>7
  <2>9. /\ j = 1 => ws[N - 1].Sibling = HCELL_NIL
        /\ j # 1 => ws[N - 1].Sibling = SubkeysOf(h, p)[j - 1]
    BY <2>4, <2>7
  <2> QED  BY <1>1, <1>3, <1>4, <2>3, <2>4, <2>5, <2>6, <2>8, <2>9 DEF Frames, WalkAt
<1>5. CASE N = 1
  BY <1>1, <1>2, <1>3, <1>5 DEF Frames, WalkAt
<1> QED  BY <1>4, <1>5

\* The hive that is loaded, and the start of the check.
LEMMA InitWalk == Init => WalkInv
<1> SUFFICES ASSUME Init PROVE WalkInv
  OBVIOUS
<1>1. /\ tree \in Trees /\ Well(tree, hive) /\ hive.cell = file.cell
      /\ FixHive \in BOOLEAN /\ WorkState = << >> /\ status = "called"
  BY InitFits
<1>2. Shaped(tree, file.cell)
  BY <1>1 DEF Well
<1>3. Untouched(tree, file, hive)
  <2> SUFFICES ASSUME NEW c \in KeysOf(tree), Valid(file, c)
               PROVE  Valid(hive, c) /\ SubkeysOf(hive, c) = SubkeysOf(file, c)
    BY <1>1 DEF Untouched
  <2>1. SubkeysOf(hive, c) = SubkeysOf(file, c)
    BY <1>1, <1>2, SubkeysKept DEF Well, SameIndices
  <2>2. \A x : ValueIsSound(hive, x) <=> ValueIsSound(file, x)
    BY <1>1, <1>2, ValueKept DEF Well
  <2> QED  BY <1>1, <2>1, <2>2 DEF Valid, SignaturePart, ClassPart, ValuesPart, CountPart
<1>4. Len(WorkState) = 0 /\ 0 <= CMP_REGISTRY_MAX_LEVELS_TREE_DEPTH - 1
  BY <1>1, DepthAssumption
<1> QED  BY <1>1, <1>2, <1>3, <1>4 DEF WalkInv, HiveInv, StackInv, VerdictIsRight

\* The check starts the walk, or has found a bin whose cells have sizes that are not sane.
LEMMA CheckStarts == WalkInv /\ CmCheckRegistry => WalkInv'
<1> SUFFICES ASSUME WalkInv, CmCheckRegistry PROVE WalkInv'
  OBVIOUS
<1> DEFINE valid == "VALIDATE_HIVE" \in flags => HvValidateHive(file.bins)
<1>1. /\ status' = IF valid THEN "validate" ELSE "bad"
      /\ WorkState' = IF valid THEN AtRoot ELSE << >>
      /\ UNCHANGED <<tree, file, hive, flags>>
  BY DEF CmCheckRegistry
<1> HIDE DEF valid
<1>2. Walk(tree, hive, FixHive, AtRoot, 0, {})
  BY WalkStarts DEF WalkInv, HiveInv
<1>3. Len(AtRoot) = 1 /\ Len(<< >>) = 0 /\ 1 <= CMP_REGISTRY_MAX_LEVELS_TREE_DEPTH - 1
      /\ 0 <= CMP_REGISTRY_MAX_LEVELS_TREE_DEPTH - 1
  BY DepthAssumption DEF AtRoot
<1>4. FixHive' = FixHive
  BY <1>1, HiveKept DEF WalkInv
<1>5. VerdictIsRight'
  <2>1. valid => status' = "validate"
    BY <1>1
  <2>2. ~valid => file.bins # BlockList
    BY BlocksAssumption DEF valid
  <2>3. ~valid => status' = "bad"
    BY <1>1
  <2> QED  BY <1>1, <2>1, <2>2, <2>3 DEF VerdictIsRight
<1>6. StackInv'
  <2>1. CASE valid
    <3>1. status' = "validate" /\ WorkState' = AtRoot /\ Len(AtRoot) - 1 = 0
      BY <1>1, <1>3, <2>1
    <3>2. Walk(tree', hive', FixHive', WorkState', Len(WorkState') - 1, {})
      BY <1>1, <1>2, <1>4, <3>1
    <3>3. \E fin : Walk(tree', hive', FixHive', WorkState', Len(WorkState') - 1, fin)
      BY <3>2
    <3>4. Len(WorkState') = 1
      BY <1>3, <3>1
    <3>5. status' = "validate" => \E fin : Walk(tree, hive, FixHive, WorkState, Len(WorkState) - 1, fin)'
      BY <3>3
    <3>6. status' = "descend" => \E fin : Walk(tree, hive, FixHive, WorkState, Len(WorkState), fin)'
      BY <3>1
    <3>7. Len(WorkState') \in Nat /\ Len(WorkState') <= CMP_REGISTRY_MAX_LEVELS_TREE_DEPTH - 1
      BY <1>3, <3>4
    <3> QED  BY <3>1, <3>5, <3>6, <3>7 DEF StackInv
  <2>2. CASE ~valid
    BY <1>1, <1>3, <2>2 DEF StackInv
  <2> QED  BY <2>1, <2>2
<1>7. HiveInv'
  BY <1>1, HiveKept DEF WalkInv
<1> QED  BY <1>5, <1>6, <1>7 DEF WalkInv

-----------------------------------------------------------------------------
(* The steps of the walk *)

\* The two halves of a turn, apart from the hive.
LEMMA StackStep ==
  ASSUME status' \in {"validate", "descend", "good", "bad"},
         Len(WorkState') \in Nat, Len(WorkState') <= CMP_REGISTRY_MAX_LEVELS_TREE_DEPTH - 1,
         status' = "validate" => \E fin : Walk(tree, hive, FixHive, WorkState, Len(WorkState) - 1, fin)',
         status' = "descend" => \E fin : Walk(tree, hive, FixHive, WorkState, Len(WorkState), fin)'
  PROVE  StackInv'
  BY DEF StackInv

LEMMA LastAndFront ==
  ASSUME NEW S, NEW ws \in Seq(S), Len(ws) >= 1
  PROVE  /\ Last(ws) = ws[Len(ws)]
         /\ Front(ws) \in Seq(S) /\ Len(Front(ws)) = Len(ws) - 1
         /\ \A i \in 1 .. Len(ws) - 1 : Front(ws)[i] = ws[i]
<1>1. Last(ws) = ws[Len(ws)]
  BY DEF Last
<1>2. /\ Front(ws) \in Seq(S) /\ Len(Front(ws)) = Len(ws) - 1
      /\ \A i \in 1 .. Len(ws) - 1 : Front(ws)[i] = ws[i]
  <2>1. Front(ws) = SubSeq(ws, 1, Len(ws) - 1)
    BY DEF Front
  <2>2. 1 \in Int /\ Len(ws) - 1 \in Int /\ \A i \in 1 .. Len(ws) - 1 : ws[i] \in S
    OBVIOUS
  <2>3. /\ Front(ws) \in Seq(S)
        /\ Len(Front(ws)) = IF 1 <= Len(ws) - 1 THEN Len(ws) - 1 - 1 + 1 ELSE 0
        /\ \A i \in 1 .. Len(ws) - 1 - 1 + 1 : Front(ws)[i] = ws[1 + i - 1]
    BY <2>1, <2>2, SubSeqProperties
  <2> DEFINE N == Len(ws)
  <2>4. N \in Nat /\ N >= 1
    OBVIOUS
  <2> HIDE DEF N
  <2>5. N - 1 - 1 + 1 = N - 1 /\ (IF 1 <= N - 1 THEN N - 1 - 1 + 1 ELSE 0) = N - 1
        /\ \A i \in 1 .. N - 1 : 1 + i - 1 = i
    BY <2>4
  <2>6. Len(Front(ws)) = N - 1
    BY <2>3, <2>5 DEF N
  <2>7. \A i \in 1 .. N - 1 : Front(ws)[i] = ws[i]
    <3>1. \A i \in 1 .. N - 1 - 1 + 1 : Front(ws)[i] = ws[1 + i - 1]
      BY <2>3 DEF N
    <3> QED  BY <2>5, <3>1
  <2> QED  BY <2>3, <2>6, <2>7 DEF N
<1> QED  BY <1>1, <1>2

LEMMA DescendKeeps == WalkInv /\ Descend => WalkInv'
<1> SUFFICES ASSUME WalkInv, Descend PROVE WalkInv'
  OBVIOUS
<1> DEFINE N == Len(WorkState)
           ws2 == Append([WorkState EXCEPT ![Len(WorkState)].ChildCellIndex = @ + 1],
                         Frame(CmpFindSubKeyByNumber(hive, Top.Current, Top.ChildCellIndex), Top.Current))
<1>1. /\ status = "descend" /\ HasMore /\ UNCHANGED <<tree, file, hive, flags>>
      /\ IF TooDeep THEN status' = "bad" /\ UNCHANGED WorkState
         ELSE WorkState' = ws2 /\ status' = "validate"
  BY DEF Descend
<1>2. tree \in Trees /\ Well(tree, hive) /\ HiveInv /\ N \in Nat /\ N <= CMP_REGISTRY_MAX_LEVELS_TREE_DEPTH - 1
  BY DEF WalkInv, HiveInv, StackInv
<1>3. HiveInv' /\ FixHive' = FixHive
  BY <1>1, <1>2, HiveKept
<1>4. CASE TooDeep
  <2>1. status' = "bad" /\ WorkState' = WorkState /\ TooDeep'
    BY <1>1, <1>4 DEF TooDeep, StackDepth
  <2>2. StackInv'
    BY <1>2, <2>1, StackStep
  <2> QED  BY <1>3, <2>1, <2>2 DEF WalkInv, VerdictIsRight
<1>5. CASE ~TooDeep
  <2>1. PICK fin : Walk(tree, hive, FixHive, WorkState, N, fin)
    BY <1>1 DEF WalkInv, StackInv
  <2>2. WorkState \in Seq(Frames(tree)) /\ N >= 1
    BY <2>1 DEF Walk
  <2>3. Top = WorkState[N] /\ WorkState[N] \in Frames(tree)
    <3>1. WorkState[N] \in Frames(tree)
      BY <1>2, <2>2
    <3> QED  BY <3>1 DEF Top, Last
  <2>4. WorkState[N].Current \in KeysOf(tree) /\ Valid(hive, WorkState[N].Current)
    <3>1. FrameKept(tree, hive, FixHive, Seen(fin, WorkState, N), fin, WorkState[N],
             IF N < Len(WorkState) THEN WorkState[N].ChildCellIndex - 1 ELSE WorkState[N].ChildCellIndex,
             IF N = N /\ N < Len(WorkState) THEN WorkState[N].ChildCellIndex - 1
             ELSE WorkState[N].ChildCellIndex)
      BY <2>1, <2>2, <1>2 DEF Walk
    <3> QED  BY <3>1 DEF FrameKept
  <2> DEFINE p == WorkState[N].Current
             j == WorkState[N].ChildCellIndex
             below == Frame(CmpFindSubKeyByNumber(hive, p, j), p)
  <2>5. j < hive.cell[p].SubKeyCount /\ j \in Nat
    BY <1>1, <2>3 DEF HasMore, Frames
  <2>6. below \in Frames(tree)
    <3>1. /\ SubkeysOf(hive, p) \in Seq(KeyOrOutside(tree))
          /\ hive.cell[p].SubKeyCount = Len(SubkeysOf(hive, p))
          /\ SubkeysOf(hive, p) = Entries(hive, hive.cell[hive.cell[p].SubKeyList])
      BY <1>2, <2>4, <2>5, CountIs, KeyFacts
    <3>2. CmpFindSubKeyByNumber(hive, p, j) = SubkeysOf(hive, p)[j + 1]
      BY <3>1 DEF CmpFindSubKeyByNumber
    <3>3. CmpFindSubKeyByNumber(hive, p, j) \in KeyOrOutside(tree)
      BY <2>5, <3>1, <3>2
    <3> QED  BY <2>4, <3>3 DEF Frame, Frames
  <2> DEFINE turned == [WorkState[N] EXCEPT !.ChildCellIndex = j + 1]
             ws1 == [WorkState EXCEPT ![N] = turned]
  <2>7. turned \in Frames(tree)
    BY <2>3, <2>5 DEF Frames
  <2>8. /\ turned.ChildCellIndex = j + 1 /\ turned.Current = WorkState[N].Current
        /\ turned.Parent = WorkState[N].Parent /\ turned.Sibling = WorkState[N].Sibling
    BY <2>3 DEF Frames
  <2>9. ws2 = Append(ws1, below)
    BY <2>3
  <2> HIDE DEF turned, below, ws2
  <2>10. ws1 \in Seq(Frames(tree)) /\ Len(ws1) = N /\ ws1[N] = turned
         /\ \A i \in 1 .. N : i # N => ws1[i] = WorkState[i]
    BY <1>2, <2>2, <2>7
  <2> HIDE DEF ws1
  <2>11. /\ ws2 \in Seq(Frames(tree)) /\ Len(ws2) = N + 1 /\ ws2[N + 1] = below
         /\ \A i \in 1 .. N : ws2[i] = ws1[i]
    BY <1>2, <2>6, <2>9, <2>10
  <2>12. N + 1 <= CMP_REGISTRY_MAX_LEVELS_TREE_DEPTH - 1
    BY <1>2, <1>5, DepthAssumption DEF TooDeep, StackDepth
  <2>13. \A i \in 1 .. N :
           /\ ws2[i].Current = WorkState[i].Current /\ ws2[i].Parent = WorkState[i].Parent
           /\ ws2[i].Sibling = WorkState[i].Sibling
           /\ i # N => ws2[i].ChildCellIndex = WorkState[i].ChildCellIndex
    <3> HIDE DEF N
    <3> QED  BY <2>8, <2>10, <2>11
  <2>14. ws2[N].ChildCellIndex = WorkState[N].ChildCellIndex + 1
    BY <1>2, <2>2, <2>8, <2>10, <2>11
  <2>15. Walk(tree, hive, FixHive, ws2, N, fin)
    <3>1. N = Len(WorkState) /\ ws2[N + 1] = Frame(CmpFindSubKeyByNumber(hive, p, j), p)
      BY <2>11 DEF below
    <3> HIDE DEF N
    <3> QED  BY <1>2, <2>1, <2>5, <2>11, <2>12, <2>13, <2>14, <3>1, WalkDescends
  <2>16. status' = "validate" /\ WorkState' = ws2
    BY <1>1, <1>5
  <2>17. \E f : Walk(tree, hive, FixHive, WorkState, Len(WorkState) - 1, f)'
    <3>1. Len(ws2) - 1 = N
      BY <1>2, <2>11
    <3>2. Walk(tree', hive', FixHive', WorkState', Len(WorkState') - 1, fin)
      BY <1>1, <1>3, <2>15, <2>16, <3>1
    <3> QED  BY <3>2
  <2>18. Len(WorkState') \in Nat /\ Len(WorkState') <= CMP_REGISTRY_MAX_LEVELS_TREE_DEPTH - 1
    BY <1>2, <2>11, <2>12, <2>16
  <2>19. StackInv'
    BY <2>16, <2>17, <2>18, StackStep
  <2>20. VerdictIsRight'
    BY <2>16 DEF VerdictIsRight
  <2> QED  BY <1>3, <2>19, <2>20 DEF WalkInv
<1> QED  BY <1>4, <1>5

(***************************************************************************)
(* A walk that ends has met the keys that can be reached and no others.    *)
(***************************************************************************)
LEMMA AllReached ==
  ASSUME tree \in Trees, NEW h, Well(tree, h), NEW all, all \subseteq KeysOf(tree), RootCell \in all,
         \A k \in all : Range(SubkeysOf(h, k)) \subseteq all, LeastSeen(tree, h, all)
  PROVE  Reached(h) = all
<1>1. /\ Reached(h) \subseteq KeysOf(tree) /\ Closed(h, Reached(h))
      /\ \A X : Closed(h, X) => Reached(h) \subseteq X
  BY ReachedFacts DEF Well
<1>2. Closed(h, all)
  BY DEF Closed, Below
<1>3. all \subseteq Reached(h)
  <2>1. KeysOf(tree) \subseteq DOMAIN h.cell
    BY DEF Well, Shaped, KeysOf, CellsOf
  <2>2. \A k \in Reached(h) : Range(SubkeysOf(h, k)) \cap KeysOf(tree) \subseteq Reached(h)
    BY <1>1, <2>1 DEF Closed, Below
  <2> QED  BY <1>1, <2>2 DEF LeastSeen, Closed
<1> QED  BY <1>1, <1>2, <1>3

\* The walk found every key sound, but for the parents of keys that two keys have as a subkey.
LEMMA SoundAtLast ==
  ASSUME tree \in Trees, NEW h, Well(tree, h), NEW fix, NEW all, all \subseteq KeysOf(tree),
         RootCell \in all, \A k \in all : Range(SubkeysOf(h, k)) \subseteq all \ {RootCell},
         KeysDone(tree, h, fix, all, all), LeastSeen(tree, h, all)
  PROVE  Sound(h) \/ (fix /\ KeyIsShared(h))
<1>1. Reached(h) = all
  BY AllReached
<1> SUFFICES ASSUME ~(fix /\ KeyIsShared(h)) PROVE Sound(h)
  OBVIOUS
<1>2. ASSUME NEW k \in all PROVE KeyIsSound(h, k)
  <2> DEFINE s == SubkeysOf(h, k)
  <2>1. Valid(h, k) /\ ChildrenDone(tree, h, fix, all, all, k, Len(s))
    BY DEF KeysDone
  <2>2. s \in Seq(KeyOrOutside(tree)) /\ DOMAIN s = 1 .. Len(s)
    BY SubkeysFacts DEF Well
  <2>3. ASSUME NEW i \in DOMAIN s
        PROVE  /\ s[i] \in DOMAIN h.cell /\ h.cell[s[i]].Parent = k
               /\ i > 1 => \/ h.cell[s[i]].Comp /\ h.cell[s[i - 1]].Comp
                           \/ h.cell[s[i - 1]].Name < h.cell[s[i]].Name
    <3>1. ChildKept(tree, h, fix, all, k, i)
      BY <2>1, <2>2 DEF ChildrenDone
    <3>2. /\ s[i] \in KeysOf(tree) /\ ParentKept(h, fix, all, k, s[i])
          /\ i > 1 => CmpValidateLexicalOrder(h, s[i], s[i - 1])
      BY <3>1 DEF ChildKept
    <3>3. s[i] \in DOMAIN h.cell
      BY <3>2 DEF Well, Shaped, KeysOf, CellsOf
    <3>4. h.cell[s[i]].Parent = k
      <4> SUFFICES ASSUME fix, NEW q \in all \ {k}, s[i] \in Range(SubkeysOf(h, q)) PROVE FALSE
        BY <3>2 DEF ParentKept
      <4>1. s[i] \in Range(s)
        BY <2>2 DEF Range
      <4>2. KeyIsShared(h)
        BY <1>1, <4>1 DEF KeyIsShared
      <4> QED  BY <4>2
    <3>5. i > 1 => \/ h.cell[s[i]].Comp /\ h.cell[s[i - 1]].Comp
                   \/ h.cell[s[i - 1]].Name < h.cell[s[i]].Name
      BY <3>2 DEF CmpValidateLexicalOrder
    <3> QED  BY <3>3, <3>4, <3>5
  <2> HIDE DEF s
  <2>4. h.cell[k].SubKeyCount = Len(s)
    BY <2>1 DEF Valid, CountPart, s
  <2> QED  BY <2>1, <2>3, <2>4 DEF KeyIsSound, Valid, SignaturePart, ClassPart, ValuesPart, s
<1>3. \A k \in all : RootCell \notin Range(SubkeysOf(h, k))
  OBVIOUS
<1> QED  BY <1>1, <1>2, <1>3 DEF Sound

LEMMA ReturnKeeps == WalkInv /\ Return => WalkInv'
<1> SUFFICES ASSUME WalkInv, Return PROVE WalkInv'
  OBVIOUS
<1> DEFINE N == Len(WorkState)
<1>1. /\ status = "descend" /\ ~HasMore /\ UNCHANGED <<tree, file, hive, flags>>
      /\ WorkState' = Front(WorkState)
      /\ status' = IF StackDepth = 0 THEN "good" ELSE "descend"
  BY DEF Return
<1>2. tree \in Trees /\ Well(tree, hive) /\ HiveInv /\ N \in Nat /\ N <= CMP_REGISTRY_MAX_LEVELS_TREE_DEPTH - 1
  BY DEF WalkInv, HiveInv, StackInv
<1>3. HiveInv' /\ FixHive' = FixHive
  BY <1>1, <1>2, HiveKept
<1>4. PICK fin : Walk(tree, hive, FixHive, WorkState, N, fin)
  BY <1>1 DEF WalkInv, StackInv
<1>5. WorkState \in Seq(Frames(tree)) /\ N >= 1
  BY <1>4 DEF Walk
<1>6. /\ Top = WorkState[N] /\ WorkState' \in Seq(Frames(tree)) /\ Len(WorkState') = N - 1
      /\ \A i \in 1 .. N - 1 : WorkState'[i] = WorkState[i]
  BY <1>1, <1>2, <1>5, LastAndFront DEF Top
<1>7. ~(WorkState[N].ChildCellIndex < hive.cell[WorkState[N].Current].SubKeyCount)
  BY <1>1, <1>6 DEF HasMore
<1>8. Len(WorkState') \in Nat /\ Len(WorkState') <= CMP_REGISTRY_MAX_LEVELS_TREE_DEPTH - 1
  BY <1>2, <1>5, <1>6, DepthAssumption
<1>9. CASE N = 1
  <2>1. status' = "good"
    BY <1>1, <1>9 DEF StackDepth
  <2>2. StackInv'
    BY <1>8, <2>1, StackStep
  <2> DEFINE all == fin \cup {RootCell}
  <2>3. /\ all \subseteq KeysOf(tree)
        /\ \A k \in all : Range(SubkeysOf(hive, k)) \subseteq all \ {RootCell}
        /\ KeysDone(tree, hive, FixHive, all, all) /\ LeastSeen(tree, hive, all)
    <3>1. Len(WorkState) = 1 /\ Walk(tree, hive, FixHive, WorkState, 1, fin)
          /\ ~(WorkState[1].ChildCellIndex < hive.cell[WorkState[1].Current].SubKeyCount)
      BY <1>4, <1>7, <1>9
    <3> QED  BY <1>2, <3>1, WalkEnds
  <2>4. RootCell \in all
    OBVIOUS
  <2> HIDE DEF all
  <2>5. Sound(hive) \/ (FixHive /\ KeyIsShared(hive))
    BY <1>2, <2>3, <2>4, SoundAtLast
  <2>6. (Sound(hive) \/ (FixHive /\ KeyIsShared(hive)))'
    <3>1. hive' = hive /\ tree' = tree
      BY <1>1
    <3>2. Reached(hive)' = Reached(hive)
      BY <3>1 DEF Reached
    <3>3. Sound(hive)' = Sound(hive) /\ KeyIsShared(hive)' = KeyIsShared(hive)
      BY <3>1, <3>2 DEF Sound, KeyIsShared
    <3> QED  BY <1>3, <2>5, <3>3
  <2>7. VerdictIsRight'
    BY <2>1, <2>6 DEF VerdictIsRight
  <2> QED  BY <1>3, <2>2, <2>7 DEF WalkInv
<1>10. CASE N # 1
  <2>1. status' = "descend" /\ N > 1
    BY <1>1, <1>2, <1>5, <1>10 DEF StackDepth
  <2>2. Walk(tree, hive, FixHive, WorkState', N - 1, fin \cup {WorkState[N].Current})
    <3>1. N = Len(WorkState)
      OBVIOUS
    <3> HIDE DEF N
    <3> QED  BY <1>2, <1>4, <1>6, <1>7, <2>1, <3>1, WalkReturns
  <2>3. \E f : Walk(tree, hive, FixHive, WorkState, Len(WorkState), f)'
    <3>1. Walk(tree', hive', FixHive', WorkState', Len(WorkState'), fin \cup {WorkState[N].Current})
      BY <1>1, <1>3, <1>6, <2>2
    <3> QED  BY <3>1
  <2>4. StackInv'
    BY <1>8, <2>1, <2>3, StackStep
  <2>5. VerdictIsRight'
    BY <2>1 DEF VerdictIsRight
  <2> QED  BY <1>3, <2>4, <2>5 DEF WalkInv
<1> QED  BY <1>9, <1>10

-----------------------------------------------------------------------------
(* The validation of a key, and what it has for a verdict *)

LEMMA StaysUntouched ==
  ASSUME NEW t \in Trees, NEW f, NEW h, Well(t, h), Untouched(t, f, h), NEW c \in KeysOf(t), NEW q,
         NEW g, Touches(t, h, g, c, q), g.cell[c].Parent = h.cell[c].Parent
  PROVE  Untouched(t, f, g)
<1>1. /\ \A k \in KeysOf(t) : /\ g.cell[k].Name = h.cell[k].Name /\ g.cell[k].Comp = h.cell[k].Comp
                              /\ k # c => g.cell[k].Parent = h.cell[k].Parent
      /\ \A k \in KeysOf(t) : Valid(h, k) => Valid(g, k) /\ SubkeysOf(g, k) = SubkeysOf(h, k)
  BY TouchesFacts
<1> QED  BY <1>1 DEF Untouched

LEMMA SoundIsValid ==
  ASSUME NEW h, NEW c, KeyIsSound(h, c)
  PROVE  Valid(h, c)
  BY DEF KeyIsSound, Valid, SignaturePart, ClassPart, ValuesPart, CountPart

(***************************************************************************)
(* In a sound hive the walk, repairing nothing, is at a key that is the    *)
(* root or a subkey of a sound key, and finds it good and in order.        *)
(***************************************************************************)
LEMMA SoundIsAccepted ==
  ASSUME tree \in Trees, Shaped(tree, file.cell), Sound(file),
         NEW h, Well(tree, h), Untouched(tree, file, h),
         NEW ws, NEW fin, NEW N, N = Len(ws), Walk(tree, h, FALSE, ws, N - 1, fin),
         NEW fix \in BOOLEAN, ~fix, NEW v \in CmpValidateKey(h, ws[N].Parent, ws[N].Current, fix)
  PROVE  /\ v.good
         /\ \/ N = 1 \/ ws[N - 1].Sibling = HCELL_NIL
            \/ CmpValidateLexicalOrder(v.hive, ws[N].Current, ws[N - 1].Sibling)
<1> DEFINE c == ws[N].Current
           q == ws[N].Parent
           p == ws[N - 1].Current
           j == ws[N - 1].ChildCellIndex
<1>1. /\ N \in Nat \ {0} /\ c \in KeyOrOutside(tree) /\ q \in KeysOf(tree) \cup {HCELL_NIL}
      /\ N = 1 => c = RootCell /\ q = HCELL_NIL
      /\ N # 1 => /\ p \in Seen(fin, ws, N - 1) /\ p \in KeysOf(tree) /\ Valid(h, p)
                  /\ SubkeysOf(h, p) \in Seq(KeyOrOutside(tree)) /\ j \in 1 .. Len(SubkeysOf(h, p))
                  /\ c = SubkeysOf(h, p)[j] /\ q = p
                  /\ j = 1 => ws[N - 1].Sibling = HCELL_NIL
                  /\ j # 1 => ws[N - 1].Sibling = SubkeysOf(h, p)[j - 1]
  <2>1. WalkAt(tree, h, ws, fin, N)
    BY WalkTop
  <2> QED  BY <2>1 DEF WalkAt
<1>2. /\ Reached(file) \subseteq KeysOf(tree) /\ RootCell \in Reached(file)
      /\ Below(file, Reached(file)) \subseteq Reached(file)
  BY ReachedFacts DEF Closed
<1>3. \A k \in Reached(file) : /\ KeyIsSound(file, k) /\ Valid(h, k)
                               /\ SubkeysOf(h, k) = SubkeysOf(file, k)
  BY <1>2, SoundIsValid DEF Sound, Untouched
<1>4. DOMAIN file.cell = DOMAIN tree /\ KeysOf(tree) \subseteq DOMAIN tree
  BY DEF Shaped, KeysOf, CellsOf
<1>5. Seen(fin, ws, N - 1) \subseteq Reached(file)
  <2>1. LeastSeen(tree, h, Seen(fin, ws, N - 1))
    BY DEF Walk
  <2>2. \A k \in Reached(file) : Range(SubkeysOf(h, k)) \cap KeysOf(tree) \subseteq Reached(file)
    BY <1>2, <1>3, <1>4 DEF Below
  <2> QED  BY <1>2, <2>1, <2>2 DEF LeastSeen
<1> HIDE DEF c, q, p, j
<1>6. CASE N = 1
  <2>1. c \in KeysOf(tree) /\ Valid(h, c) /\ q = HCELL_NIL
    BY <1>1, <1>2, <1>3, <1>6
  <2>2. v \in CmpValidateKey(h, q, c, fix)
    BY DEF c, q
  <2>3. v.good
    BY <1>1, <2>1, <2>2, KeyValidates
  <2> QED  BY <1>6, <2>3
<1>7. CASE N # 1
  <2> DEFINE s == SubkeysOf(file, p)
  <2>1. /\ p \in Reached(file) /\ KeyIsSound(file, p) /\ s = SubkeysOf(h, p)
        /\ s \in Seq(KeyOrOutside(tree)) /\ j \in 1 .. Len(s) /\ DOMAIN s = 1 .. Len(s) /\ c = s[j] /\ q = p
    BY <1>1, <1>3, <1>5, <1>7
  <2>2. \A i \in DOMAIN s :
          /\ s[i] \in DOMAIN file.cell /\ file.cell[s[i]].Parent = p
          /\ i > 1 => \/ file.cell[s[i]].Comp /\ file.cell[s[i - 1]].Comp
                      \/ file.cell[s[i - 1]].Name < file.cell[s[i]].Name
    BY <2>1 DEF KeyIsSound
  <2> HIDE DEF s
  <2>3. \A i \in 1 .. Len(s) : s[i] \in Reached(file)
    <3> SUFFICES ASSUME NEW i \in 1 .. Len(s) PROVE s[i] \in Reached(file)
      OBVIOUS
    <3>1. s[i] \in Range(s) /\ s[i] \in DOMAIN file.cell
      BY <2>1, <2>2 DEF Range
    <3> QED  BY <1>2, <2>1, <3>1 DEF Below, s
  <2>4. c \in KeysOf(tree) /\ Valid(h, c) /\ file.cell[c].Parent = p
    BY <1>2, <1>3, <2>1, <2>2, <2>3
  <2>5. h.cell[c].Parent = p
    BY <2>4 DEF Untouched
  <2>6. v.good /\ Touches(tree, h, v.hive, c, q)
    <3>1. v \in CmpValidateKey(h, q, c, fix)
      BY DEF c, q
    <3> QED  BY <1>1, <2>1, <2>4, <2>5, <3>1, KeyValidates
  <2>7. CASE j = 1
    BY <1>1, <1>7, <2>6, <2>7
  <2>8. CASE j # 1
    <3>1. j > 1 /\ j - 1 \in 1 .. Len(s) /\ j - 1 # 0 /\ j \in DOMAIN s
      BY <2>1, <2>8
    <3>2. ws[N - 1].Sibling = s[j - 1]
      BY <1>1, <1>7, <2>1, <3>1
    <3>3. \/ file.cell[c].Comp /\ file.cell[s[j - 1]].Comp
          \/ file.cell[s[j - 1]].Name < file.cell[c].Name
      BY <2>1, <2>2, <3>1
    <3>4. s[j - 1] \in KeysOf(tree)
      BY <1>2, <2>3, <3>1
    <3>5. \A k \in KeysOf(tree) :
            v.hive.cell[k].Name = file.cell[k].Name /\ v.hive.cell[k].Comp = file.cell[k].Comp
      <4>1. \A k \in KeysOf(tree) :
              v.hive.cell[k].Name = h.cell[k].Name /\ v.hive.cell[k].Comp = h.cell[k].Comp
        BY <2>4, <2>6, TouchesFacts
      <4> QED  BY <4>1 DEF Untouched
    <3>6. CmpValidateLexicalOrder(v.hive, c, s[j - 1])
      BY <2>4, <3>3, <3>4, <3>5 DEF CmpValidateLexicalOrder
    <3> QED  BY <2>6, <3>2, <3>6 DEF c
  <2> QED  BY <2>7, <2>8
<1> QED  BY <1>6, <1>7

\* The walk goes on below the key that was found good.
LEMMA GoodKeeps ==
  ASSUME WalkInv, Validate, NEW N, N = Len(WorkState),
         NEW fin, Walk(tree, hive, FixHive, WorkState, N - 1, fin),
         NEW v \in CmpValidateKey(hive, WorkState[N].Parent, WorkState[N].Current, FixHive),
         v.good, InOrder(v.hive), hive' = v.hive, status' = "descend",
         WorkState' = SiblingSet(WorkState, WorkState[N].Current)
  PROVE  StackInv'
<1> DEFINE c == WorkState[N].Current
           q == WorkState[N].Parent
<1>1. /\ tree \in Trees /\ Well(tree, hive) /\ FixHive \in BOOLEAN
      /\ N \in Nat /\ N <= CMP_REGISTRY_MAX_LEVELS_TREE_DEPTH - 1
  BY DEF WalkInv, HiveInv, StackInv
<1>2. /\ N \in Nat \ {0} /\ Last(WorkState) = WorkState[N]
      /\ c \in KeyOrOutside(tree) /\ q \in KeysOf(tree) \cup {HCELL_NIL}
  <2>1. WalkAt(tree, hive, WorkState, fin, N)
    BY <1>1, WalkTop
  <2> QED  BY <2>1 DEF WalkAt
<1>3. tree' = tree /\ FixHive' = FixHive
  BY DEF Validate, FixHive
<1> HIDE DEF c, q
<1>4. v \in CmpValidateKey(hive, q, c, FixHive)
  BY DEF c, q
<1>5. /\ c \in KeysOf(tree) /\ Touches(tree, hive, v.hive, c, q)
      /\ ~FixHive \/ q = HCELL_NIL => v.hive.cell[c].Parent = hive.cell[c].Parent
      /\ Valid(v.hive, c) /\ q \in {HCELL_NIL, v.hive.cell[c].Parent}
  BY <1>1, <1>2, <1>4, KeyValidates
<1>6. Well(tree, v.hive)
  BY <1>5 DEF Touches
<1>7. c = WorkState[Len(WorkState)].Current /\ q = WorkState[Len(WorkState)].Parent
  BY DEF c, q
<1>8. Walk(tree, v.hive, FixHive, WorkState, Len(WorkState) - 1, fin)
  BY <1>1, <1>5, <1>7, WalkTouched
<1>9. \/ Len(WorkState) = 1 \/ WorkState[Len(WorkState) - 1].Sibling = HCELL_NIL
      \/ CmpValidateLexicalOrder(v.hive, c, WorkState[Len(WorkState) - 1].Sibling)
  <2>1. StackDepth = Len(WorkState) - 1 /\ Top.Current = c
    BY <1>2 DEF StackDepth, Top, c
  <2> QED  BY <1>2, <2>1 DEF InOrder
<1>10. WorkState' = SiblingSet(WorkState, c)
  BY DEF c
<1>11. Len(WorkState') = Len(WorkState) /\ Walk(tree, v.hive, FixHive, WorkState', Len(WorkState'), fin)
  <2>1. WorkState[Len(WorkState)].Parent \in {HCELL_NIL, v.hive.cell[c].Parent}
    BY <1>5, <1>7
  <2>2. tree \in Trees /\ c \in KeysOf(tree) /\ c = WorkState[Len(WorkState)].Current /\ Valid(v.hive, c)
    BY <1>1, <1>5, <1>7
  <2> DEFINE ws2 == SiblingSet(WorkState, c)
  <2>3. ws2 = SiblingSet(WorkState, c)
    OBVIOUS
  <2> HIDE DEF ws2
  <2>4. Len(ws2) = Len(WorkState) /\ Walk(tree, v.hive, FixHive, ws2, Len(ws2), fin)
    BY ONLY <1>6, <1>8, <1>9, <2>1, <2>2, <2>3, WalkValidated
  <2> QED  BY <1>10, <2>3, <2>4
<1>12. \E f : Walk(tree, hive, FixHive, WorkState, Len(WorkState), f)'
  <2>1. Walk(tree', hive', FixHive', WorkState', Len(WorkState'), fin)
    BY <1>3, <1>11
  <2> QED  BY <2>1
<1> QED  BY <1>1, <1>11, <1>12, StackStep

\* The walk starts again after the key was taken out of its parent.
LEMMA RemovalKeeps ==
  ASSUME WalkInv, Validate, NEW N, N = Len(WorkState),
         NEW fin, Walk(tree, hive, FixHive, WorkState, N - 1, fin),
         NEW v \in CmpValidateKey(hive, WorkState[N].Parent, WorkState[N].Current, FixHive),
         ~(v.good /\ InOrder(v.hive)), Removable(v), Removes(v.hive)
  PROVE  Well(tree, hive') /\ StackInv'
<1> DEFINE c == WorkState[N].Current
           q == WorkState[N].Parent
           p == WorkState[N - 1].Current
           j == WorkState[N - 1].ChildCellIndex
<1>1. tree \in Trees /\ Well(tree, hive) /\ FixHive \in BOOLEAN
  BY DEF WalkInv, HiveInv
<1>2. /\ N \in Nat \ {0} /\ Last(WorkState) = WorkState[N]
      /\ c \in KeyOrOutside(tree) /\ q \in KeysOf(tree) \cup {HCELL_NIL}
      /\ N = 1 => c = RootCell
      /\ N # 1 => /\ p \in KeysOf(tree) /\ Valid(hive, p)
                  /\ SubkeysOf(hive, p) \in Seq(KeyOrOutside(tree)) /\ j \in 1 .. Len(SubkeysOf(hive, p))
                  /\ c = SubkeysOf(hive, p)[j] /\ q = p
  <2>1. WalkAt(tree, hive, WorkState, fin, N)
    BY <1>1, WalkTop
  <2> QED  BY <2>1 DEF WalkAt
<1>3. tree' = tree /\ FixHive' = FixHive
  BY DEF Validate, FixHive
<1> HIDE DEF c, q, p, j
<1>4. Top.Current = c /\ Top.Parent = q /\ StackDepth = N - 1
  BY <1>2 DEF Top, StackDepth, c, q
<1>5. N # 1
  <2> SUFFICES ASSUME N = 1 PROVE FALSE
    OBVIOUS
  <2>1. InOrder(v.hive)
    BY <1>4 DEF InOrder
  <2> QED  BY <1>2, <1>4, <2>1 DEF Removable
<1>6. v \in CmpValidateKey(hive, q, c, FixHive)
  BY DEF c, q
<1>7. Well(tree, v.hive) /\ SubkeysOf(v.hive, p) = SubkeysOf(hive, p)
  <2>1. CASE c \in KeysOf(tree)
    <3>1. Touches(tree, hive, v.hive, c, q)
      BY <1>1, <1>2, <1>6, <2>1, KeyValidates
    <3>2. SubkeysOf(v.hive, p) = SubkeysOf(hive, p)
      BY <1>1, <1>2, <1>5, <2>1, <3>1, TouchesFacts
    <3> QED  BY <3>1, <3>2 DEF Touches
  <2>2. CASE c \notin KeysOf(tree)
    BY <1>1, <1>2, <1>6, <2>2, KeyValidates
  <2> QED  BY <2>1, <2>2
<1>8. c \in Range(SubkeysOf(v.hive, p))
  BY <1>2, <1>5, <1>7 DEF Range
<1>9. hive' = CmpRepairParentKey(v.hive, c, p) /\ WorkState' = AtRoot /\ status' = "validate"
  BY <1>2, <1>4, <1>5 DEF Removes
<1>10. Well(tree, hive')
  BY <1>1, <1>2, <1>5, <1>7, <1>8, <1>9, KeyRemoved
<1>11. Len(AtRoot) = 1 /\ 1 <= CMP_REGISTRY_MAX_LEVELS_TREE_DEPTH - 1
  BY DepthAssumption DEF AtRoot
<1>12. \E f : Walk(tree, hive, FixHive, WorkState, Len(WorkState) - 1, f)'
  <2>1. Walk(tree, hive', FixHive, AtRoot, 0, {})
    BY <1>1, WalkStarts
  <2>2. Len(WorkState') - 1 = 0
    BY <1>9, <1>11
  <2>3. Walk(tree', hive', FixHive', WorkState', Len(WorkState') - 1, {})
    BY <1>3, <1>9, <2>1, <2>2
  <2> QED  BY <2>3
<1>13. Len(WorkState') \in Nat /\ Len(WorkState') <= CMP_REGISTRY_MAX_LEVELS_TREE_DEPTH - 1
  BY <1>9, <1>11
<1>14. StackInv'
  BY <1>9, <1>12, <1>13, StackStep
<1> QED  BY <1>10, <1>14

LEMMA ValidateKeeps == WalkInv /\ Validate => WalkInv'
<1> SUFFICES ASSUME WalkInv, Validate PROVE WalkInv'
  OBVIOUS
<1> DEFINE N == Len(WorkState)
           c == WorkState[N].Current
           q == WorkState[N].Parent
<1>1. /\ tree \in Trees /\ Well(tree, hive) /\ FixHive \in BOOLEAN /\ Shaped(tree, file.cell)
      /\ ~FixHive => Untouched(tree, file, hive)
      /\ N \in Nat /\ N <= CMP_REGISTRY_MAX_LEVELS_TREE_DEPTH - 1
  BY DEF WalkInv, HiveInv, StackInv
<1>2. PICK fin : Walk(tree, hive, FixHive, WorkState, N - 1, fin)
  BY DEF Validate, WalkInv, StackInv
<1>3. /\ N \in Nat \ {0} /\ Last(WorkState) = WorkState[N]
      /\ c \in KeyOrOutside(tree) /\ q \in KeysOf(tree) \cup {HCELL_NIL}
  <2>1. WalkAt(tree, hive, WorkState, fin, N)
    BY <1>1, <1>2, WalkTop
  <2> QED  BY <2>1 DEF WalkAt
<1>4. Top.Current = c /\ Top.Parent = q /\ StackDepth = N - 1
  BY <1>3 DEF Top, StackDepth
<1>5. tree' = tree /\ file' = file /\ FixHive' = FixHive
  BY DEF Validate, FixHive
<1>6. PICK v \in CmpValidateKey(hive, q, c, FixHive) : Validated(v)
  BY <1>4 DEF Validate
<1>7. Well(tree, v.hive) /\ (~FixHive => Untouched(tree, file, v.hive))
  <2> HIDE DEF c, q
  <2>1. CASE c \in KeysOf(tree)
    <3>1. /\ Touches(tree, hive, v.hive, c, q)
          /\ ~FixHive => v.hive.cell[c].Parent = hive.cell[c].Parent
      BY <1>1, <1>3, <1>6, <2>1, KeyValidates
    <3>2. ~FixHive => Untouched(tree, file, v.hive)
      BY <1>1, <2>1, <3>1, StaysUntouched
    <3> QED  BY <3>1, <3>2 DEF Touches
  <2>2. CASE c \notin KeysOf(tree)
    BY <1>1, <1>3, <1>6, <2>2, KeyValidates
  <2> QED  BY <2>1, <2>2
<1>8. ASSUME hive' = v.hive PROVE HiveInv'
  <2>1. Well(tree', hive') /\ (~FixHive' => Untouched(tree', file', hive'))
    BY <1>5, <1>7, <1>8
  <2> QED  BY <1>1, <1>5, <2>1 DEF HiveInv
<1>9. CASE v.good /\ InOrder(v.hive)
  <2>1. hive' = v.hive /\ status' = "descend" /\ WorkState' = SiblingSet(WorkState, c)
    <3>1. /\ hive' = v.hive /\ status' = "descend"
          /\ WorkState' = IF StackDepth = 0 THEN WorkState
                          ELSE [WorkState EXCEPT ![StackDepth].Sibling = Top.Current]
      BY <1>6, <1>9 DEF Validated
    <3>2. N - 1 = 0 <=> N = 1
      BY <1>3
    <3> QED  BY <1>4, <3>1, <3>2 DEF SiblingSet
  <2>2. StackInv'
    BY <1>2, <1>6, <1>9, <2>1, GoodKeeps
  <2>3. VerdictIsRight'
    BY <2>1 DEF VerdictIsRight
  <2> QED  BY <1>8, <2>1, <2>2, <2>3 DEF WalkInv
<1>10. CASE ~(v.good /\ InOrder(v.hive)) /\ Removable(v)
  <2>1. Removes(v.hive)
    BY <1>6, <1>10 DEF Validated
  <2>2. Well(tree, hive') /\ StackInv'
    BY <1>2, <1>6, <1>10, <2>1, RemovalKeeps
  <2>3. FixHive /\ status' = "validate"
    BY <1>10, <2>1 DEF Removable, Removes
  <2>4. HiveInv'
    BY <1>1, <1>5, <2>2, <2>3 DEF HiveInv
  <2>5. VerdictIsRight'
    BY <2>3 DEF VerdictIsRight
  <2> QED  BY <2>2, <2>4, <2>5 DEF WalkInv
<1>11. CASE ~(v.good /\ InOrder(v.hive)) /\ ~Removable(v)
  <2>1. Fails(v.hive)
    BY <1>6, <1>11 DEF Validated
  <2>2. hive' = v.hive /\ status' = "bad" /\ WorkState' = WorkState
    BY <2>1 DEF Fails
  <2>3. StackInv'
    BY <1>1, <2>2, StackStep
  <2>4. ~FixHive => ~Sound(file)
    <3> SUFFICES ASSUME ~FixHive, Sound(file) PROVE FALSE
      OBVIOUS
    <3>1. Walk(tree, hive, FALSE, WorkState, N - 1, fin)
      BY <1>1, <1>2
    <3>2. /\ v.good
          /\ \/ N = 1 \/ WorkState[N - 1].Sibling = HCELL_NIL
             \/ CmpValidateLexicalOrder(v.hive, c, WorkState[N - 1].Sibling)
      BY <1>1, <1>6, <3>1, SoundIsAccepted
    <3>3. InOrder(v.hive)
      BY <1>3, <1>4, <3>2 DEF InOrder
    <3> QED  BY <1>11, <3>2, <3>3
  <2>5. ~FixHive' => ~Sound(file)'
    <3>1. Reached(file)' = Reached(file)
      BY <1>5 DEF Reached
    <3>2. Sound(file)' = Sound(file)
      BY <1>5, <3>1 DEF Sound
    <3> QED  BY <1>5, <2>4, <3>2
  <2>6. VerdictIsRight'
    BY <2>2, <2>5 DEF VerdictIsRight
  <2> QED  BY <1>8, <2>2, <2>3, <2>6 DEF WalkInv
<1> QED  BY <1>9, <1>10, <1>11

LEMMA NextWalk == WalkInv /\ [Next]_vars => WalkInv'
<1> SUFFICES ASSUME WalkInv, [Next]_vars PROVE WalkInv'
  OBVIOUS
<1>1. CASE CmCheckRegistry
  BY <1>1, CheckStarts
<1>2. CASE Validate
  BY <1>2, ValidateKeeps
<1>3. CASE Descend
  BY <1>3, DescendKeeps
<1>4. CASE Return
  BY <1>4, ReturnKeeps
<1>5. CASE UNCHANGED vars
  <2>1. UNCHANGED <<tree, file, hive, flags>> /\ WorkState' = WorkState /\ status' = status
    BY <1>5 DEF vars
  <2>2. HiveInv' /\ FixHive' = FixHive
    BY <2>1, HiveKept DEF WalkInv
  <2>3. StackInv'
    <3>1. status = "validate" => \E fin : Walk(tree, hive, FixHive, WorkState, Len(WorkState) - 1, fin)'
      BY <2>1, <2>2 DEF WalkInv, StackInv
    <3>2. status = "descend" => \E fin : Walk(tree, hive, FixHive, WorkState, Len(WorkState), fin)'
      BY <2>1, <2>2 DEF WalkInv, StackInv
    <3> QED  BY <2>1, <3>1, <3>2 DEF WalkInv, StackInv
  <2>4. VerdictIsRight'
    <3>1. Reached(file)' = Reached(file) /\ Reached(hive)' = Reached(hive)
      BY <2>1 DEF Reached
    <3>2. Sound(file)' = Sound(file) /\ Sound(hive)' = Sound(hive) /\ KeyIsShared(hive)' = KeyIsShared(hive)
      BY <2>1, <3>1 DEF Sound, KeyIsShared
    <3>3. TooDeep' = TooDeep
      BY <2>1 DEF TooDeep, StackDepth
    <3> QED  BY <2>1, <2>2, <3>2, <3>3 DEF WalkInv, VerdictIsRight
  <2> QED  BY <2>2, <2>3, <2>4 DEF WalkInv
<1> QED  BY <1>1, <1>2, <1>3, <1>4, <1>5 DEF Next

LEMMA WalkInvariant == Spec => []WalkInv
  BY InitWalk, NextWalk, PTL DEF Spec

(***************************************************************************)
(* Whatever two fields are damaged, the check leaves the cells of the hive *)
(* the cells they are, its counts numbers, and its stack within the array  *)
(* of CMP_REGISTRY_MAX_LEVELS_TREE_DEPTH entries (cmcheck.cpp).            *)
(***************************************************************************)
THEOREM TypeCorrect == Spec => []TypeOK
<1>1. WalkInv => TypeOK
  <2> SUFFICES ASSUME WalkInv PROVE TypeOK
    OBVIOUS
  <2>1. /\ tree \in Trees /\ Well(tree, hive) /\ Shaped(tree, file.cell)
        /\ status \in {"called", "validate", "descend", "good", "bad"}
        /\ Len(WorkState) \in Nat /\ Len(WorkState) <= CMP_REGISTRY_MAX_LEVELS_TREE_DEPTH - 1
    BY DEF WalkInv, HiveInv, StackInv
  <2>2. /\ DOMAIN hive.cell = DOMAIN tree /\ DOMAIN file.cell = DOMAIN tree
        /\ hive.dirty \subseteq DOMAIN tree /\ hive.BootType \in {"REGULAR", "SELF_HEAL"}
    BY <2>1 DEF Well, Shaped
  <2>3. ASSUME NEW c \in KeysOf(hive.cell)
        PROVE  {hive.cell[c].SubKeyCount, hive.cell[c].ValueCount} \subseteq Nat
    <3>1. c \in DOMAIN tree /\ hive.cell[c].Signature = "kn"
      BY <2>2 DEF KeysOf, CellsOf
    <3>2. c \in KeysOf(tree)
      BY <2>1, <3>1, ShapeFacts DEF Well
    <3> QED  BY <2>1, <3>2, KeyFacts
  <2>4. StackDepth < CMP_REGISTRY_MAX_LEVELS_TREE_DEPTH - 1
    BY <2>1, DepthAssumption DEF StackDepth
  <2> QED  BY <2>1, <2>2, <2>3, <2>4 DEF TypeOK
<1> QED  BY <1>1, WalkInvariant, PTL

(***************************************************************************)
(* A hive that the check accepts is sound, or has a key with two parents   *)
(* after a repair; a hive that it refuses, when it was not asked to repair *)
(* it, is not sound or has more levels than the stack                      *)
(* (CmpValidateRegistryInternal): for every tree of keys, however often    *)
(* the walk starts again, and with cycles of keys.                         *)
(***************************************************************************)
THEOREM VerdictRight == Spec => []VerdictIsRight
<1>1. WalkInv => VerdictIsRight
  BY DEF WalkInv
<1> QED  BY <1>1, WalkInvariant, PTL

-----------------------------------------------------------------------------
(* The tree before the damage *)

\* The hive that has the cells of the tree t.
Of(t) == [cell |-> t]

LEMMA TreeIsSound ==
  ASSUME NEW t \in Trees
  PROVE  /\ Shaped(t, t) /\ Of(t).cell = t /\ NamesAscend(t) /\ LeavesApart(t)
         /\ \A leaf \in CellsOf(t, "li") : Range(t[leaf].List) \subseteq KeysOf(t)
         /\ \A k \in KeysOf(t) : /\ t[k].Sane
                                 /\ \A x \in Range(SubkeysOf(Of(t), k)) :
                                      x \in KeysOf(t) /\ x # RootCell /\ t[x].Parent = k
         /\ \A x \in KeysOf(t) \ {RootCell} :
              t[x].Parent \in KeysOf(t) /\ x \in Range(SubkeysOf(Of(t), t[x].Parent))
         /\ \A ks \in SUBSET KeysOf(t) :
              RootCell \in ks /\ (\A k \in ks : Range(SubkeysOf(Of(t), k)) \subseteq ks) => ks = KeysOf(t)
<1>1. /\ \A k \in KeysOf(t) : KeyIsSound(Of(t), k) /\ RootCell \notin Range(SubkeysOf(Of(t), k))
      /\ \A ks \in SUBSET KeysOf(t) :
           RootCell \in ks /\ (\A k \in ks : Range(SubkeysOf(Of(t), k)) \subseteq ks) => ks = KeysOf(t)
      /\ \A leaf \in CellsOf(t, "li") : Range(t[leaf].List) \subseteq KeysOf(t)
      /\ NamesAscend(t) /\ LeavesApart(t)
  BY SoundnessAssumption DEF Of
<1>2. Shaped(t, t) /\ Of(t).cell = t
  BY TreesAssumption DEF Of
<1>3. ASSUME NEW k \in KeysOf(t)
      PROVE  /\ t[k].Sane
             /\ \A x \in Range(SubkeysOf(Of(t), k)) : x \in KeysOf(t) /\ x # RootCell /\ t[x].Parent = k
  <2> DEFINE s == SubkeysOf(Of(t), k)
  <2>1. t[k].Sane /\ \A i \in DOMAIN s : s[i] \in DOMAIN t /\ t[s[i]].Parent = k
    BY <1>1, <1>2 DEF KeyIsSound
  <2>2. Range(s) \cap DOMAIN t \subseteq KeysOf(t)
    BY <1>2, SubkeysFacts
  <2>3. RootCell \notin Range(s)
    BY <1>1
  <2> HIDE DEF s
  <2>4. \A x \in Range(s) : x \in KeysOf(t) /\ x # RootCell /\ t[x].Parent = k
    BY <2>1, <2>2, <2>3 DEF Range
  <2> QED  BY <2>1, <2>4 DEF s
<1>4. ASSUME NEW x \in KeysOf(t) \ {RootCell}
      PROVE  t[x].Parent \in KeysOf(t) /\ x \in Range(SubkeysOf(Of(t), t[x].Parent))
  <2> DEFINE ks == {RootCell} \cup {y \in KeysOf(t) : \E k \in KeysOf(t) : y \in Range(SubkeysOf(Of(t), k))}
  <2>1. ks \in SUBSET KeysOf(t) /\ RootCell \in ks
    BY TreeFacts
  <2>2. \A k \in ks : Range(SubkeysOf(Of(t), k)) \subseteq ks
    BY <1>3, <2>1
  <2>3. ks = KeysOf(t)
    <3> HIDE DEF ks
    <3> QED  BY <1>1, <2>1, <2>2
  <2>4. PICK k \in KeysOf(t) : x \in Range(SubkeysOf(Of(t), k))
    BY <2>3
  <2> QED  BY <1>3, <2>4
<1> QED  BY <1>1, <1>2, <1>3, <1>4

\* The keys in the order of their names.
ByName(t) == {pair \in KeysOf(t) \X KeysOf(t) : t[pair[1]].Name < t[pair[2]].Name}

-----------------------------------------------------------------------------
(* What the damage has spared stays in its place *)

\* Neither x, nor its parent, nor the lists between them, nor the name of a sibling before it, is damaged.
Undamaged(t, f, x) ==
  LET p == t[x].Parent
      i == t[p].SubKeyList
  IN  /\ \A d \in {x, p, i} \cup LeafCells(Of(t), i) : f[d] = t[d]
      /\ \A s \in KeysOf(t) : t[s].Parent = p /\ t[s].Name < t[x].Name => f[s].Name = t[s].Name

NamesKept(t, f, h) ==
  \A k \in KeysOf(t) : h.cell[k].Name = f[k].Name /\ h.cell[k].Sane = f[k].Sane

\* A root is as it was loaded, and no damage gave it a leaf.
RootsKept(t, f, h) ==
  \A r \in CellsOf(t, "ri") :
    h.cell[r] = f[r] /\ Range(f[r].List) \subseteq Range(t[r].List) \cup {Outside}

\* A leaf that was not damaged has entries that it had, in their order.
LeavesKept(t, f, h) ==
  \A l \in CellsOf(t, "li") :
    f[l] = t[l] => /\ IsLeaf(h.cell[l]) /\ Range(h.cell[l].List) \subseteq Range(t[l].List)
                   /\ Ordered(h.cell[l].List, ByName(t))

\* The key x is still a subkey of its parent.
IsInPlace(t, h, x) ==
  /\ h.cell[t[x].Parent].SubKeyList = t[t[x].Parent].SubKeyList
  /\ x \in Range(SubkeysOf(h, t[x].Parent))

Spared(t, f, h) ==
  /\ NamesKept(t, f, h) /\ RootsKept(t, f, h) /\ LeavesKept(t, f, h)
  /\ \A x \in KeysOf(t) \ {RootCell} : Undamaged(t, f, x) => IsInPlace(t, h, x)

(***************************************************************************)
(* The index i of the parent p of an undamaged key, in the tree and in the *)
(* hive h: the leaves are the same ones, with subkeys of p.                *)
(***************************************************************************)
SameLeaves(t, f, h, p, i) ==
  /\ ~IndexIsBroken(h, i) /\ LeafCells(h, i) = LeafCells(Of(t), i)
  /\ t[i].Signature \in {"li", "ri"}
  /\ IsLeaf(h.cell[i]) <=> IsLeaf(t[i])
  /\ ~IsLeaf(t[i]) => i \in CellsOf(t, "ri") /\ h.cell[i] = t[i] /\ t[i].List \in Seq(CellsOf(t, "li"))
  /\ \A l \in LeafCells(h, i) :
       /\ l \in CellsOf(t, "li") /\ IsLeaf(h.cell[l])
       /\ h.cell[l].List \in Seq(KeyOrOutside(t)) /\ Ordered(h.cell[l].List, ByName(t))
       /\ Range(h.cell[l].List) \subseteq Range(t[l].List)
       /\ \A s \in Range(t[l].List) : s \in KeysOf(t) /\ t[s].Parent = p

LEMMA UndamagedIndex ==
  ASSUME NEW t \in Trees, NEW f, NEW h, Shaped(t, h.cell), RootsKept(t, f, h), LeavesKept(t, f, h),
         NEW x \in KeysOf(t) \ {RootCell}, Undamaged(t, f, x),
         NEW p, p = t[x].Parent, NEW i, i = t[p].SubKeyList
  PROVE  /\ p \in KeysOf(t) /\ SameLeaves(t, f, h, p, i)
         /\ t[p].SubKeyCount # 0 /\ ~IndexIsBroken(Of(t), i)
<1>1. /\ Shaped(t, t) /\ Of(t).cell = t /\ p \in KeysOf(t) /\ x \in Range(SubkeysOf(Of(t), p))
      /\ \A s \in Range(SubkeysOf(Of(t), p)) : s \in KeysOf(t) /\ t[s].Parent = p
  BY TreeIsSound
<1>2. /\ ~IndexIsBroken(Of(t), i) /\ t[p].SubKeyCount # 0
      /\ SubkeysOf(Of(t), p) = Entries(Of(t), t[i])
  BY <1>1 DEF SubkeysOf, Range
<1>3. /\ i \in IndicesOf(t) /\ i \in DOMAIN t /\ t[i].Signature \in {"li", "ri"}
      /\ \A l \in LeafCells(Of(t), i) : l \in CellsOf(t, "li") /\ IsLeaf(t[l])
      /\ ~IsLeaf(t[i]) => t[i].List \in Seq(CellsOf(t, "li"))
  BY <1>1, <1>2, IndexFacts
<1>4. Range(SubkeysOf(Of(t), p)) = UNION {Range(t[l].List) : l \in LeafCells(Of(t), i)}
  <2>1. Shaped(t, Of(t).cell)
    BY <1>1
  <2>2. LET E == Entries(Of(t), Of(t).cell[i]) IN
          Range(E) = UNION {Range(Of(t).cell[l].List) : l \in LeafCells(Of(t), i)}
    BY <1>2, <2>1, EntriesFacts
  <2> QED  BY <1>1, <1>2, <2>2
<1>5. \A l \in LeafCells(Of(t), i) : \A s \in Range(t[l].List) : s \in KeysOf(t) /\ t[s].Parent = p
  BY <1>1, <1>4
<1>6. f[i] = t[i] /\ \A l \in LeafCells(Of(t), i) : f[l] = t[l]
  BY DEF Undamaged
<1>7. \A l \in LeafCells(Of(t), i) :
        /\ IsLeaf(h.cell[l]) /\ Range(h.cell[l].List) \subseteq Range(t[l].List)
        /\ Ordered(h.cell[l].List, ByName(t))
  BY <1>3, <1>6 DEF LeavesKept
<1>8. DOMAIN h.cell = DOMAIN t /\ \A l \in CellsOf(t, "li") : l \in DOMAIN t
  BY TreeFacts DEF Shaped
<1>9. CASE IsLeaf(t[i])
  <2>1. LeafCells(Of(t), i) = {i}
    BY <1>1, <1>9 DEF LeafCells
  <2>2. IsLeaf(h.cell[i])
    BY <1>7, <2>1
  <2>3. LeafCells(h, i) = {i}
    BY <2>2 DEF LeafCells
  <2>4. ~IndexIsBroken(h, i)
    BY <1>3, <1>8, <2>2 DEF IndexIsBroken, HvIsCellAllocated, IsLeaf
  <2>5. \A l \in LeafCells(h, i) : h.cell[l].List \in Seq(KeyOrOutside(t))
    BY <2>4, IndexFacts
  <2> QED  BY <1>1, <1>2, <1>3, <1>5, <1>7, <1>9, <2>1, <2>2, <2>3, <2>4, <2>5 DEF SameLeaves
<1>10. CASE ~IsLeaf(t[i])
  <2>1. i \in CellsOf(t, "ri") /\ h.cell[i] = t[i]
    BY <1>3, <1>6, <1>10 DEF CellsOf, IsLeaf, RootsKept
  <2>2. LeafCells(Of(t), i) = Range(t[i].List) /\ LeafCells(h, i) = Range(t[i].List)
    BY <1>1, <1>10, <2>1 DEF LeafCells
  <2>3. ~IndexIsBroken(h, i)
    BY <1>3, <1>7, <1>8, <1>10, <2>1, <2>2 DEF IndexIsBroken, HvIsCellAllocated
  <2>4. \A l \in LeafCells(h, i) : h.cell[l].List \in Seq(KeyOrOutside(t))
    BY <2>3, IndexFacts
  <2> QED  BY <1>1, <1>2, <1>3, <1>5, <1>7, <1>10, <2>1, <2>2, <2>3, <2>4 DEF SameLeaves
<1> QED  BY <1>9, <1>10

(***************************************************************************)
(* An index j that shares a leaf with the index i of p is i or the leaf,   *)
(* so that its entries are subkeys of p in the order of their names.       *)
(***************************************************************************)
LEMMA SharedLeaf ==
  ASSUME NEW t \in Trees, NEW f, NEW h, Shaped(t, h.cell), RootsKept(t, f, h),
         NEW p \in KeysOf(t), NEW i, i = t[p].SubKeyList, SameLeaves(t, f, h, p, i),
         NEW j, ~IndexIsBroken(h, j), NEW l \in LeafCells(h, i), l \in LeafCells(h, j)
  PROVE  /\ Ordered(Entries(h, h.cell[j]), ByName(t))
         /\ \A s \in Range(Entries(h, h.cell[j])) : s \in KeysOf(t) /\ t[s].Parent = p
<1>1. /\ \A k \in LeafCells(h, i) :
           /\ k \in CellsOf(t, "li") /\ IsLeaf(h.cell[k])
           /\ h.cell[k].List \in Seq(KeyOrOutside(t)) /\ Ordered(h.cell[k].List, ByName(t))
           /\ Range(h.cell[k].List) \subseteq Range(t[k].List)
           /\ \A s \in Range(t[k].List) : s \in KeysOf(t) /\ t[s].Parent = p
      /\ IsLeaf(h.cell[i]) <=> IsLeaf(t[i])
      /\ ~IsLeaf(t[i]) => i \in CellsOf(t, "ri") /\ h.cell[i] = t[i] /\ t[i].List \in Seq(CellsOf(t, "li"))
  BY DEF SameLeaves
<1> DEFINE leaves == LeavesOf(h, h.cell[j])
           seqs == [n \in DOMAIN leaves |-> leaves[n].List]
<1>2. Entries(h, h.cell[j]) = FlattenSeq(seqs)
  BY DEF Entries
<1>3. Range(Entries(h, h.cell[j])) = UNION {Range(h.cell[k].List) : k \in LeafCells(h, j)}
  BY EntriesFacts
<1>4. CASE IsLeaf(h.cell[j])
  <2>1. LeafCells(h, j) = {j} /\ l = j
    BY <1>4 DEF LeafCells
  <2>2. seqs = << h.cell[l].List >>
    BY <1>4, <2>1 DEF LeavesOf
  <2> HIDE DEF seqs
  <2>3. h.cell[l].List \in Seq(KeyOrOutside(t)) /\ Ordered(h.cell[l].List, ByName(t))
    BY <1>1
  <2>4. seqs \in Seq(Seq(KeyOrOutside(t))) /\ DOMAIN seqs = {1} /\ seqs[1] = h.cell[l].List
    BY <2>2, <2>3
  <2>5. Ordered(FlattenSeq(seqs), ByName(t))
    BY <2>3, <2>4, FlattenOrdered
  <2> QED  BY <1>1, <1>2, <1>3, <2>1, <2>5
<1>5. CASE ~IsLeaf(h.cell[j])
  <2>1. LeafCells(h, j) = Range(h.cell[j].List) /\ h.cell[j].Signature = "ri" /\ j \in DOMAIN t
    BY <1>5, IndexFacts DEF LeafCells, IsLeaf
  <2>2. j \in CellsOf(t, "ri")
    BY <2>1, ShapeFacts
  <2>3. l \in Range(t[j].List)
    <3>1. l \in Range(t[j].List) \cup {Outside}
      BY <2>1, <2>2 DEF RootsKept
    <3>2. l # Outside
      BY <1>1, TreeFacts
    <3> QED  BY <3>1, <3>2
  <2>4. LeavesApart(t) /\ NamesAscend(t)
    BY TreeIsSound
  <2>5. ~IsLeaf(t[i])
    <3>1. IsLeaf(t[i]) => l = i
      BY <1>1 DEF LeafCells
    <3> QED  BY <2>2, <2>3, <2>4, <3>1 DEF LeavesApart
  <2>6. j = i
    <3>1. i \in CellsOf(t, "ri") /\ l \in Range(t[i].List)
      BY <1>1, <2>5 DEF LeafCells
    <3> QED  BY <2>2, <2>3, <2>4, <3>1 DEF LeavesApart
  <2> DEFINE L == t[i].List
  <2>7. /\ L \in Seq(CellsOf(t, "li")) /\ h.cell[j].List = L
        /\ LeafCells(h, i) = Range(L) /\ leaves = [n \in DOMAIN L |-> h.cell[L[n]]]
    BY <1>1, <1>5, <2>1, <2>5, <2>6 DEF LeavesOf
  <2> HIDE DEF L, leaves
  <2>8. DOMAIN seqs = DOMAIN L /\ \A n \in DOMAIN L : seqs[n] = h.cell[L[n]].List
    BY <2>7
  <2>9. \A n \in DOMAIN L : L[n] \in LeafCells(h, i)
    BY <2>7 DEF Range
  <2>10. seqs \in Seq(Seq(KeyOrOutside(t)))
    <3>1. Len(L) \in Nat /\ DOMAIN L = 1 .. Len(L) /\ DOMAIN leaves = 1 .. Len(L)
      BY <2>7
    <3>2. seqs \in [1 .. Len(L) -> Seq(KeyOrOutside(t))]
      BY <1>1, <2>8, <2>9, <3>1
    <3> HIDE DEF seqs
    <3> QED  BY <3>1, <3>2
  <2> HIDE DEF seqs
  <2>11. \A n \in DOMAIN seqs : Ordered(seqs[n], ByName(t))
    BY <1>1, <2>8, <2>9
  <2>12. ASSUME NEW n \in DOMAIN seqs, NEW m \in DOMAIN seqs, n < m,
                NEW a \in Range(seqs[n]), NEW b \in Range(seqs[m])
         PROVE  <<a, b>> \in ByName(t)
    <3>1. a \in Range(t[L[n]].List) /\ b \in Range(t[L[m]].List) /\ a \in KeysOf(t) /\ b \in KeysOf(t)
      BY <1>1, <2>8, <2>9
    <3>2. t[a].Name < t[b].Name
      <4>1. i \in CellsOf(t, "ri") /\ n \in DOMAIN L /\ m \in DOMAIN L
        BY <1>1, <2>5, <2>8
      <4> QED  BY <2>4, <2>12, <3>1, <4>1 DEF NamesAscend, L
    <3> QED  BY <3>1, <3>2 DEF ByName
  <2>13. Ordered(FlattenSeq(seqs), ByName(t))
    BY <2>10, <2>11, <2>12, FlattenOrdered
  <2>14. \A s \in Range(Entries(h, h.cell[j])) : \E k \in LeafCells(h, i) : s \in Range(h.cell[k].List)
    BY <1>3, <2>6
  <2>15. \A s \in Range(Entries(h, h.cell[j])) : s \in KeysOf(t) /\ t[s].Parent = p
    <3> HIDE DEF leaves
    <3> QED  BY ONLY <1>1, <2>14
  <2> QED  BY <1>2, <2>13, <2>15
<1> QED  BY <1>4, <1>5

\* The validation of a key leaves what is in place there.
LEMMA SparedTouched ==
  ASSUME NEW t \in Trees, NEW f, NEW h, Well(t, h), Spared(t, f, h), NEW c \in KeysOf(t), NEW q, NEW g,
         Touches(t, h, g, c, q)
  PROVE  Spared(t, f, g)
<1>1. /\ NamesKept(t, f, h) /\ RootsKept(t, f, h) /\ LeavesKept(t, f, h)
      /\ \A x \in KeysOf(t) \ {RootCell} : Undamaged(t, f, x) => IsInPlace(t, h, x)
  BY DEF Spared
<1>2. /\ Well(t, g) /\ Shaped(t, g.cell) /\ Shaped(t, h.cell)
      /\ \A d \in DOMAIN t : d # c /\ d \notin CellsOf(t, "list") => g.cell[d] = h.cell[d]
      /\ g.cell[c].Sane = h.cell[c].Sane /\ g.cell[c].Name = h.cell[c].Name
  BY DEF Touches, Well
<1>3. \A k \in KeysOf(t) : k \in DOMAIN t /\ k \notin CellsOf(t, "list") /\ k \notin IndicesOf(t)
  BY KeyFacts
<1>4. SameIndices(t, h, g)
  <2>1. \A i \in IndicesOf(t) : i \in DOMAIN t /\ i # c /\ i \notin CellsOf(t, "list")
    BY <1>3, TreeFacts DEF CellsOf
  <2> QED  BY <1>2, <2>1 DEF SameIndices
<1>5. NamesKept(t, f, g)
  BY <1>1, <1>2, <1>3 DEF NamesKept
<1>6. RootsKept(t, f, g) /\ LeavesKept(t, f, g)
  BY <1>1, <1>4 DEF RootsKept, LeavesKept, SameIndices, IndicesOf
<1>7. ASSUME NEW x \in KeysOf(t) \ {RootCell}, Undamaged(t, f, x)
      PROVE  IsInPlace(t, g, x)
  <2> DEFINE p == t[x].Parent
  <2>1. p \in KeysOf(t) /\ h.cell[p].SubKeyList = t[p].SubKeyList /\ x \in Range(SubkeysOf(h, p))
    BY <1>1, <1>7, TreeIsSound DEF IsInPlace
  <2> HIDE DEF p
  <2>2. CASE p = c
    <3>1. SubkeysOf(h, c) # << >>
      BY <2>1, <2>2 DEF Range
    <3>2. SubkeysOf(g, c) = SubkeysOf(h, c) /\ g.cell[c].SubKeyList = h.cell[c].SubKeyList
      BY <3>1 DEF Touches
    <3> QED  BY <2>1, <2>2, <3>2 DEF IsInPlace, p
  <2>3. CASE p # c
    <3>1. g.cell[p] = h.cell[p]
      BY <1>2, <1>3, <2>1, <2>3
    <3>2. SubkeysOf(g, p) = SubkeysOf(h, p)
      BY <1>2, <1>4, <2>1, <3>1, SubkeysKept
    <3> QED  BY <2>1, <3>1, <3>2 DEF IsInPlace, p
  <2> QED  BY <2>2, <2>3
<1> QED  BY <1>5, <1>6, <1>7 DEF Spared

\* What is left of a list when an entry is taken out: all others, in their order.
LEMMA OthersLeft ==
  ASSUME NEW S, NEW s \in Seq(S), NEW i \in 1 .. Len(s), NEW order
  PROVE  LET u == RemoveAt(s, i) IN
         /\ Range(u) \subseteq Range(s) /\ Range(s) \ {s[i]} \subseteq Range(u)
         /\ Ordered(s, order) => Ordered(u, order)
<1> DEFINE u == RemoveAt(s, i)
<1>1. /\ u \in Seq(S) /\ Len(u) = Len(s) - 1 /\ Len(s) \in Nat /\ Len(u) \in Nat
      /\ \A j \in 1 .. Len(s) - 1 : u[j] = IF j < i THEN s[j] ELSE s[j + 1]
  <2>1. /\ u \in Seq(S) /\ Len(u) = Len(s) - 1
        /\ \A j \in 1 .. Len(s) - 1 : u[j] = IF j < i THEN s[j] ELSE s[j + 1]
    BY EntryRemoved
  <2> HIDE DEF u
  <2> QED  BY <2>1
<1>2. DOMAIN u = 1 .. Len(s) - 1 /\ DOMAIN s = 1 .. Len(s)
  BY <1>1
<1> HIDE DEF u
<1>3. \A j \in DOMAIN u : u[j] \in Range(s)
  <2>1. \A j \in DOMAIN u : u[j] = IF j < i THEN s[j] ELSE s[j + 1]
    BY <1>1, <1>2
  <2>2. \A j \in DOMAIN u : j \in DOMAIN s /\ j + 1 \in DOMAIN s
    BY <1>1, <1>2
  <2> QED  BY <2>1, <2>2 DEF Range
<1>4. ASSUME NEW j \in DOMAIN s, s[j] # s[i]
      PROVE  s[j] \in Range(u)
  <2>1. CASE j < i
    <3>1. j \in DOMAIN u /\ u[j] = s[j]
      BY <1>1, <1>2, <2>1
    <3> QED  BY <3>1 DEF Range
  <2>2. CASE j > i
    <3>1. j - 1 \in DOMAIN u /\ u[j - 1] = s[j]
      BY <1>1, <1>2, <2>2
    <3> QED  BY <3>1 DEF Range
  <2> QED  BY <1>2, <1>4, <2>1, <2>2
<1>5. Ordered(s, order) => Ordered(u, order)
  <2> DEFINE from(j) == IF j < i THEN j ELSE j + 1
  <2>1. \A j \in DOMAIN u : from(j) \in DOMAIN s /\ u[j] = s[from(j)]
    BY <1>1, <1>2
  <2>2. \A j, k \in DOMAIN u : j < k => from(j) < from(k)
    BY <1>1, <1>2
  <2> HIDE DEF from
  <2> QED  BY <2>1, <2>2 DEF Ordered
<1> QED  BY <1>3, <1>4, <1>5 DEF Range, u

\* The key z, or what stands in its place, has to go: it is not sane, or out of order.
HasToGo(t, h, q, n) ==
  LET s == SubkeysOf(h, q) IN
  ~(s[n] \in KeysOf(t) /\ h.cell[s[n]].Sane /\ (n = 1 \/ CmpValidateLexicalOrder(h, s[n], s[n - 1])))

\* What has to go is no key that the damage has spared, wherever one of its lists is seen from.
LEMMA UndamagedStays ==
  ASSUME NEW t \in Trees, NEW f, NEW h, Well(t, h), NamesKept(t, f, h), RootsKept(t, f, h),
         NEW x \in KeysOf(t) \ {RootCell}, Undamaged(t, f, x),
         NEW i, SameLeaves(t, f, h, t[x].Parent, i), i = t[t[x].Parent].SubKeyList,
         NEW q \in KeysOf(t), NEW j, ~IndexIsBroken(h, j), SubkeysOf(h, q) = Entries(h, h.cell[j]),
         NEW l \in LeafCells(h, i), l \in LeafCells(h, j),
         NEW n \in DOMAIN SubkeysOf(h, q), HasToGo(t, h, q, n)
  PROVE  SubkeysOf(h, q)[n] # x
<1> SUFFICES ASSUME SubkeysOf(h, q)[n] = x  PROVE FALSE
  OBVIOUS
<1> DEFINE s == SubkeysOf(h, q)
           p == t[x].Parent
<1>1. p \in KeysOf(t) /\ t[x].Sane
  BY TreeIsSound
<1>2. /\ Ordered(Entries(h, h.cell[j]), ByName(t))
      /\ \A y \in Range(Entries(h, h.cell[j])) : y \in KeysOf(t) /\ t[y].Parent = p
  <2>1. Shaped(t, h.cell) /\ i = t[p].SubKeyList /\ SameLeaves(t, f, h, p, i)
    BY DEF Well
  <2> HIDE DEF p
  <2> QED  BY <1>1, <2>1, SharedLeaf
<1>3. s \in Seq(KeyOrOutside(t)) /\ DOMAIN s = 1 .. Len(s) /\ Len(s) \in Nat
  BY SubkeysFacts DEF Well
<1>4. Ordered(s, ByName(t)) /\ \A k \in DOMAIN s : s[k] \in KeysOf(t) /\ t[s[k]].Parent = p
  BY <1>2 DEF Range
<1>5. f[x] = t[x] /\ \A y \in KeysOf(t) : t[y].Parent = p /\ t[y].Name < t[x].Name => f[y].Name = t[y].Name
  BY DEF Undamaged
<1>6. h.cell[x].Sane /\ h.cell[x].Name = t[x].Name
  BY <1>1, <1>5 DEF NamesKept
<1> HIDE DEF s, p
<1>7. CASE n = 1
  BY <1>6, <1>7 DEF HasToGo
<1>8. CASE n # 1
  <2> DEFINE y == s[n - 1]
  <2>1. n \in DOMAIN s /\ s[n] = x
    BY DEF s
  <2>2. n \in Nat /\ n - 1 \in DOMAIN s /\ n - 1 < n
    BY <1>3, <1>8, <2>1
  <2>3. y \in KeysOf(t) /\ t[y].Parent = p /\ <<y, x>> \in ByName(t)
    BY <1>4, <2>1, <2>2 DEF Ordered
  <2>4. t[y].Name < t[x].Name
    BY <2>3 DEF ByName
  <2>5. h.cell[y].Name = t[y].Name
    BY <1>5, <2>3, <2>4 DEF NamesKept
  <2>6. CmpValidateLexicalOrder(h, x, y)
    BY <1>6, <2>4, <2>5 DEF CmpValidateLexicalOrder
  <2> QED  BY <1>6, <2>1, <2>6 DEF HasToGo, s
<1> QED  BY <1>7, <1>8

\* A key that has to go is taken out of its parent: no key that the damage has spared leaves its place.
LEMMA SparedRemoved ==
  ASSUME NEW t \in Trees, NEW f, NEW h, Well(t, h), Spared(t, f, h), NEW q \in KeysOf(t), Valid(h, q),
         NEW n \in DOMAIN SubkeysOf(h, q), HasToGo(t, h, q, n), NEW z, z = SubkeysOf(h, q)[n]
  PROVE  Spared(t, f, CmpRepairParentKey(h, z, q))
<1> DEFINE g == CmpRepairParentKey(h, z, q)
           e == h.cell[q].SubKeyList
           s == SubkeysOf(h, q)
<1>1. /\ NamesKept(t, f, h) /\ RootsKept(t, f, h) /\ LeavesKept(t, f, h) /\ Shaped(t, h.cell)
      /\ \A x \in KeysOf(t) \ {RootCell} : Undamaged(t, f, x) => IsInPlace(t, h, x)
  BY DEF Spared, Well
<1>2. /\ s \in Seq(KeyOrOutside(t)) /\ DOMAIN s = 1 .. Len(s) /\ Len(s) \in Nat
      /\ h.cell[q].SubKeyCount = Len(s) /\ z \in Range(s) /\ Len(s) > 0
  <2>1. s \in Seq(KeyOrOutside(t)) /\ h.cell[q].SubKeyCount = Len(s)
    BY CountIs
  <2> QED  BY <2>1 DEF Range
<1>3. ~IndexIsBroken(h, e) /\ s = Entries(h, h.cell[e])
  BY <1>2, CountIs
<1>4. /\ Well(t, g) /\ Shaped(t, g.cell)
      /\ g.cell[q] = [h.cell[q] EXCEPT !.SubKeyCount = h.cell[q].SubKeyCount - 1]
      /\ \E l \in LeafCells(h, e) :
           /\ z \in Range(h.cell[l].List)
           /\ g.cell[l] = [h.cell[l] EXCEPT !.List = RemoveAt(h.cell[l].List, FirstEntry(h.cell[l].List, z))]
           /\ \A d \in DOMAIN t : d \notin {l, q} => g.cell[d] = h.cell[d]
  BY <1>2, KeyRemoved DEF Well
<1>5. PICK l \in LeafCells(h, e) :
        /\ z \in Range(h.cell[l].List)
        /\ g.cell[l] = [h.cell[l] EXCEPT !.List = RemoveAt(h.cell[l].List, FirstEntry(h.cell[l].List, z))]
        /\ \A d \in DOMAIN t : d \notin {l, q} => g.cell[d] = h.cell[d]
  BY <1>4
<1> HIDE DEF g, e, s
<1>6. /\ l \in CellsOf(t, "li") /\ IsLeaf(h.cell[l]) /\ h.cell[l].List \in Seq(KeyOrOutside(t))
      /\ l \in DOMAIN t /\ t[l].Signature = "li"
  BY <1>1, <1>3, IndexFacts, TreeFacts
<1>7. \A k \in KeysOf(t) : k \in DOMAIN t /\ k # l /\ h.cell[k] \in KeyNodes(t)
  BY <1>6, KeyFacts
<1>8. \A r \in IndicesOf(t) : r \in DOMAIN t /\ r # q
  BY TreeFacts DEF KeysOf, CellsOf
<1>9. /\ IsLeaf(g.cell[l]) /\ Range(g.cell[l].List) \subseteq Range(h.cell[l].List)
      /\ Range(h.cell[l].List) \ {z} \subseteq Range(g.cell[l].List)
      /\ Ordered(h.cell[l].List, ByName(t)) => Ordered(g.cell[l].List, ByName(t))
  <2> DEFINE L == h.cell[l].List
             u == RemoveAt(L, FirstEntry(L, z))
  <2>1. h.cell[l] \in [Signature : {"li", "junk"}, List : Seq(KeyOrOutside(t))]
    BY <1>1, <1>6, ShapeFacts
  <2>2. g.cell[l].List = u /\ g.cell[l].Signature = h.cell[l].Signature
    BY <1>5, <2>1
  <2>3. FirstEntry(L, z) \in 1 .. Len(L) /\ L[FirstEntry(L, z)] = z
    BY <1>5, <1>6, EntryFound
  <2>4. /\ Range(u) \subseteq Range(L) /\ Range(L) \ {z} \subseteq Range(u)
        /\ Ordered(L, ByName(t)) => Ordered(u, ByName(t))
    <3> DEFINE i == FirstEntry(L, z)
    <3>1. L \in Seq(KeyOrOutside(t)) /\ i \in 1 .. Len(L) /\ L[i] = z
      BY <1>6, <2>3
    <3> HIDE DEF i, L
    <3>2. /\ Range(RemoveAt(L, i)) \subseteq Range(L) /\ Range(L) \ {L[i]} \subseteq Range(RemoveAt(L, i))
          /\ Ordered(L, ByName(t)) => Ordered(RemoveAt(L, i), ByName(t))
      BY <3>1, OthersLeft
    <3> QED  BY <3>1, <3>2 DEF i
  <2> QED  BY <1>6, <2>2, <2>4 DEF IsLeaf
<1>10. NamesKept(t, f, g)
  <2>1. ASSUME NEW k \in KeysOf(t)
        PROVE  g.cell[k].Name = h.cell[k].Name /\ g.cell[k].Sane = h.cell[k].Sane
    <3>1. CASE k = q
      BY <1>4, <1>7, <3>1 DEF KeyNodes
    <3>2. CASE k # q
      BY <1>5, <1>7, <3>2
    <3> QED  BY <3>1, <3>2
  <2> QED  BY <1>1, <2>1 DEF NamesKept
<1>11. RootsKept(t, f, g)
  <2>1. \A r \in CellsOf(t, "ri") : r \in DOMAIN t /\ r # q /\ r # l
    BY <1>6, <1>8, TreeFacts DEF IndicesOf
  <2> QED  BY <1>1, <1>5, <2>1 DEF RootsKept
<1>12. LeavesKept(t, f, g)
  <2>1. ASSUME NEW k \in CellsOf(t, "li"), f[k] = t[k]
        PROVE  /\ IsLeaf(g.cell[k]) /\ Range(g.cell[k].List) \subseteq Range(t[k].List)
               /\ Ordered(g.cell[k].List, ByName(t))
    <3>1. /\ IsLeaf(h.cell[k]) /\ Range(h.cell[k].List) \subseteq Range(t[k].List)
          /\ Ordered(h.cell[k].List, ByName(t))
      BY <1>1, <2>1 DEF LeavesKept
    <3>2. CASE k = l
      BY <1>9, <3>1, <3>2
    <3>3. CASE k # l
      <4>1. g.cell[k] = h.cell[k]
        BY <1>5, <1>8, <3>3 DEF IndicesOf
      <4> QED  BY <3>1, <4>1
    <3> QED  BY <3>2, <3>3
  <2> QED  BY <2>1 DEF LeavesKept
<1>13. ASSUME NEW x \in KeysOf(t) \ {RootCell}, Undamaged(t, f, x)
       PROVE  IsInPlace(t, g, x)
  <2> DEFINE p == t[x].Parent
             i == t[p].SubKeyList
  <2>1. /\ p \in KeysOf(t) /\ SameLeaves(t, f, h, p, i)
        /\ ~IndexIsBroken(h, i) /\ LeafCells(h, i) = LeafCells(Of(t), i)
    BY <1>1, <1>13, UndamagedIndex DEF SameLeaves
  <2>2. ~IndexIsBroken(g, i) /\ LeafCells(g, i) = LeafCells(Of(t), i)
    BY <1>4, <1>11, <1>12, <1>13, UndamagedIndex DEF SameLeaves
  <2>3. h.cell[p].SubKeyList = i /\ x \in Range(SubkeysOf(h, p))
    BY <1>1, <1>13 DEF IsInPlace
  <2>4. l \in LeafCells(h, i) => z # x
    <3>1. SubkeysOf(h, q) = Entries(h, h.cell[e])
      BY <1>3 DEF s
    <3>2. SameLeaves(t, f, h, t[x].Parent, i) /\ i = t[t[x].Parent].SubKeyList
      BY <2>1
    <3> HIDE DEF p, i
    <3> QED  BY <1>1, <1>3, <1>13, <3>1, <3>2, UndamagedStays
  <2> HIDE DEF p, i
  <2>5. SubkeysOf(h, p) = Entries(h, h.cell[i]) /\ h.cell[p].SubKeyCount # 0
    BY <2>3 DEF SubkeysOf, Range
  <2>6. PICK k \in LeafCells(h, i) : x \in Range(h.cell[k].List)
    <3>1. Range(Entries(h, h.cell[i])) = UNION {Range(h.cell[k].List) : k \in LeafCells(h, i)}
      BY <1>1, <2>1, EntriesFacts
    <3> QED  BY <2>3, <2>5, <3>1
  <2>7. x \in Range(g.cell[k].List)
    <3>1. CASE k = l
      BY <1>9, <2>4, <2>6, <3>1
    <3>2. CASE k # l
      <4>1. k \in DOMAIN t /\ k # q
        BY <1>1, <1>8, <2>1, IndexFacts DEF IndicesOf
      <4> QED  BY <1>5, <2>6, <3>2, <4>1
    <3> QED  BY <3>1, <3>2
  <2>8. x \in Range(Entries(g, g.cell[i]))
    <3>1. Range(Entries(g, g.cell[i])) = UNION {Range(g.cell[m].List) : m \in LeafCells(g, i)}
      <4>1. Shaped(t, g.cell) /\ ~IndexIsBroken(g, i)
        BY <1>4, <2>2
      <4>2. LET E == Entries(g, g.cell[i]) IN Range(E) = UNION {Range(g.cell[m].List) : m \in LeafCells(g, i)}
        BY ONLY t \in Trees, <4>1, EntriesFacts
      <4> QED  BY <4>2
    <3> QED  BY <2>1, <2>2, <2>6, <2>7, <3>1
  <2>9. g.cell[p].SubKeyList = i /\ g.cell[p].SubKeyCount # 0
    <3>1. CASE p # q
      BY <1>5, <1>7, <2>1, <2>3, <2>5, <3>1
    <3>2. CASE p = q
      <4>1. e = i /\ x \in Range(s) /\ z # x
        BY <2>3, <2>4, <3>2 DEF e, s
      <4>2. Len(s) # 1
        BY <1>2, <4>1 DEF Range
      <4>3. h.cell[q].SubKeyCount - 1 # 0
        BY <1>2, <4>2
      <4>4. /\ g.cell[q].SubKeyCount = h.cell[q].SubKeyCount - 1
            /\ g.cell[q].SubKeyList = h.cell[q].SubKeyList
        BY <1>4, <1>7 DEF KeyNodes
      <4> QED  BY <2>3, <3>2, <4>3, <4>4
    <3> QED  BY <3>1, <3>2
  <2>10. SubkeysOf(g, p) = Entries(g, g.cell[i])
    BY <2>2, <2>9 DEF SubkeysOf
  <2> QED  BY <2>8, <2>9, <2>10 DEF IsInPlace, p, i
<1>14. Spared(t, f, g)
  BY <1>10, <1>11, <1>12, <1>13 DEF Spared
<1> QED  BY <1>14 DEF g

-----------------------------------------------------------------------------
(* The damage, the steps of the check, and what is spared *)

\* A write to a list adds no entry to a root, but for one that leads out of the hive.
LEMMA RootWritesFit ==
  ASSUME NEW t, NEW cells, NEW S, NEW list \in [Signature : {"ri", "junk"}, List : Seq(S)],
         NEW w \in ListWrites(cells, list)
  PROVE  Range(w.List) \subseteq Range(list.List) \cup {Outside}
<1> DEFINE L == list.List
<1>1. L \in Seq(S) /\ list = [Signature |-> list.Signature, List |-> L] /\ ~IsLeaf(list)
  BY DEF IsLeaf
<1> HIDE DEF L
<1>2. \/ w = [list EXCEPT !.Signature = IF @ = "list" THEN @ ELSE "junk"]
      \/ \E i \in DOMAIN L : w = [list EXCEPT !.List = RemoveAt(@, i)]
      \/ \E i \in DOMAIN L : w = [list EXCEPT !.List[i] = Outside]
  BY <1>1 DEF ListWrites, L
<1>3. CASE w = [list EXCEPT !.Signature = IF @ = "list" THEN @ ELSE "junk"]
  BY <1>1, <1>3
<1>4. ASSUME NEW i \in DOMAIN L, w = [list EXCEPT !.List = RemoveAt(@, i)]
      PROVE  Range(w.List) \subseteq Range(L)
  <2>1. w.List = RemoveAt(L, i) /\ i \in 1 .. Len(L)
    BY <1>1, <1>4
  <2>2. Range(RemoveAt(L, i)) \subseteq Range(L)
    BY <1>1, <2>1, OthersLeft
  <2> QED  BY <2>1, <2>2
<1>5. ASSUME NEW i \in DOMAIN L, w = [list EXCEPT !.List[i] = Outside]
      PROVE  Range(w.List) \subseteq Range(L) \cup {Outside}
  <2>1. w.List = [L EXCEPT ![i] = Outside]
    BY <1>1, <1>5
  <2>2. \A j \in DOMAIN L : [L EXCEPT ![i] = Outside][j] \in {L[j], Outside}
    BY <1>1
  <2> QED  BY <2>1, <2>2 DEF Range
<1> QED  BY <1>2, <1>3, <1>4, <1>5 DEF L

LEMMA RootsDamaged ==
  ASSUME NEW t \in Trees, NEW cells, Shaped(t, cells), NEW new \in Damaged(cells), NEW r \in CellsOf(t, "ri")
  PROVE  Range(new[r].List) \subseteq Range(cells[r].List) \cup {Outside}
<1>1. DOMAIN cells = DOMAIN t /\ r \in DOMAIN t
  BY TreeFacts DEF Shaped
<1>2. cells[r] \in [Signature : {"ri", "junk"}, List : Seq(CellsOf(t, "li") \cup {Outside})]
  BY <1>1, ShapeFacts
<1>3. CASE new = cells
  BY <1>3
<1>4. CASE new # cells
  <2> DEFINE Writes(c) == CASE cells[c].Signature = "kn" -> KeyWrites(cells, cells[c])
                            [] cells[c].Signature = "vk" -> ValueWrites(cells[c])
                            [] cells[c].Signature \in {"li", "ri", "list"} -> ListWrites(cells, cells[c])
                            [] OTHER -> {cells[c]}
  <2>1. PICK c \in DOMAIN t : \E w \in Writes(c) : new = [cells EXCEPT ![c] = w]
    BY <1>1, <1>4 DEF Damaged
  <2>2. PICK w \in Writes(c) : new = [cells EXCEPT ![c] = w]
    BY <2>1
  <2>3. c = r => w \in ListWrites(cells, cells[r]) \/ w = cells[r]
    BY <1>2
  <2> HIDE DEF Writes
  <2>4. CASE c # r
    BY <1>1, <2>2, <2>4
  <2>5. CASE c = r
    <3>1. new[r] = w
      BY <1>1, <2>2, <2>5
    <3>2. w \in ListWrites(cells, cells[r]) => Range(w.List) \subseteq Range(cells[r].List) \cup {Outside}
      <4> SUFFICES ASSUME w \in ListWrites(cells, cells[r])
                   PROVE  Range(w.List) \subseteq Range(cells[r].List) \cup {Outside}
        OBVIOUS
      <4> DEFINE S == CellsOf(t, "li") \cup {Outside}
                 list == cells[r]
      <4>1. list \in [Signature : {"ri", "junk"}, List : Seq(S)] /\ w \in ListWrites(cells, list)
        BY <1>2
      <4> HIDE DEF S, list
      <4>2. Range(w.List) \subseteq Range(list.List) \cup {Outside}
        BY ONLY <4>1, RootWritesFit
      <4> QED  BY <4>2 DEF list
    <3> QED  BY <2>3, <2>5, <3>1, <3>2
  <2> QED  BY <2>4, <2>5
<1> QED  BY <1>3, <1>4

\* In the hive that is loaded, what is not damaged is in its place.
LEMMA InitSpared == Init => Spared(tree, file.cell, hive)
<1> SUFFICES ASSUME Init PROVE Spared(tree, file.cell, hive)
  OBVIOUS
<1> DEFINE t == tree
           f == file.cell
<1>1. t \in Trees /\ hive.cell = f /\ Shaped(t, f) /\ Shaped(t, hive.cell)
  BY InitFits DEF Well
<1>2. /\ Shaped(t, t) /\ NamesAscend(t) /\ Of(t).cell = t
      /\ \A leaf \in CellsOf(t, "li") : Range(t[leaf].List) \subseteq KeysOf(t)
  BY <1>1, TreeIsSound
<1>3. NamesKept(t, f, hive)
  BY <1>1 DEF NamesKept
<1>4. RootsKept(t, f, hive)
  <2>1. PICK once \in Damaged(t) : f \in Damaged(once)
    BY DEF Init
  <2>2. Shaped(t, once)
    <3>1. ListsApart(t, t)
      BY <1>1, TreesAssumption
    <3> QED  BY <1>1, <1>2, <2>1, <3>1, DamageFits
  <2> HIDE DEF t, f
  <2>3. \A r \in CellsOf(t, "ri") : /\ Range(once[r].List) \subseteq Range(t[r].List) \cup {Outside}
                                    /\ Range(f[r].List) \subseteq Range(once[r].List) \cup {Outside}
    BY <1>1, <1>2, <2>1, <2>2, RootsDamaged
  <2> QED  BY <1>1, <2>3 DEF RootsKept
<1> HIDE DEF t, f
<1>5. LeavesKept(t, f, hive)
  <2>1. ASSUME NEW l \in CellsOf(t, "li")
        PROVE  IsLeaf(t[l]) /\ Ordered(t[l].List, ByName(t))
    <3>1. IsLeaf(t[l])
      BY DEF CellsOf, IsLeaf
    <3>2. \A i, j \in DOMAIN t[l].List : i < j => t[t[l].List[i]].Name < t[t[l].List[j]].Name
      BY <1>2 DEF NamesAscend
    <3>3. \A i \in DOMAIN t[l].List : t[l].List[i] \in KeysOf(t)
      BY <1>2 DEF Range
    <3> QED  BY <3>1, <3>2, <3>3 DEF Ordered, ByName
  <2> QED  BY <1>1, <2>1 DEF LeavesKept
<1>6. ASSUME NEW x \in KeysOf(t) \ {RootCell}, Undamaged(t, f, x)
      PROVE  IsInPlace(t, hive, x)
  <2> DEFINE p == t[x].Parent
             i == t[p].SubKeyList
  <2>1. /\ p \in KeysOf(t) /\ ~IndexIsBroken(hive, i) /\ LeafCells(hive, i) = LeafCells(Of(t), i)
        /\ t[p].SubKeyCount # 0 /\ ~IndexIsBroken(Of(t), i)
    BY <1>1, <1>4, <1>5, <1>6, UndamagedIndex DEF SameLeaves
  <2>2. x \in Range(SubkeysOf(Of(t), p))
    BY <1>1, TreeIsSound
  <2>3. f[p] = t[p] /\ \A l \in LeafCells(Of(t), i) : f[l] = t[l]
    BY <1>6 DEF Undamaged
  <2> HIDE DEF p, i
  <2>4. /\ SubkeysOf(Of(t), p) = Entries(Of(t), Of(t).cell[i])
        /\ SubkeysOf(hive, p) = Entries(hive, hive.cell[i])
    BY <1>1, <1>2, <2>1, <2>3 DEF SubkeysOf, i
  <2>5. Range(Entries(Of(t), Of(t).cell[i])) = UNION {Range(Of(t).cell[l].List) : l \in LeafCells(Of(t), i)}
    <3>1. Shaped(t, Of(t).cell)
      BY <1>2
    <3>2. LET E == Entries(Of(t), Of(t).cell[i]) IN
            Range(E) = UNION {Range(Of(t).cell[l].List) : l \in LeafCells(Of(t), i)}
      BY <1>1, <2>1, <3>1, EntriesFacts
    <3> QED  BY <3>2
  <2>6. Range(Entries(hive, hive.cell[i])) = UNION {Range(hive.cell[l].List) : l \in LeafCells(hive, i)}
    <3>1. LET E == Entries(hive, hive.cell[i]) IN
            Range(E) = UNION {Range(hive.cell[l].List) : l \in LeafCells(hive, i)}
      BY <1>1, <2>1, EntriesFacts
    <3> QED  BY <3>1
  <2>7. \A l \in LeafCells(hive, i) : hive.cell[l] = Of(t).cell[l]
    BY <1>1, <1>2, <2>1, <2>3
  <2>8. x \in Range(SubkeysOf(hive, p))
    BY <2>1, <2>2, <2>4, <2>5, <2>6, <2>7
  <2> QED  BY <1>1, <2>3, <2>8 DEF IsInPlace, p
<1>7. Spared(t, f, hive)
  BY <1>3, <1>4, <1>5, <1>6 DEF Spared
<1> QED  BY <1>7 DEF t, f

\* The inductive invariant of what is spared.
SparedInv == WalkInv /\ Spared(tree, file.cell, hive)

\* The key that the walk is at has to go when it is taken out: it was not to be repaired.
LEMMA RemovedHasToGo ==
  ASSUME WalkInv, Validate, NEW N, N = Len(WorkState),
         NEW fin, Walk(tree, hive, FixHive, WorkState, N - 1, fin), Spared(tree, file.cell, hive),
         NEW v \in CmpValidateKey(hive, WorkState[N].Parent, WorkState[N].Current, FixHive),
         ~(v.good /\ InOrder(v.hive)), Removable(v), Removes(v.hive)
  PROVE  Spared(tree, file.cell, hive')
<1> DEFINE c == WorkState[N].Current
           q == WorkState[N].Parent
           p == WorkState[N - 1].Current
           j == WorkState[N - 1].ChildCellIndex
<1>0. FixHive
  BY DEF Removable
<1>1. tree \in Trees /\ Well(tree, hive) /\ FixHive \in BOOLEAN
  BY DEF WalkInv, HiveInv
<1>2. /\ N \in Nat \ {0} /\ Last(WorkState) = WorkState[N]
      /\ c \in KeyOrOutside(tree) /\ q \in KeysOf(tree) \cup {HCELL_NIL}
      /\ N = 1 => c = RootCell
      /\ N # 1 => /\ p \in KeysOf(tree) /\ Valid(hive, p)
                  /\ SubkeysOf(hive, p) \in Seq(KeyOrOutside(tree)) /\ j \in 1 .. Len(SubkeysOf(hive, p))
                  /\ c = SubkeysOf(hive, p)[j] /\ q = p
                  /\ j = 1 => WorkState[N - 1].Sibling = HCELL_NIL
                  /\ j # 1 => WorkState[N - 1].Sibling = SubkeysOf(hive, p)[j - 1]
  <2>1. WalkAt(tree, hive, WorkState, fin, N)
    BY <1>1, WalkTop
  <2> QED  BY <2>1 DEF WalkAt
<1> HIDE DEF c, q, p, j
<1>3. Top.Current = c /\ Top.Parent = q /\ StackDepth = N - 1
  BY <1>2 DEF Top, StackDepth, c, q
<1>4. N # 1
  <2> SUFFICES ASSUME N = 1 PROVE FALSE
    OBVIOUS
  <2>1. InOrder(v.hive)
    BY <1>3 DEF InOrder
  <2> QED  BY <1>2, <1>3, <2>1 DEF Removable
<1>5. v \in CmpValidateKey(hive, q, c, FixHive)
  BY DEF c, q
<1>6. /\ Well(tree, v.hive) /\ SubkeysOf(v.hive, p) = SubkeysOf(hive, p) /\ Valid(v.hive, p)
      /\ Spared(tree, file.cell, v.hive)
      /\ ~v.good => ~(c \in KeysOf(tree) /\ v.hive.cell[c].Sane)
  <2>1. CASE c \in KeysOf(tree)
    <3>1. Touches(tree, hive, v.hive, c, q) /\ (hive.cell[c].Sane => v.good)
      <4>1. Touches(tree, hive, v.hive, c, q) /\ (hive.cell[c].Sane /\ FixHive => v.good)
        BY <1>1, <1>2, <1>5, <2>1, KeyValidates
      <4> QED  BY <1>0, <4>1
    <3>2. SubkeysOf(v.hive, p) = SubkeysOf(hive, p) /\ Valid(v.hive, p)
      BY <1>1, <1>2, <1>4, <2>1, <3>1, TouchesFacts
    <3>3. Spared(tree, file.cell, v.hive)
      BY <1>1, <2>1, <3>1, SparedTouched
    <3> QED  BY <3>1, <3>2, <3>3 DEF Touches
  <2>2. CASE c \notin KeysOf(tree)
    <3>1. v.hive = hive
      BY <1>1, <1>2, <1>5, <2>2, KeyValidates
    <3> QED  BY <1>1, <1>2, <1>4, <2>2, <3>1
  <2> QED  BY <2>1, <2>2
<1>7. hive' = CmpRepairParentKey(v.hive, c, p)
  BY <1>2, <1>3, <1>4 DEF Removes
<1>8. j \in DOMAIN SubkeysOf(v.hive, p) /\ c = SubkeysOf(v.hive, p)[j] /\ p \in KeysOf(tree)
  BY <1>2, <1>4, <1>6
<1>9. HasToGo(tree, v.hive, p, j)
  <2>1. CASE ~v.good
    BY <1>6, <1>8, <2>1 DEF HasToGo
  <2>2. CASE ~InOrder(v.hive)
    <3> DEFINE sibling == WorkState[N - 1].Sibling
    <3>1. sibling # HCELL_NIL /\ ~CmpValidateLexicalOrder(v.hive, c, sibling)
      BY <1>3, <2>2 DEF InOrder
    <3>2. j # 1 /\ sibling = SubkeysOf(v.hive, p)[j - 1]
      BY <1>2, <1>4, <1>6, <3>1
    <3> QED  BY <1>8, <3>1, <3>2 DEF HasToGo
  <2> QED  BY <2>1, <2>2
<1> QED  BY <1>1, <1>6, <1>7, <1>8, <1>9, SparedRemoved

LEMMA ValidateSpares == SparedInv /\ Validate => Spared(tree, file.cell, hive)'
<1> SUFFICES ASSUME SparedInv, Validate PROVE Spared(tree, file.cell, hive')
  BY DEF Validate
<1> DEFINE N == Len(WorkState)
           c == WorkState[N].Current
           q == WorkState[N].Parent
<1>1. tree \in Trees /\ Well(tree, hive) /\ FixHive \in BOOLEAN /\ WalkInv /\ Spared(tree, file.cell, hive)
  BY DEF SparedInv, WalkInv, HiveInv
<1>2. PICK fin : Walk(tree, hive, FixHive, WorkState, N - 1, fin)
  BY <1>1 DEF Validate, WalkInv, StackInv
<1>3. /\ N \in Nat \ {0} /\ Last(WorkState) = WorkState[N]
      /\ c \in KeyOrOutside(tree) /\ q \in KeysOf(tree) \cup {HCELL_NIL}
  <2>1. WalkAt(tree, hive, WorkState, fin, N)
    BY <1>1, <1>2, WalkTop
  <2> QED  BY <2>1 DEF WalkAt
<1>4. Top.Current = c /\ Top.Parent = q
  BY <1>3 DEF Top
<1>5. PICK v \in CmpValidateKey(hive, q, c, FixHive) : Validated(v)
  BY <1>4 DEF Validate
<1>6. Spared(tree, file.cell, v.hive)
  <2> HIDE DEF c, q
  <2>1. CASE c \in KeysOf(tree)
    <3>1. Touches(tree, hive, v.hive, c, q)
      BY <1>1, <1>3, <1>5, <2>1, KeyValidates
    <3> QED  BY <1>1, <2>1, <3>1, SparedTouched
  <2>2. CASE c \notin KeysOf(tree)
    BY <1>1, <1>3, <1>5, <2>2, KeyValidates
  <2> QED  BY <2>1, <2>2
<1>7. CASE v.good /\ InOrder(v.hive)
  BY <1>5, <1>6, <1>7 DEF Validated
<1>8. CASE ~(v.good /\ InOrder(v.hive)) /\ Removable(v)
  <2>1. Removes(v.hive)
    BY <1>5, <1>8 DEF Validated
  <2> QED  BY <1>1, <1>2, <1>5, <1>8, <2>1, RemovedHasToGo
<1>9. CASE ~(v.good /\ InOrder(v.hive)) /\ ~Removable(v)
  BY <1>5, <1>6, <1>9 DEF Validated, Fails
<1> QED  BY <1>7, <1>8, <1>9

LEMMA SparedInvariant == Spec => []SparedInv
<1>1. Init => SparedInv
  BY InitWalk, InitSpared DEF SparedInv
<1>2. SparedInv /\ [Next]_vars => SparedInv'
  <2> SUFFICES ASSUME SparedInv, [Next]_vars PROVE SparedInv'
    OBVIOUS
  <2>1. WalkInv'
    BY NextWalk DEF SparedInv
  <2>2. CASE Validate
    BY <2>1, <2>2, ValidateSpares DEF SparedInv
  <2>3. CASE CmCheckRegistry \/ Descend \/ Return \/ UNCHANGED vars
    <3>1. UNCHANGED <<tree, file, hive>>
      BY <2>3 DEF CmCheckRegistry, Descend, Return, vars
    <3> QED  BY <2>1, <3>1 DEF SparedInv
  <2> QED  BY <2>2, <2>3 DEF Next
<1> QED  BY <1>1, <1>2, PTL DEF Spec

(***************************************************************************)
(* A key that has nothing damaged on the path to it can be reached: along  *)
(* the tree as it was meant to be, each key of the path is in its place.   *)
(***************************************************************************)
LEMMA SparedIsReached ==
  ASSUME tree \in Trees, NEW h, Well(tree, h), NEW f, Spared(tree, f, h), NEW c \in KeysOf(tree),
         \A d \in PathTo(c) \cup ListsOver(PathTo(c) \ {c}) : f[d] = tree[d],
         \A s \in Before(PathTo(c)) : f[s].Name = tree[s].Name
  PROVE  c \in Reached(h)
<1> DEFINE path == PathTo(c)
<1>1. /\ Reached(h) \subseteq KeysOf(tree) /\ RootCell \in Reached(h)
      /\ Below(h, Reached(h)) \subseteq Reached(h)
  BY ReachedFacts DEF Well, Closed
<1>2. /\ Shaped(tree, tree) /\ Of(tree).cell = tree
      /\ \A k \in KeysOf(tree) : \A z \in Range(SubkeysOf(Of(tree), k)) :
           z \in KeysOf(tree) /\ z # RootCell /\ tree[z].Parent = k
      /\ \A ks \in SUBSET KeysOf(tree) :
           RootCell \in ks /\ (\A k \in ks : Range(SubkeysOf(Of(tree), k)) \subseteq ks) => ks = KeysOf(tree)
      /\ \A z \in KeysOf(tree) \ {RootCell} : tree[z].Parent \in KeysOf(tree)
  BY TreeIsSound
<1>3. /\ path \subseteq KeysOf(tree) /\ c \in path
      /\ \A k \in path \ {RootCell} : tree[k].Parent \in path
  BY <1>2, PathFacts
<1>4. /\ \A d \in path : f[d] = tree[d]
      /\ \A d \in ListsOver(path \ {c}) : f[d] = tree[d]
      /\ \A s \in Before(path) : f[s].Name = tree[s].Name
  OBVIOUS
<1> HIDE DEF path
<1>5. ASSUME NEW y \in path, y # c, NEW z \in path, z \in Range(SubkeysOf(Of(tree), y))
      PROVE  z \in Range(SubkeysOf(h, y))
  <2> DEFINE i == tree[y].SubKeyList
  <2>1. z \in KeysOf(tree) \ {RootCell} /\ tree[z].Parent = y
    BY <1>2, <1>3, <1>5
  <2>2. ~IndexIsBroken(Of(tree), i)
    BY <1>2, <1>5 DEF SubkeysOf, Range
  <2>3. i \in DOMAIN tree /\ tree[i].Signature \in {"li", "ri"} /\ i # HCELL_NIL
    <3>1. Shaped(tree, Of(tree).cell)
      BY <1>2
    <3>2. i \in DOMAIN tree /\ Of(tree).cell[i].Signature \in {"li", "ri"}
      BY <2>2, <3>1, IndexFacts
    <3> QED  BY <1>2, <3>2, TreeFacts
  <2>4. i \in ListsOver(path \ {c})
    BY <1>5, <2>3 DEF ListsOver
  <2>5. LeafCells(Of(tree), i) \subseteq ListsOver(path \ {c})
    <3>1. CASE IsLeaf(tree[i])
      BY <1>2, <2>4, <3>1 DEF LeafCells
    <3>2. CASE ~IsLeaf(tree[i])
      <4>1. tree[i].Signature = "ri" /\ LeafCells(Of(tree), i) = Range(tree[i].List)
        BY <1>2, <2>3, <3>2 DEF LeafCells, IsLeaf
      <4> QED  BY <1>5, <2>3, <4>1 DEF ListsOver
    <3> QED  BY <3>1, <3>2
  <2>6. \A s \in KeysOf(tree) : tree[s].Parent = y /\ tree[s].Name < tree[z].Name => f[s].Name = tree[s].Name
    BY <1>4, <1>5, <2>1 DEF Before
  <2>7. Undamaged(tree, f, z)
    <3>1. f[z] = tree[z] /\ f[y] = tree[y] /\ f[i] = tree[i]
          /\ \A d \in LeafCells(Of(tree), i) : f[d] = tree[d]
      BY <1>4, <1>5, <2>4, <2>5
    <3> QED  BY <2>1, <2>6, <3>1 DEF Undamaged
  <2> QED  BY <2>1, <2>7 DEF Spared, IsInPlace
<1> DEFINE X == {k \in KeysOf(tree) : c \in Reached(h) \/ (k \in path => k \in Reached(h))}
<1>6. ASSUME NEW k \in X, NEW z \in Range(SubkeysOf(Of(tree), k))
      PROVE  z \in X
  <2>1. z \in KeysOf(tree) /\ z # RootCell /\ tree[z].Parent = k
    BY <1>2
  <2> SUFFICES ASSUME c \notin Reached(h), z \in path PROVE z \in Reached(h)
    BY <2>1
  <2>2. k \in path /\ k \in Reached(h) /\ k # c
    BY <1>3, <2>1
  <2>3. z \in Range(SubkeysOf(h, k))
    BY <1>5, <2>2
  <2>4. z \in DOMAIN h.cell
    BY <2>1, KeyFacts
  <2>5. z \in Below(h, Reached(h))
    BY <2>2, <2>3, <2>4 DEF Below
  <2> QED  BY <1>1, <2>5
<1>7. X = KeysOf(tree)
  <2>1. X \in SUBSET KeysOf(tree) /\ RootCell \in X
    BY <1>1
  <2>2. \A k \in X : Range(SubkeysOf(Of(tree), k)) \subseteq X
    BY <1>6
  <2> HIDE DEF X
  <2> QED  BY <1>2, <2>1, <2>2
<1> QED  BY <1>3, <1>7

(***************************************************************************)
(* A check that repairs takes no key out of the tree but those that are    *)
(* damaged and what hangs from them (CmpRepairParentKey, cmheal.cpp): a    *)
(* key is lost only if it, a key or list above it, or the name of a        *)
(* sibling before one of these was damaged, for every tree and any number  *)
(* of restarts.                                                            *)
(***************************************************************************)
THEOREM DamagedKeysLost == Spec => []OnlyDamagedKeysLost
<1>1. SparedInv => OnlyDamagedKeysLost
  <2> SUFFICES ASSUME SparedInv, NEW c \in KeysOf(tree),
                      \A d \in PathTo(c) \cup ListsOver(PathTo(c) \ {c}) : file.cell[d] = tree[d],
                      \A s \in Before(PathTo(c)) : file.cell[s].Name = tree[s].Name
               PROVE  c \in Reached(hive)
    BY DEF OnlyDamagedKeysLost
  <2>1. tree \in Trees /\ Well(tree, hive) /\ Spared(tree, file.cell, hive)
    BY DEF SparedInv, WalkInv, HiveInv
  <2> QED  BY <2>1, SparedIsReached
<1> QED  BY <1>1, SparedInvariant, PTL
=============================================================================
