-------------------------- MODULE SubkeyIndexProofs --------------------------
(***************************************************************************)
(* Proofs about SubkeyIndex, for every set of names and subkeys, every     *)
(* version and all limits of leaves: all the properties of the module, and *)
(* that the index behaves as the set of subkeys of SubkeySet.              *)
(*                                                                         *)
(* An index is seen as its pages, the lists of its leaves in their order,  *)
(* and as the chain of the cells that hold them.  The invariant, Good, has *)
(* both: the names rise from page to page, which is what the searches rest *)
(* on, the chain has every cell of the storage type once, which is what    *)
(* the moves of cells rest on, and the node of the key counts the entries. *)
(*                                                                         *)
(* The proof goes upwards: what the binary search finds in numbers that    *)
(* fall once (Narrow); what the searches find on pages; what additions,    *)
(* removals and splits do to pages; what the operations on cells do to a   *)
(* hive (Step); what they do to a chain; and the calls.  Recursive         *)
(* functions are shown to exist and to be right by their smallest          *)
(* counterexample (MinFacts).                                              *)
(***************************************************************************)
EXTENDS SubkeyIndex, SequenceTheorems, FiniteSetTheorems, WellFoundedInduction, TLAPS

-----------------------------------------------------------------------------
(* Numbers *)

\* The smallest number of a non-empty set.
LEMMA MinFacts ==
  ASSUME NEW T \in SUBSET Nat, T # {}
  PROVE  Min(T) \in T /\ \A n \in T : Min(T) <= n
<1> DEFINE R == OpToRel(<, Nat)
<1>1. IsWellFoundedOn(R, Nat)
  BY NatLessThanWellFounded
<1>2. R = {ss \in Nat \X Nat : ss[1] < ss[2]}
  BY Zenon DEF OpToRel
<1> HIDE DEF R
<1>3. PICK x \in T : \A y \in T : <<y, x>> \notin R
  BY <1>1, WFMin
<1>4. \A y \in T : x <= y
  <2> SUFFICES ASSUME NEW y \in T, ~(x <= y) PROVE <<y, x>> \in R
    BY <1>3
  <2>1. x \in Nat /\ y \in Nat /\ y < x
    OBVIOUS
  <2>2. <<y, x>> \in Nat \X Nat /\ <<y, x>>[1] = y /\ <<y, x>>[2] = x
    BY <2>1
  <2>3. QED
    BY <2>1, <2>2, <1>2
<1>5. QED
  BY <1>3, <1>4 DEF Min

-----------------------------------------------------------------------------
(* The binary search *)

\* What is compared: the positions of a list that is not empty.
Comparisons(n) == [0 .. n - 1 -> Int]

\* The function f narrows every interval that is at most w positions wide.
NarrowsUpTo(Cmp, w, f) ==
  \A at \in [Low : DOMAIN Cmp, High : DOMAIN Cmp] :
    at.High - at.Low <= w =>
      f[at] = IF Round(Cmp, at).High - Round(Cmp, at).Low <= 1 THEN Round(Cmp, at)
              ELSE f[Round(Cmp, at)]

\* A round yields an interval of the list, which is narrower if it is not the last.
LEMMA RoundFacts ==
  ASSUME NEW n \in Nat \ {0}, NEW Cmp \in Comparisons(n),
         NEW at \in [Low : DOMAIN Cmp, High : DOMAIN Cmp]
  PROVE  /\ Round(Cmp, at) \in [Low : DOMAIN Cmp, High : DOMAIN Cmp]
         /\ Round(Cmp, at).High - Round(Cmp, at).Low > 1 =>
              Round(Cmp, at).High - Round(Cmp, at).Low < at.High - at.Low
         /\ at.Low <= at.High => Round(Cmp, at).Low <= Round(Cmp, at).High
         /\ \/ Round(Cmp, at).Low = at.Low
            \/ Cmp[Round(Cmp, at).Low] > 0
            \/ Round(Cmp, at).Low = Round(Cmp, at).High /\ Cmp[Round(Cmp, at).Low] = 0
         /\ \/ Round(Cmp, at).High = at.High
            \/ Cmp[Round(Cmp, at).High] < 0
            \/ Round(Cmp, at).Low = Round(Cmp, at).High /\ Cmp[Round(Cmp, at).Low] = 0
<1> DEFINE i == (at.High - at.Low) \div 2 + at.Low
<1>1. /\ DOMAIN Cmp = 0 .. n - 1 /\ at.Low \in 0 .. n - 1 /\ at.High \in 0 .. n - 1
      /\ at = [Low |-> at.Low, High |-> at.High]
  BY DEF Comparisons
<1>2. /\ i \in Int
      /\ at.Low <= at.High => at.Low <= i /\ i <= at.High
      /\ at.Low > at.High => at.High <= i /\ i <= at.Low
      /\ at.High - at.Low > 1 => at.Low < i /\ i < at.High
  BY <1>1
<1>3. Cmp[i] \in Int /\ i \in 0 .. n - 1
  BY <1>1, <1>2 DEF Comparisons
<1>4. Round(Cmp, at) = [Low  |-> IF Cmp[i] >= 0 THEN i ELSE at.Low,
                        High |-> IF Cmp[i] <= 0 THEN i ELSE at.High]
  BY DEF Round
<1> HIDE DEF i
<1>5. QED
  BY <1>1, <1>2, <1>3, <1>4

LEMMA NarrowsExist ==
  ASSUME NEW n \in Nat \ {0}, NEW Cmp \in Comparisons(n)
  PROVE  \E f : f = [at \in [Low : DOMAIN Cmp, High : DOMAIN Cmp] |->
                       IF Round(Cmp, at).High - Round(Cmp, at).Low <= 1 THEN Round(Cmp, at)
                       ELSE f[Round(Cmp, at)]]
<1> DEFINE D == [Low : DOMAIN Cmp, High : DOMAIN Cmp]
           Width(at) == at.High - at.Low
           Body(f, at) == IF Width(Round(Cmp, at)) <= 1 THEN Round(Cmp, at) ELSE f[Round(Cmp, at)]
           Bad == {w \in Nat : ~ \E f : NarrowsUpTo(Cmp, w, f)}
<1>1. DOMAIN Cmp = 0 .. n - 1
  BY DEF Comparisons
<1>2. \A at \in D : Width(at) \in Int /\ Width(at) <= n - 1
  BY <1>1
<1>3. \A at \in D : /\ Round(Cmp, at) \in D
                    /\ Width(Round(Cmp, at)) > 1 => Width(Round(Cmp, at)) < Width(at)
  BY RoundFacts
<1>4. Bad = {}
  <2> SUFFICES ASSUME Bad # {} PROVE FALSE
    OBVIOUS
  <2> DEFINE w == Min(Bad)
  <2>1. w \in Bad /\ \A v \in Bad : w <= v
    BY MinFacts
  <2> HIDE DEF w
  <2>2. PICK g : w # 0 => NarrowsUpTo(Cmp, w - 1, g)
    <3>1. w # 0 => w - 1 \in Nat /\ w - 1 \notin Bad
      BY <2>1
    <3>2. QED
      BY <3>1
  <2> DEFINE f == [at \in D |-> IF w # 0 /\ Width(at) < w THEN g[at] ELSE Body(g, at)]
  <2>3. ASSUME NEW at \in D, Width(at) <= w PROVE f[at] = Body(f, at)
    <3> DEFINE next == Round(Cmp, at)
    <3>0. w # 0 /\ Width(at) < w => g[at] = Body(g, at)
      <4>1. Width(at) < w => Width(at) <= w - 1
        BY <1>2, <2>1
      <4>2. QED
        BY <4>1, <2>2 DEF NarrowsUpTo
    <3>1. CASE Width(next) <= 1
      BY <3>0, <3>1
    <3>2. CASE ~(Width(next) <= 1)
      <4>1. next \in D /\ Width(next) < w
        BY <1>2, <1>3, <2>1, <2>3, <3>2
      <4>2. w # 0
        BY <1>2, <1>3, <2>1, <3>2, <4>1
      <4>3. f[next] = g[next]
        <5> HIDE DEF next
        <5>1. QED
          BY <4>1, <4>2
      <4>4. QED
        BY <3>0, <3>2, <4>2, <4>3
    <3>3. QED
      BY <3>1, <3>2
  <2> HIDE DEF f
  <2>4. NarrowsUpTo(Cmp, w, f)
    BY <2>3 DEF NarrowsUpTo
  <2>5. QED
    BY <2>1, <2>4
<1>5. PICK g : NarrowsUpTo(Cmp, n, g)
  BY <1>4
<1> DEFINE f == [at \in D |-> g[at]]
<1>6. ASSUME NEW at \in D PROVE f[at] = Body(f, at)
  <2>1. g[at] = Body(g, at)
    BY <1>2, <1>5 DEF NarrowsUpTo
  <2>2. QED
    BY <1>3, <2>1
<1>7. f = [at \in D |-> f[at]]
  OBVIOUS
<1> HIDE DEF f
<1>8. f = [at \in D |-> Body(f, at)]
  BY <1>6, <1>7, Zenon
<1>9. QED
  BY <1>8

\* Where a search ends: at a position that is equal, or in an interval of one or two
\* positions outside of which everything has been excluded.
Narrowed(Cmp, n, at) ==
  /\ at \in [Low : 0 .. n - 1, High : 0 .. n - 1]
  /\ at.Low <= at.High /\ at.High - at.Low <= 1
  /\ \/ at.Low = at.High /\ Cmp[at.Low] = 0
     \/ /\ at.Low = 0 \/ Cmp[at.Low] > 0
        /\ at.High = n - 1 \/ Cmp[at.High] < 0

LEMMA NarrowFacts ==
  ASSUME NEW n \in Nat \ {0}, NEW Cmp \in Comparisons(n)
  PROVE  Narrowed(Cmp, n, Narrow(Cmp))
<1> DEFINE D == [Low : DOMAIN Cmp, High : DOMAIN Cmp]
           Body(f, at) == IF Round(Cmp, at).High - Round(Cmp, at).Low <= 1 THEN Round(Cmp, at)
                          ELSE f[Round(Cmp, at)]
           f == CHOOSE f : f = [at \in D |->
                       IF Round(Cmp, at).High - Round(Cmp, at).Low <= 1 THEN Round(Cmp, at)
                       ELSE f[Round(Cmp, at)]]
           start == [Low |-> 0, High |-> Cardinality(DOMAIN Cmp) - 1]
           Open(at) == /\ at \in D /\ at.Low <= at.High
                       /\ at.Low = 0 \/ Cmp[at.Low] > 0
                       /\ at.High = n - 1 \/ Cmp[at.High] < 0
           Bad == {w \in Nat : \E at \in D : /\ Open(at) /\ at.High - at.Low = w
                                             /\ ~Narrowed(Cmp, n, f[at])}
<1>1. DOMAIN Cmp = 0 .. n - 1 /\ Cmp \in [0 .. n - 1 -> Int]
  BY DEF Comparisons
<1>2. Narrow(Cmp) = f[start]
  BY DEF Narrow
<1>3. f = [at \in D |-> Body(f, at)]
  BY NarrowsExist
<1> HIDE DEF f
<1>4. \A at \in D : f[at] = Body(f, at)
  BY <1>3, Zenon
<1>5. start = [Low |-> 0, High |-> n - 1]
  <2>1. Cardinality(0 .. n - 1) = n
    BY FS_Interval
  <2>2. QED
    BY <2>1, <1>1
<1>6. Bad = {}
  <2> SUFFICES ASSUME Bad # {} PROVE FALSE
    OBVIOUS
  <2> DEFINE w == Min(Bad)
  <2>1. w \in Bad /\ \A v \in Bad : w <= v
    BY MinFacts
  <2> HIDE DEF w
  <2>2. PICK at \in D : Open(at) /\ at.High - at.Low = w /\ ~Narrowed(Cmp, n, f[at])
    BY <2>1
  <2> DEFINE next == Round(Cmp, at)
  <2>3. /\ next \in D /\ next.Low <= next.High
        /\ next.High - next.Low > 1 => next.High - next.Low < w
        /\ Open(next) \/ (next.Low = next.High /\ Cmp[next.Low] = 0)
    BY <2>2, RoundFacts
  <2>4. CASE next.High - next.Low <= 1
    <3>1. f[at] = next
      BY <1>4, <2>4
    <3>2. Narrowed(Cmp, n, next)
      BY <1>1, <2>3, <2>4 DEF Narrowed
    <3>3. QED
      BY <2>2, <3>1, <3>2
  <2>5. CASE ~(next.High - next.Low <= 1)
    <3>1. f[at] = f[next]
      BY <1>4, <2>5
    <3>2. Open(next) /\ next.High - next.Low \in Nat /\ next.High - next.Low < w
      <4>1. next.Low \in 0 .. n - 1 /\ next.High \in 0 .. n - 1
        BY <1>1, <2>3
      <4> HIDE DEF next
      <4>2. QED
        BY <2>3, <2>5, <4>1
    <3>3. next.High - next.Low \notin Bad
      BY <2>1, <3>2
    <3>4. Narrowed(Cmp, n, f[next])
      BY <2>3, <3>2, <3>3
    <3>5. QED
      BY <2>2, <3>1, <3>4
  <2>6. QED
    BY <2>4, <2>5, <1>1, <2>3
<1>7. start \in D /\ Open(start) /\ n - 1 \in Nat /\ start.High - start.Low = n - 1
  BY <1>1, <1>5
<1>8. QED
  BY <1>2, <1>6, <1>7

-----------------------------------------------------------------------------
(* Sequences *)

\* What removing one element does to a list.
LEMMA RemoveAtFacts ==
  ASSUME NEW S, NEW l \in Seq(S), NEW i \in DOMAIN l
  PROVE  /\ RemoveAt(l, i) \in Seq(S)
         /\ Len(RemoveAt(l, i)) = Len(l) - 1
         /\ \A j \in 1 .. Len(l) - 1 :
              RemoveAt(l, i)[j] = IF j < i THEN l[j] ELSE l[j + 1]
<1> DEFINE a == SubSeq(l, 1, i - 1)
           b == SubSeq(l, i + 1, Len(l))
<1>1. DOMAIN l = 1 .. Len(l) /\ Len(l) \in Nat /\ \A j \in 1 .. Len(l) : l[j] \in S
  BY LenProperties, ElementOfSeq
<1>2. /\ a \in Seq(S) /\ Len(a) = i - 1
      /\ \A j \in 1 .. i - 1 : a[j] = l[j]
  <2>1. \A j \in 1 .. i - 1 : l[j] \in S
    BY <1>1
  <2>2. /\ a \in Seq(S) /\ Len(a) = IF 1 <= i - 1 THEN i - 1 - 1 + 1 ELSE 0
        /\ \A j \in 1 .. i - 1 - 1 + 1 : a[j] = l[1 + j - 1]
    BY <1>1, <2>1, SubSeqProperties
  <2>3. QED
    BY <1>1, <2>2
<1>3. /\ b \in Seq(S) /\ Len(b) = Len(l) - i
      /\ \A j \in 1 .. Len(l) - i : b[j] = l[i + j]
  <2>1. \A j \in i + 1 .. Len(l) : l[j] \in S
    BY <1>1
  <2>2. /\ b \in Seq(S) /\ Len(b) = IF i + 1 <= Len(l) THEN Len(l) - (i + 1) + 1 ELSE 0
        /\ \A j \in 1 .. Len(l) - (i + 1) + 1 : b[j] = l[i + 1 + j - 1]
    BY <1>1, <2>1, SubSeqProperties
  <2> HIDE DEF b
  <2>3. Len(b) = Len(l) - i
    BY <1>1, <2>2
  <2>4. ASSUME NEW j \in 1 .. Len(l) - i PROVE b[j] = l[i + j]
    <3>1. j \in 1 .. Len(l) - (i + 1) + 1 /\ i + 1 + j - 1 = i + j
      BY <1>1
    <3>2. QED
      BY <2>2, <3>1
  <2>5. QED
    BY <2>2, <2>3, <2>4
<1> HIDE DEF a, b
<1>4. /\ a \o b \in Seq(S)
      /\ Len(a \o b) = Len(a) + Len(b)
      /\ \A j \in 1 .. Len(a) + Len(b) :
           (a \o b)[j] = IF j <= Len(a) THEN a[j] ELSE b[j - Len(a)]
  BY <1>2, <1>3, ConcatProperties
<1>5. RemoveAt(l, i) = a \o b
  BY DEF RemoveAt, a, b
<1>6. Len(a) + Len(b) = Len(l) - 1 /\ Len(a) = i - 1
  BY <1>1, <1>2, <1>3
<1>7. ASSUME NEW j \in 1 .. Len(l) - 1
      PROVE  (a \o b)[j] = IF j < i THEN l[j] ELSE l[j + 1]
  <2>1. (a \o b)[j] = IF j <= i - 1 THEN a[j] ELSE b[j - (i - 1)]
    BY <1>4, <1>6
  <2>2. CASE j < i
    <3>1. j \in 1 .. i - 1 /\ j <= i - 1
      BY <1>1, <2>2
    <3>2. QED
      BY <1>2, <2>1, <2>2, <3>1
  <2>3. CASE ~(j < i)
    <3>1. ~(j <= i - 1) /\ j - (i - 1) \in 1 .. Len(l) - i /\ i + (j - (i - 1)) = j + 1
      BY <1>1, <2>3
    <3>2. QED
      BY <1>3, <2>1, <2>3, <3>1
  <2>4. QED
    BY <2>2, <2>3
<1>8. QED
  BY <1>4, <1>5, <1>6, <1>7

LEMMA InsertAtFacts ==
  ASSUME NEW S, NEW l \in Seq(S), NEW i \in 1 .. Len(l) + 1, NEW e \in S
  PROVE  /\ InsertAt(l, i, e) \in Seq(S)
         /\ Len(InsertAt(l, i, e)) = Len(l) + 1
         /\ \A j \in 1 .. Len(l) + 1 :
              InsertAt(l, i, e)[j] = IF j < i THEN l[j] ELSE IF j = i THEN e ELSE l[j - 1]
<1> DEFINE a == SubSeq(l, 1, i - 1)
           b == SubSeq(l, i, Len(l))
           c == a \o <<e>>
<1>1. DOMAIN l = 1 .. Len(l) /\ Len(l) \in Nat /\ \A j \in 1 .. Len(l) : l[j] \in S
  BY LenProperties, ElementOfSeq
<1>2. /\ a \in Seq(S) /\ Len(a) = i - 1
      /\ \A j \in 1 .. i - 1 : a[j] = l[j]
  <2>1. \A j \in 1 .. i - 1 : l[j] \in S
    BY <1>1
  <2>2. /\ a \in Seq(S) /\ Len(a) = IF 1 <= i - 1 THEN i - 1 - 1 + 1 ELSE 0
        /\ \A j \in 1 .. i - 1 - 1 + 1 : a[j] = l[1 + j - 1]
    BY <1>1, <2>1, SubSeqProperties
  <2> HIDE DEF a
  <2>3. QED
    BY <1>1, <2>2
<1>3. /\ b \in Seq(S) /\ Len(b) = Len(l) - i + 1
      /\ \A j \in 1 .. Len(l) - i + 1 : b[j] = l[i + j - 1]
  <2>1. \A j \in i .. Len(l) : l[j] \in S
    BY <1>1
  <2>2. /\ b \in Seq(S) /\ Len(b) = IF i <= Len(l) THEN Len(l) - i + 1 ELSE 0
        /\ \A j \in 1 .. Len(l) - i + 1 : b[j] = l[i + j - 1]
    BY <1>1, <2>1, SubSeqProperties
  <2> HIDE DEF b
  <2>3. QED
    BY <1>1, <2>2
<1> HIDE DEF a, b
<1>4. <<e>> \in Seq(S) /\ Len(<<e>>) = 1 /\ <<e>>[1] = e
  OBVIOUS
<1>5. /\ c \in Seq(S) /\ Len(c) = i
      /\ \A j \in 1 .. i : c[j] = IF j < i THEN l[j] ELSE e
  <2>1. /\ c \in Seq(S) /\ Len(c) = Len(a) + Len(<<e>>)
        /\ \A j \in 1 .. Len(a) + Len(<<e>>) :
             c[j] = IF j <= Len(a) THEN a[j] ELSE <<e>>[j - Len(a)]
    BY <1>2, <1>4, ConcatProperties
  <2> HIDE DEF c
  <2>2. ASSUME NEW j \in 1 .. i PROVE c[j] = IF j < i THEN l[j] ELSE e
    <3>1. CASE j < i
      <4>1. j \in 1 .. i - 1 /\ j \in 1 .. Len(a) + Len(<<e>>) /\ j <= Len(a)
        BY <1>1, <1>2, <1>4, <3>1
      <4>2. c[j] = a[j] /\ a[j] = l[j]
        BY <1>2, <2>1, <4>1
      <4>3. QED
        BY <3>1, <4>2
    <3>2. CASE j = i
      <4>1. j \in 1 .. Len(a) + Len(<<e>>) /\ ~(j <= Len(a)) /\ j - Len(a) = 1
        BY <1>1, <1>2, <1>4, <3>2
      <4>2. c[j] = <<e>>[1]
        BY <2>1, <4>1
      <4>3. QED
        BY <1>4, <3>2, <4>2
    <3>3. QED
      BY <3>1, <3>2
  <2>3. QED
    BY <1>1, <1>2, <1>4, <2>1, <2>2
<1> HIDE DEF c
<1>6. /\ c \o b \in Seq(S) /\ Len(c \o b) = Len(c) + Len(b)
      /\ \A j \in 1 .. Len(c) + Len(b) :
           (c \o b)[j] = IF j <= Len(c) THEN c[j] ELSE b[j - Len(c)]
  BY <1>3, <1>5, ConcatProperties
<1>7. InsertAt(l, i, e) = c \o b
  BY DEF InsertAt, a, b, c
<1>8. ASSUME NEW j \in 1 .. Len(l) + 1
      PROVE  (c \o b)[j] = IF j < i THEN l[j] ELSE IF j = i THEN e ELSE l[j - 1]
  <2>1. j \in 1 .. Len(c) + Len(b)
    BY <1>1, <1>3, <1>5
  <2>2. CASE j <= i
    <3>1. j \in 1 .. i /\ j <= Len(c)
      BY <1>1, <1>5, <2>2
    <3>2. (c \o b)[j] = c[j]
      BY <1>6, <2>1, <3>1
    <3>3. QED
      BY <1>5, <2>2, <3>1, <3>2
  <2>3. CASE ~(j <= i)
    <3>1. ~(j <= Len(c)) /\ j - Len(c) = j - i /\ j - i \in 1 .. Len(l) - i + 1
      BY <1>1, <1>5, <2>3
    <3>2. (c \o b)[j] = b[j - i]
      BY <1>6, <2>1, <3>1
    <3>3. b[j - i] = l[i + (j - i) - 1] /\ i + (j - i) - 1 = j - 1
      BY <1>1, <1>3, <3>1
    <3>4. QED
      BY <1>1, <2>3, <3>2, <3>3
  <2>4. QED
    BY <1>1, <2>2, <2>3
<1>9. QED
  BY <1>1, <1>3, <1>5, <1>6, <1>7, <1>8

\* A part of a list.
LEMMA PartFacts ==
  ASSUME NEW S, NEW l \in Seq(S), NEW m \in 1 .. Len(l) + 1, NEW n \in m - 1 .. Len(l)
  PROVE  /\ SubSeq(l, m, n) \in Seq(S)
         /\ Len(SubSeq(l, m, n)) = n - m + 1
         /\ \A j \in 1 .. n - m + 1 : SubSeq(l, m, n)[j] = l[m + j - 1]
<1>1. DOMAIN l = 1 .. Len(l) /\ Len(l) \in Nat /\ \A j \in 1 .. Len(l) : l[j] \in S
  BY LenProperties, ElementOfSeq
<1>2. \A j \in m .. n : l[j] \in S
  BY <1>1
<1>3. m \in Int /\ n \in Int
  BY <1>1
<1>4. /\ SubSeq(l, m, n) \in Seq(S)
      /\ Len(SubSeq(l, m, n)) = IF m <= n THEN n - m + 1 ELSE 0
      /\ \A j \in 1 .. n - m + 1 : SubSeq(l, m, n)[j] = l[m + j - 1]
  BY <1>2, <1>3, SubSeqProperties
<1>5. QED
  BY <1>1, <1>4

\* One entry of the list after an insertion.
LEMMA InsertedAt ==
  ASSUME NEW S, NEW l \in Seq(S), NEW i \in 1 .. Len(l) + 1, NEW e \in S,
         NEW j \in 1 .. Len(l) + 1
  PROVE  InsertAt(l, i, e)[j] = IF j < i THEN l[j] ELSE IF j = i THEN e ELSE l[j - 1]
BY InsertAtFacts

\* The elements of a list after a change.
LEMMA InsertedRange ==
  ASSUME NEW S, NEW l \in Seq(S), NEW i \in 1 .. Len(l) + 1, NEW e \in S
  PROVE  Range(InsertAt(l, i, e)) = Range(l) \cup {e}
<1>0. /\ InsertAt(l, i, e) \in Seq(S) /\ Len(InsertAt(l, i, e)) = Len(l) + 1
      /\ \A j \in 1 .. Len(l) + 1 :
           InsertAt(l, i, e)[j] = IF j < i THEN l[j] ELSE IF j = i THEN e ELSE l[j - 1]
  <2>1. InsertAt(l, i, e) \in Seq(S) /\ Len(InsertAt(l, i, e)) = Len(l) + 1
    BY InsertAtFacts
  <2>2. ASSUME NEW j \in 1 .. Len(l) + 1
        PROVE  InsertAt(l, i, e)[j] = IF j < i THEN l[j] ELSE IF j = i THEN e ELSE l[j - 1]
    BY InsertedAt
  <2>3. QED
    BY <2>1, <2>2
<1> DEFINE m == InsertAt(l, i, e)
<1>1. /\ m \in Seq(S) /\ Len(m) = Len(l) + 1
      /\ \A j \in 1 .. Len(l) + 1 :
           m[j] = IF j < i THEN l[j] ELSE IF j = i THEN e ELSE l[j - 1]
  BY <1>0
<1>2. DOMAIN m = 1 .. Len(l) + 1 /\ DOMAIN l = 1 .. Len(l) /\ Len(l) \in Nat
  BY <1>1, LenProperties
<1> HIDE DEF m
<1>3. \A j \in DOMAIN l : j < i => j \in DOMAIN m /\ m[j] = l[j]
  BY <1>1, <1>2
<1>4. \A j \in DOMAIN l : ~(j < i) => j + 1 \in DOMAIN m /\ m[j + 1] = l[j]
  BY <1>1, <1>2
<1>5. i \in DOMAIN m /\ m[i] = e
  BY <1>1, <1>2
<1>6. \A j \in DOMAIN m : j = i \/ (j \in DOMAIN l /\ m[j] = l[j])
                          \/ (j - 1 \in DOMAIN l /\ m[j] = l[j - 1])
  BY <1>1, <1>2
<1>7. Range(m) \subseteq Range(l) \cup {e}
  BY <1>5, <1>6 DEF Range
<1>8. Range(l) \cup {e} \subseteq Range(m)
  BY <1>3, <1>4, <1>5 DEF Range
<1>9. QED
  BY <1>7, <1>8 DEF m

\* A list without duplicates stays one when a new element is inserted.
LEMMA InsertedInjective ==
  ASSUME NEW S, NEW l \in Seq(S), NEW i \in 1 .. Len(l) + 1, NEW e \in S,
         IsInjective(l), e \notin Range(l)
  PROVE  IsInjective(InsertAt(l, i, e))
<1>0. /\ InsertAt(l, i, e) \in Seq(S) /\ Len(InsertAt(l, i, e)) = Len(l) + 1
      /\ \A j \in 1 .. Len(l) + 1 :
           InsertAt(l, i, e)[j] = IF j < i THEN l[j] ELSE IF j = i THEN e ELSE l[j - 1]
  <2>1. InsertAt(l, i, e) \in Seq(S) /\ Len(InsertAt(l, i, e)) = Len(l) + 1
    BY InsertAtFacts
  <2>2. ASSUME NEW j \in 1 .. Len(l) + 1
        PROVE  InsertAt(l, i, e)[j] = IF j < i THEN l[j] ELSE IF j = i THEN e ELSE l[j - 1]
    BY InsertedAt
  <2>3. QED
    BY <2>1, <2>2
<1> DEFINE m == InsertAt(l, i, e)
<1>1. /\ m \in Seq(S) /\ Len(m) = Len(l) + 1
      /\ \A j \in 1 .. Len(l) + 1 :
           m[j] = IF j < i THEN l[j] ELSE IF j = i THEN e ELSE l[j - 1]
  BY <1>0
<1>2. DOMAIN m = 1 .. Len(l) + 1 /\ DOMAIN l = 1 .. Len(l) /\ Len(l) \in Nat
  BY <1>1, LenProperties
<1> HIDE DEF m
<1> DEFINE at(j) == IF j < i THEN j ELSE j - 1
<1>3. \A j \in DOMAIN m : j # i => at(j) \in DOMAIN l /\ m[j] = l[at(j)]
  BY <1>1, <1>2
<1>4. \A j, k \in DOMAIN m : j # i /\ k # i /\ at(j) = at(k) => j = k
  BY <1>2
<1>5. m[i] = e /\ \A j \in DOMAIN l : l[j] # e
  BY <1>1, <1>2 DEF Range
<1> HIDE DEF at
<1>6. ASSUME NEW j \in DOMAIN m, NEW k \in DOMAIN m, m[j] = m[k] PROVE j = k
  <2>1. CASE j # i /\ k # i
    BY <1>3, <1>4, <1>6, <2>1 DEF IsInjective
  <2>2. CASE j = i \/ k = i
    BY <1>3, <1>5, <1>6, <2>2
  <2>3. QED
    BY <2>1, <2>2
<1>7. QED
  BY <1>6 DEF IsInjective, m

-----------------------------------------------------------------------------
(* Searching a list of subkeys *)

\* The names go up.
Strict(L) == \A p, q \in DOMAIN L : p < q => NameOf(L[p]) < NameOf(L[q])

\* All names of one list come before those of the other.
Apart(L, M) == \A p \in DOMAIN L, q \in DOMAIN M : NameOf(L[p]) < NameOf(M[q])

\* Behind a position at or before which something belongs, it comes before.
Steep(Cmp) == \A i, j \in DOMAIN Cmp : i < j /\ Cmp[i] <= 0 => Cmp[j] < 0

\* The position that a search takes of the two that are left.
Taken(Cmp) == IF Cmp[Narrow(Cmp).Low] > 0 THEN Narrow(Cmp).High ELSE Narrow(Cmp).Low

LEMMA TakenFacts ==
  ASSUME NEW n \in Nat \ {0}, NEW Cmp \in Comparisons(n), Steep(Cmp)
  PROVE  /\ Narrow(Cmp).Low \in 0 .. n - 1
         /\ Taken(Cmp) \in 0 .. n - 1
         /\ \A p \in 0 .. n - 1 : /\ p < Taken(Cmp) => Cmp[p] > 0
                                  /\ p > Taken(Cmp) => Cmp[p] < 0
         /\ Cmp[Narrow(Cmp).Low] <= 0 /\ Cmp[Taken(Cmp)] < 0 => Taken(Cmp) = 0
         /\ Cmp[Narrow(Cmp).Low] > 0 /\ Cmp[Taken(Cmp)] > 0 => Taken(Cmp) = n - 1
<1> DEFINE at == Narrow(Cmp)
           i == Taken(Cmp)
<1>1. DOMAIN Cmp = 0 .. n - 1 /\ \A p \in 0 .. n - 1 : Cmp[p] \in Int
  BY DEF Comparisons
<1>2. Narrowed(Cmp, n, at)
  BY NarrowFacts
<1>3. i = IF Cmp[at.Low] > 0 THEN at.High ELSE at.Low
  BY DEF Taken
<1> HIDE DEF at, i
<1>4. /\ at.Low \in 0 .. n - 1 /\ at.High \in 0 .. n - 1
      /\ at.Low <= at.High /\ at.High - at.Low <= 1
      /\ \/ at.Low = at.High /\ Cmp[at.Low] = 0
         \/ /\ at.Low = 0 \/ Cmp[at.Low] > 0
            /\ at.High = n - 1 \/ Cmp[at.High] < 0
  BY <1>2 DEF Narrowed
<1>5. i \in 0 .. n - 1
  BY <1>3, <1>4
<1>6. ASSUME NEW p \in 0 .. n - 1, p < i PROVE Cmp[p] > 0
  <2>1. \A q \in 0 .. n - 1 : Cmp[q] >= 0 /\ p < q => Cmp[p] > 0
    BY <1>1 DEF Steep
  <2>2. CASE Cmp[at.Low] > 0
    <3>1. p <= at.Low
      BY <1>3, <1>4, <1>6, <2>2
    <3>2. QED
      BY <1>1, <1>4, <2>1, <2>2, <3>1
  <2>3. CASE ~(Cmp[at.Low] > 0)
    <3>1. i = at.Low /\ Cmp[at.Low] = 0
      BY <1>3, <1>4, <1>6, <2>3
    <3>2. QED
      BY <1>4, <1>6, <2>1, <3>1
  <2>4. QED
    BY <2>2, <2>3
<1>7. ASSUME NEW p \in 0 .. n - 1, p > i PROVE Cmp[p] < 0
  <2>1. Cmp[i] <= 0
    BY <1>1, <1>3, <1>4, <1>7
  <2>2. QED
    BY <1>1, <1>5, <1>7, <2>1 DEF Steep
<1>8. /\ Cmp[at.Low] <= 0 /\ Cmp[i] < 0 => i = 0
      /\ Cmp[at.Low] > 0 /\ Cmp[i] > 0 => i = n - 1
  BY <1>1, <1>3, <1>4
<1>9. QED
  BY <1>4, <1>5, <1>6, <1>7, <1>8 DEF at, i

KeyLists(t) == {L \in Seq({t} \X Names) : Strict(L)}

\* The subkeys in lists, which are known by their names.
LEMMA KeyFacts ==
  ASSUME NEW t \in Storages, NEW L \in Seq({t} \X Names)
  PROVE  /\ Len(L) \in Nat /\ DOMAIN L = 1 .. Len(L)
         /\ \A p \in DOMAIN L : /\ L[p] \in {t} \X Names /\ NameOf(L[p]) \in Names
                                /\ NameOf(L[p]) \in Nat /\ L[p] = <<t, NameOf(L[p])>>
                                /\ L[p] # HCELL_NIL
<1>1. Len(L) \in Nat /\ DOMAIN L = 1 .. Len(L) /\ \A p \in DOMAIN L : L[p] \in {t} \X Names
  BY LenProperties, ElementOfSeq
<1>2. t \in {"Stable", "Volatile"}
  BY DEF Storages, HSTORAGE_TYPE, Range
<1>3. ASSUME NEW p \in DOMAIN L
      PROVE  /\ NameOf(L[p]) \in Names /\ NameOf(L[p]) \in Nat
             /\ L[p] = <<t, NameOf(L[p])>> /\ L[p] # HCELL_NIL
  <2>1. L[p] \in {t} \X Names
    BY <1>1
  <2>2. L[p][2] \in Names /\ L[p] = <<t, L[p][2]>>
    BY <2>1
  <2>3. L[p] # <<"Nil", 0>>
    BY <1>2, <2>2
  <2>4. QED
    BY <2>2, <2>3, NamesAssumption DEF NameOf, HCELL_NIL
<1>4. QED
  BY <1>1, <1>3

\* The search in a leaf ends where the name is, or would be.
LEMMA LeafSearch ==
  ASSUME NEW t \in Storages, NEW L \in KeyLists(t), NEW Name \in Names, L # <<>>
  PROVE  /\ CmpFindSubKeyInLeaf(L, Name).Index \in 0 .. Len(L) - 1
         /\ \A p \in DOMAIN L :
              /\ p < CmpFindSubKeyInLeaf(L, Name).Index + 1 => NameOf(L[p]) < Name
              /\ p > CmpFindSubKeyInLeaf(L, Name).Index + 1 => NameOf(L[p]) > Name
         /\ CmpFindSubKeyInLeaf(L, Name).SubKey =
              IF NameOf(L[CmpFindSubKeyInLeaf(L, Name).Index + 1]) = Name
              THEN L[CmpFindSubKeyInLeaf(L, Name).Index + 1] ELSE HCELL_NIL
<1> DEFINE n == Len(L)
           Cmp == [i \in 0 .. Len(L) - 1 |-> CmpCompareInIndex(Name, L, i)]
           j == Taken(Cmp)
<1>1. L \in Seq({t} \X Names) /\ Strict(L)
  BY DEF KeyLists
<1>2. /\ n \in Nat \ {0} /\ DOMAIN L = 1 .. n /\ Name \in Nat
      /\ \A p \in 1 .. n : NameOf(L[p]) \in Nat
  BY <1>1, KeyFacts, NamesAssumption
<1>3. \A i \in 0 .. n - 1 : Cmp[i] = Name - NameOf(L[i + 1])
  BY DEF CmpCompareInIndex
<1>4. Cmp \in Comparisons(n)
  <2>1. \A i \in 0 .. n - 1 : CmpCompareInIndex(Name, L, i) \in Int
    BY <1>2 DEF CmpCompareInIndex
  <2>2. QED
    BY <2>1 DEF Comparisons
<1>5. CmpFindSubKeyInLeaf(L, Name) =
        LET i == IF Cmp[Narrow(Cmp).Low] <= 0 THEN Narrow(Cmp).Low ELSE Narrow(Cmp).High
        IN  [Index |-> i, SubKey |-> IF Cmp[i] = 0 THEN L[i + 1] ELSE HCELL_NIL]
  BY DEF CmpFindSubKeyInLeaf
<1>6. DOMAIN Cmp = 0 .. n - 1 /\ \A i \in 0 .. n - 1 : Cmp[i] \in Int
  BY <1>4 DEF Comparisons
<1> HIDE DEF Cmp
<1>7. Steep(Cmp)
  <2> SUFFICES ASSUME NEW i \in 0 .. n - 1, NEW k \in 0 .. n - 1, i < k, Cmp[i] <= 0
               PROVE  Cmp[k] < 0
    BY <1>6 DEF Steep
  <2>1. i + 1 \in 1 .. n /\ k + 1 \in 1 .. n /\ i + 1 < k + 1
    BY <1>2
  <2>2. NameOf(L[i + 1]) < NameOf(L[k + 1])
    BY <1>1, <1>2, <2>1 DEF Strict
  <2>3. QED
    BY <1>2, <1>3, <2>1, <2>2
<1>8. /\ Narrow(Cmp).Low \in 0 .. n - 1 /\ j \in 0 .. n - 1
      /\ \A p \in 0 .. n - 1 : (p < j => Cmp[p] > 0) /\ (p > j => Cmp[p] < 0)
  BY <1>2, <1>4, <1>7, TakenFacts
<1>9. j = IF Cmp[Narrow(Cmp).Low] <= 0 THEN Narrow(Cmp).Low ELSE Narrow(Cmp).High
  BY <1>6, <1>8 DEF Taken
<1>10. /\ CmpFindSubKeyInLeaf(L, Name).Index = j
       /\ CmpFindSubKeyInLeaf(L, Name).SubKey = IF Cmp[j] = 0 THEN L[j + 1] ELSE HCELL_NIL
  BY <1>5, <1>9
<1> HIDE DEF j
<1>11. Cmp[j] = 0 <=> NameOf(L[j + 1]) = Name
  BY <1>2, <1>3, <1>8
<1>12. ASSUME NEW p \in DOMAIN L
       PROVE (p < j + 1 => NameOf(L[p]) < Name) /\ (p > j + 1 => NameOf(L[p]) > Name)
  <2>1. p - 1 \in 0 .. n - 1 /\ (p - 1) + 1 = p
    BY <1>2
  <2>2. Cmp[p - 1] = Name - NameOf(L[p])
    BY <1>3, <2>1
  <2>3. QED
    BY <1>2, <1>8, <2>1, <2>2
<1>13. QED
  BY <1>8, <1>10, <1>11, <1>12

\* A name in a leaf is found there, and no other.
LEMMA LeafFinds ==
  ASSUME NEW t \in Storages, NEW L \in KeyLists(t), NEW Name \in Names
  PROVE  CmpFindSubKeyInLeaf(L, Name).SubKey =
           IF <<t, Name>> \in Range(L) THEN <<t, Name>> ELSE HCELL_NIL
<1> DEFINE r == CmpFindSubKeyInLeaf(L, Name)
<1>1. L \in Seq({t} \X Names) /\ Strict(L)
  BY DEF KeyLists
<1>2. CASE L = <<>>
  <2>1. r.SubKey = HCELL_NIL
    BY <1>2 DEF CmpFindSubKeyInLeaf
  <2>2. Range(L) = {}
    BY <1>2 DEF Range
  <2>3. QED
    BY <2>1, <2>2
<1>3. CASE L # <<>>
  <2>1. /\ r.Index \in 0 .. Len(L) - 1
        /\ \A p \in DOMAIN L : /\ p < r.Index + 1 => NameOf(L[p]) < Name
                               /\ p > r.Index + 1 => NameOf(L[p]) > Name
        /\ r.SubKey = IF NameOf(L[r.Index + 1]) = Name THEN L[r.Index + 1] ELSE HCELL_NIL
    BY <1>3, LeafSearch
  <2> HIDE DEF r
  <2>2. r.Index + 1 \in DOMAIN L /\ DOMAIN L \subseteq Int
    BY <1>1, <2>1, KeyFacts
  <2>3. \A p \in DOMAIN L : NameOf(L[p]) \in Nat /\ L[p] = <<t, NameOf(L[p])>>
    BY <1>1, KeyFacts
  <2>4. Name \in Nat
    BY NamesAssumption
  <2>5. CASE NameOf(L[r.Index + 1]) = Name
    <3>1. L[r.Index + 1] = <<t, Name>>
      BY <2>2, <2>3, <2>5
    <3>2. QED
      BY <2>1, <2>2, <2>5, <3>1 DEF Range, r
  <2>6. CASE NameOf(L[r.Index + 1]) # Name
    <3>1. ASSUME NEW p \in DOMAIN L PROVE L[p] # <<t, Name>>
      <4>1. NameOf(L[p]) # Name
        <5>1. p = r.Index + 1 \/ p < r.Index + 1 \/ p > r.Index + 1
          BY <2>1, <2>2
        <5>2. QED
          BY <2>1, <2>3, <2>4, <2>6, <5>1
      <4>2. QED
        BY <4>1 DEF NameOf
    <3>2. QED
      BY <2>1, <2>6, <3>1 DEF Range, r
  <2>7. QED
    BY <2>5, <2>6
<1>4. QED
  BY <1>2, <1>3

\* A search by hash finds the same.
LEMMA HashFinds ==
  ASSUME NEW t \in Storages, NEW L \in KeyLists(t), NEW Name \in Names
  PROVE  CmpFindSubKeyByHash(L, Name) =
           IF <<t, Name>> \in Range(L) THEN <<t, Name>> ELSE HCELL_NIL
<1> DEFINE at == {i \in DOMAIN L : NameOf(L[i]) = Name}
<1>1. L \in Seq({t} \X Names)
  BY DEF KeyLists
<1>2. \A p \in DOMAIN L : p \in Nat /\ L[p] = <<t, NameOf(L[p])>>
  BY <1>1, KeyFacts
<1>3. CmpFindSubKeyByHash(L, Name) = IF at = {} THEN HCELL_NIL ELSE L[Min(at)]
  BY DEF CmpFindSubKeyByHash
<1>4. at # {} => Min(at) \in at
  BY <1>2, MinFacts
<1>5. at = {} => <<t, Name>> \notin Range(L)
  BY DEF Range, NameOf
<1>6. at # {} => L[Min(at)] = <<t, Name>> /\ <<t, Name>> \in Range(L)
  BY <1>2, <1>4 DEF Range
<1>7. QED
  BY <1>3, <1>5, <1>6

\* A new name goes between the smaller and the larger ones.
LEMMA PlaceFacts ==
  ASSUME NEW t \in Storages, NEW L \in KeyLists(t), NEW Name \in Names,
         <<t, Name>> \notin Range(L)
  PROVE  /\ InsertionPoint(L, Name) \in 0 .. Len(L)
         /\ \A p \in DOMAIN L : /\ p <= InsertionPoint(L, Name) => NameOf(L[p]) < Name
                                /\ p > InsertionPoint(L, Name) => NameOf(L[p]) > Name
<1> DEFINE i == CmpFindSubKeyInLeaf(L, Name).Index
<1>1. L \in Seq({t} \X Names)
  BY DEF KeyLists
<1>2. /\ Len(L) \in Nat /\ DOMAIN L = 1 .. Len(L) /\ Name \in Nat
      /\ \A p \in DOMAIN L : NameOf(L[p]) \in Nat /\ L[p] = <<t, NameOf(L[p])>>
  BY <1>1, KeyFacts, NamesAssumption
<1>3. \A p \in DOMAIN L : NameOf(L[p]) # Name
  BY <1>2 DEF Range
<1>4. InsertionPoint(L, Name) =
        IF i # Len(L) /\ Name - NameOf(L[i + 1]) > 0 THEN i + 1 ELSE i
  BY DEF InsertionPoint, CmpCompareInIndex
<1>5. CASE L = <<>>
  <2>1. i = 0 /\ Len(L) = 0
    BY <1>5 DEF CmpFindSubKeyInLeaf
  <2>2. QED
    BY <1>2, <1>4, <2>1
<1>6. CASE L # <<>>
  <2>1. /\ i \in 0 .. Len(L) - 1
        /\ \A p \in DOMAIN L : (p < i + 1 => NameOf(L[p]) < Name) /\ (p > i + 1 => NameOf(L[p]) > Name)
    BY <1>6, LeafSearch
  <2> HIDE DEF i
  <2>2. i + 1 \in DOMAIN L /\ i # Len(L)
    <3> DEFINE n == Len(L)
    <3>1. n \in Nat /\ DOMAIN L = 1 .. n /\ i \in 0 .. n - 1
      BY <1>2, <2>1
    <3> HIDE DEF n
    <3>2. i + 1 \in 1 .. n /\ i # n
      BY <3>1
    <3>3. QED
      BY <3>1, <3>2 DEF n
  <2>3. NameOf(L[i + 1]) \in Nat /\ NameOf(L[i + 1]) # Name
    BY <1>2, <1>3, <2>2
  <2>4. CASE Name > NameOf(L[i + 1])
    <3>1. InsertionPoint(L, Name) = i + 1
      BY <1>2, <1>4, <2>2, <2>3, <2>4
    <3>2. \A p \in DOMAIN L : p <= i + 1 => p < i + 1 \/ p = i + 1
      BY <1>2, <2>1
    <3>3. QED
      BY <1>2, <2>1, <2>4, <3>1, <3>2
  <2>5. CASE ~(Name > NameOf(L[i + 1]))
    <3>1. InsertionPoint(L, Name) = i /\ NameOf(L[i + 1]) > Name
      BY <1>2, <1>4, <2>3, <2>5
    <3>2. \A p \in DOMAIN L : /\ p <= i => p < i + 1
                              /\ p > i => p > i + 1 \/ p = i + 1
      BY <1>2, <2>1
    <3>3. i \in 0 .. Len(L)
      BY <1>2, <2>1
    <3>4. QED
      BY <2>1, <3>1, <3>2, <3>3
  <2>6. QED
    BY <2>4, <2>5
<1>7. QED
  BY <1>5, <1>6

-----------------------------------------------------------------------------
(* Lists of subkeys after a change *)

LEMMA ListAdded ==
  ASSUME NEW t \in Storages, NEW L \in KeyLists(t), NEW Name \in Names,
         <<t, Name>> \notin Range(L)
  PROVE  LET M == InsertAt(L, InsertionPoint(L, Name) + 1, <<t, Name>>)
         IN  /\ M \in KeyLists(t) /\ Range(M) = Range(L) \cup {<<t, Name>>}
             /\ Len(M) = Len(L) + 1
<1> DEFINE i == InsertionPoint(L, Name)
           key == <<t, Name>>
<1>1. L \in Seq({t} \X Names) /\ Strict(L)
  BY DEF KeyLists
<1>2. /\ Len(L) \in Nat /\ DOMAIN L = 1 .. Len(L) /\ Name \in Nat
      /\ \A p \in DOMAIN L : NameOf(L[p]) \in Nat
  BY <1>1, KeyFacts, NamesAssumption
<1>3. /\ i \in 0 .. Len(L)
      /\ \A p \in DOMAIN L : (p <= i => NameOf(L[p]) < Name) /\ (p > i => NameOf(L[p]) > Name)
  BY PlaceFacts
<1>4. key \in {t} \X Names /\ NameOf(key) = Name
  BY DEF NameOf
<1> HIDE DEF i, key
<1>5. i + 1 \in 1 .. Len(L) + 1
  BY <1>2, <1>3
<1>6. /\ InsertAt(L, i + 1, key) \in Seq({t} \X Names)
      /\ Len(InsertAt(L, i + 1, key)) = Len(L) + 1
      /\ \A j \in 1 .. Len(L) + 1 :
           InsertAt(L, i + 1, key)[j] = IF j < i + 1 THEN L[j] ELSE IF j = i + 1 THEN key ELSE L[j - 1]
      /\ Range(InsertAt(L, i + 1, key)) = Range(L) \cup {key}
  <2> DEFINE T == {t} \X Names
             n == i + 1
  <2>1. L \in Seq(T) /\ key \in T /\ n \in 1 .. Len(L) + 1
    BY <1>1, <1>4, <1>5
  <2> HIDE DEF T, n
  <2>2. InsertAt(L, n, key) \in Seq(T) /\ Len(InsertAt(L, n, key)) = Len(L) + 1
    BY <2>1, InsertAtFacts
  <2>3. ASSUME NEW j \in 1 .. Len(L) + 1
        PROVE  InsertAt(L, n, key)[j] = IF j < n THEN L[j] ELSE IF j = n THEN key ELSE L[j - 1]
    BY <2>1, InsertAtFacts
  <2>4. Range(InsertAt(L, n, key)) = Range(L) \cup {key}
    BY <2>1, InsertedRange
  <2>5. QED
    BY <2>2, <2>3, <2>4 DEF T, n
<1> DEFINE M == InsertAt(L, i + 1, key)
<1>7. M \in Seq({t} \X Names) /\ Len(M) = Len(L) + 1 /\ Range(M) = Range(L) \cup {key}
  BY <1>6
<1>8. \A j \in 1 .. Len(L) + 1 :
        M[j] = IF j < i + 1 THEN L[j] ELSE IF j = i + 1 THEN key ELSE L[j - 1]
  BY <1>6
<1> HIDE DEF M
<1>9. DOMAIN M = 1 .. Len(L) + 1
  BY <1>7, LenProperties
<1>10. ASSUME NEW p \in DOMAIN M, NEW q \in DOMAIN M, p < q
       PROVE  NameOf(M[p]) < NameOf(M[q])
  <2>1. CASE q < i + 1
    <3>1. p \in DOMAIN L /\ q \in DOMAIN L /\ M[p] = L[p] /\ M[q] = L[q]
      BY <1>2, <1>3, <1>8, <1>9, <1>10, <2>1
    <3>2. QED
      BY <1>1, <1>10, <3>1 DEF Strict
  <2>2. CASE q = i + 1
    <3>1. p \in DOMAIN L /\ p <= i /\ M[p] = L[p] /\ M[q] = key
      BY <1>2, <1>3, <1>8, <1>9, <1>10, <2>2
    <3>2. QED
      BY <1>3, <1>4, <3>1
  <2>3. CASE q > i + 1 /\ p < i + 1
    <3>1. /\ p \in DOMAIN L /\ p <= i /\ M[p] = L[p]
          /\ q - 1 \in DOMAIN L /\ q - 1 > i /\ M[q] = L[q - 1]
      BY <1>2, <1>3, <1>8, <1>9, <1>10, <2>3
    <3>2. NameOf(L[p]) < Name /\ NameOf(L[q - 1]) > Name
      BY <1>3, <3>1
    <3>3. NameOf(L[p]) \in Nat /\ NameOf(L[q - 1]) \in Nat
      BY <1>2, <3>1
    <3>4. QED
      BY <1>2, <3>1, <3>2, <3>3
  <2>4. CASE q > i + 1 /\ p = i + 1
    <3>1. M[p] = key /\ q - 1 \in DOMAIN L /\ q - 1 > i /\ M[q] = L[q - 1]
      BY <1>2, <1>3, <1>8, <1>9, <1>10, <2>4
    <3>2. NameOf(L[q - 1]) > Name /\ NameOf(L[q - 1]) \in Nat
      BY <1>2, <1>3, <3>1
    <3>3. QED
      BY <1>2, <1>4, <3>1, <3>2
  <2>5. CASE q > i + 1 /\ p > i + 1
    <3>1. /\ p - 1 \in DOMAIN L /\ M[p] = L[p - 1] /\ p - 1 < q - 1
          /\ q - 1 \in DOMAIN L /\ M[q] = L[q - 1]
      BY <1>2, <1>3, <1>8, <1>9, <1>10, <2>5
    <3>2. QED
      BY <1>1, <3>1 DEF Strict
  <2>6. QED
    BY <1>2, <1>3, <1>9, <2>1, <2>2, <2>3, <2>4, <2>5
<1>11. M \in KeyLists(t)
  BY <1>7, <1>10 DEF KeyLists, Strict
<1>12. QED
  BY <1>7, <1>11 DEF M, i, key

LEMMA ListTaken ==
  ASSUME NEW t \in Storages, NEW L \in KeyLists(t), NEW i \in DOMAIN L
  PROVE  /\ RemoveAt(L, i) \in KeyLists(t) /\ Len(RemoveAt(L, i)) = Len(L) - 1
         /\ Range(RemoveAt(L, i)) = Range(L) \ {L[i]}
<1>1. L \in Seq({t} \X Names) /\ Strict(L)
  BY DEF KeyLists
<1>2. /\ Len(L) \in Nat /\ DOMAIN L = 1 .. Len(L)
      /\ \A p \in DOMAIN L : NameOf(L[p]) \in Nat
  BY <1>1, KeyFacts
<1>3. /\ RemoveAt(L, i) \in Seq({t} \X Names)
      /\ Len(RemoveAt(L, i)) = Len(L) - 1
      /\ \A j \in 1 .. Len(L) - 1 : RemoveAt(L, i)[j] = IF j < i THEN L[j] ELSE L[j + 1]
  BY <1>1, RemoveAtFacts
<1> DEFINE M == RemoveAt(L, i)
           at(j) == IF j < i THEN j ELSE j + 1
<1>4. M \in Seq({t} \X Names) /\ Len(M) = Len(L) - 1
  BY <1>3
<1>5. \A j \in 1 .. Len(L) - 1 : M[j] = IF j < i THEN L[j] ELSE L[j + 1]
  BY <1>3
<1> HIDE DEF M
<1>6. DOMAIN M = 1 .. Len(L) - 1
  BY <1>4, LenProperties
<1>7. \A j \in DOMAIN M : at(j) \in DOMAIN L /\ at(j) # i /\ M[j] = L[at(j)]
  BY <1>2, <1>5, <1>6
<1>8. \A p, q \in DOMAIN M : p < q => at(p) < at(q)
  BY <1>2, <1>6
<1>9. \A j \in DOMAIN L : j # i => \E p \in DOMAIN M : at(p) = j
  <2> SUFFICES ASSUME NEW j \in DOMAIN L, j # i PROVE \E p \in DOMAIN M : at(p) = j
    OBVIOUS
  <2>1. CASE j < i
    <3>1. j \in DOMAIN M /\ at(j) = j
      BY <1>2, <1>6, <2>1
    <3>2. QED
      BY <3>1
  <2>2. CASE ~(j < i)
    <3>1. j - 1 \in DOMAIN M /\ at(j - 1) = j
      BY <1>2, <1>6, <2>2
    <3>2. QED
      BY <3>1
  <2>3. QED
    BY <2>1, <2>2
<1> HIDE DEF at
<1>10. Strict(M)
  BY <1>1, <1>7, <1>8 DEF Strict
<1>11. \A j \in DOMAIN L : j # i => L[j] # L[i]
  BY <1>1, <1>2 DEF Strict
<1>12. Range(M) = Range(L) \ {L[i]}
  <2>1. ASSUME NEW k \in Range(M) PROVE k \in Range(L) \ {L[i]}
    <3>1. PICK j \in DOMAIN M : k = M[j]
      BY DEF Range
    <3>2. QED
      BY <1>7, <1>11, <3>1 DEF Range
  <2>2. ASSUME NEW k \in Range(L) \ {L[i]} PROVE k \in Range(M)
    <3>1. PICK j \in DOMAIN L : k = L[j]
      BY DEF Range
    <3>2. PICK p \in DOMAIN M : at(p) = j
      BY <1>9, <3>1
    <3>3. QED
      BY <1>7, <3>1, <3>2 DEF Range
  <2>3. QED
    BY <2>1, <2>2
<1>13. QED
  BY <1>4, <1>10, <1>12 DEF M, KeyLists

\* The two parts of a list that is cut behind n entries.
LEMMA ListCut ==
  ASSUME NEW t \in Storages, NEW L \in KeyLists(t), NEW n \in 0 .. Len(L)
  PROVE  LET M == SubSeq(L, 1, n)
             N == SubSeq(L, n + 1, Len(L))
         IN  /\ M \in KeyLists(t) /\ N \in KeyLists(t) /\ Apart(M, N)
             /\ Len(M) = n /\ Len(N) = Len(L) - n
             /\ Range(M) \cup Range(N) = Range(L)
<1>1. L \in Seq({t} \X Names) /\ Strict(L)
  BY DEF KeyLists
<1>2. /\ Len(L) \in Nat /\ DOMAIN L = 1 .. Len(L)
      /\ \A p \in DOMAIN L : NameOf(L[p]) \in Nat
  BY <1>1, KeyFacts
<1> DEFINE M == SubSeq(L, 1, n)
           N == SubSeq(L, n + 1, Len(L))
<1>3. M \in Seq({t} \X Names) /\ Len(M) = n /\ \A j \in 1 .. n : M[j] = L[j]
  <2>1. 1 \in 1 .. Len(L) + 1 /\ n \in 1 - 1 .. Len(L)
    BY <1>2
  <2>2. /\ M \in Seq({t} \X Names) /\ Len(M) = n - 1 + 1
        /\ \A j \in 1 .. n - 1 + 1 : M[j] = L[1 + j - 1]
    BY <1>1, <2>1, PartFacts
  <2> HIDE DEF M
  <2>3. QED
    BY <1>2, <2>2
<1>4. N \in Seq({t} \X Names) /\ Len(N) = Len(L) - n /\ \A j \in 1 .. Len(L) - n : N[j] = L[n + j]
  <2>1. n + 1 \in 1 .. Len(L) + 1 /\ Len(L) \in (n + 1) - 1 .. Len(L)
    BY <1>2
  <2>2. /\ N \in Seq({t} \X Names) /\ Len(N) = Len(L) - (n + 1) + 1
        /\ \A j \in 1 .. Len(L) - (n + 1) + 1 : N[j] = L[(n + 1) + j - 1]
    BY <1>1, <2>1, PartFacts
  <2> HIDE DEF N
  <2>3. ASSUME NEW j \in 1 .. Len(L) - n PROVE N[j] = L[n + j]
    <3>1. j \in 1 .. Len(L) - (n + 1) + 1 /\ (n + 1) + j - 1 = n + j
      BY <1>2
    <3>2. QED
      BY <2>2, <3>1
  <2>4. QED
    BY <1>2, <2>2, <2>3
<1> HIDE DEF M, N
<1>5. DOMAIN M = 1 .. n /\ DOMAIN N = 1 .. Len(L) - n
  BY <1>3, <1>4, LenProperties
<1>6. Strict(M)
  BY <1>1, <1>2, <1>3, <1>5 DEF Strict
<1>7. Strict(N)
  <2> SUFFICES ASSUME NEW p \in DOMAIN N, NEW q \in DOMAIN N, p < q
               PROVE  NameOf(N[p]) < NameOf(N[q])
    BY DEF Strict
  <2>1. n + p \in DOMAIN L /\ n + q \in DOMAIN L /\ n + p < n + q
    BY <1>2, <1>5
  <2>2. N[p] = L[n + p] /\ N[q] = L[n + q]
    BY <1>4, <1>5
  <2>3. QED
    BY <1>1, <2>1, <2>2 DEF Strict
<1>8. Apart(M, N)
  <2> SUFFICES ASSUME NEW p \in DOMAIN M, NEW q \in DOMAIN N
               PROVE  NameOf(M[p]) < NameOf(N[q])
    BY DEF Apart
  <2>1. p \in DOMAIN L /\ n + q \in DOMAIN L /\ p < n + q
    BY <1>2, <1>5
  <2>2. M[p] = L[p] /\ N[q] = L[n + q]
    BY <1>3, <1>4, <1>5
  <2>3. QED
    BY <1>1, <2>1, <2>2 DEF Strict
<1>9. Range(M) \cup Range(N) = Range(L)
  <2>1. \A p \in DOMAIN M : p \in DOMAIN L /\ M[p] = L[p]
    BY <1>2, <1>3, <1>5
  <2>2. \A q \in DOMAIN N : n + q \in DOMAIN L /\ N[q] = L[n + q]
    BY <1>2, <1>4, <1>5
  <2>3. ASSUME NEW j \in DOMAIN L
        PROVE  (\E p \in DOMAIN M : M[p] = L[j]) \/ (\E q \in DOMAIN N : N[q] = L[j])
    <3>1. CASE j <= n
      <4>1. j \in DOMAIN M /\ M[j] = L[j]
        BY <1>2, <1>3, <1>5, <3>1
      <4>2. QED
        BY <4>1
    <3>2. CASE ~(j <= n)
      <4>1. j - n \in DOMAIN N /\ n + (j - n) = j
        BY <1>2, <1>5, <3>2
      <4>2. N[j - n] = L[j]
        BY <2>2, <4>1
      <4>3. QED
        BY <4>1, <4>2
    <3>3. QED
      BY <3>1, <3>2
  <2>4. Range(M) \subseteq Range(L) /\ Range(N) \subseteq Range(L)
    BY <2>1, <2>2 DEF Range
  <2>5. Range(L) \subseteq Range(M) \cup Range(N)
    BY <2>3 DEF Range
  <2>6. QED
    BY <2>4, <2>5
<1>10. QED
  BY <1>3, <1>4, <1>6, <1>7, <1>8, <1>9 DEF KeyLists, M, N

-----------------------------------------------------------------------------
(* The pages of an index: the lists of its leaves, in their order *)

Ordered(S) == \A i, j \in DOMAIN S : i < j => Apart(S[i], S[j])

Pages(t) == {S \in Seq(KeyLists(t)) : Ordered(S)}

NoneEmpty(S) == \A i \in DOMAIN S : S[i] # <<>>

Entries(S) == UNION {Range(S[i]) : i \in DOMAIN S}

Below(L, Name) == \A q \in DOMAIN L : NameOf(L[q]) < Name
Above(L, Name) == \A q \in DOMAIN L : NameOf(L[q]) > Name

\* The name belongs on page i, if on any.
Spot(S, i, Name) ==
  /\ i \in DOMAIN S
  /\ \A p \in DOMAIN S : (p < i => Below(S[p], Name)) /\ (p > i => Above(S[p], Name))

LEMMA PageFacts ==
  ASSUME NEW t, NEW S \in Pages(t)
  PROVE  /\ Len(S) \in Nat /\ DOMAIN S = 1 .. Len(S)
         /\ \A i \in DOMAIN S : S[i] \in KeyLists(t)
BY LenProperties, ElementOfSeq DEF Pages

\* Where a name is with respect to a page.
LEMMA CompareFacts ==
  ASSUME NEW t \in Storages, NEW L \in KeyLists(t), L # <<>>, NEW Name \in Names
  PROVE  /\ CompareWithLeaf(Name, L) \in {-1, 0, 1}
         /\ CompareWithLeaf(Name, L) > 0 <=> Below(L, Name)
         /\ CompareWithLeaf(Name, L) < 0 <=> Above(L, Name)
         /\ Below(L, Name) => ~Above(L, Name)
<1>1. L \in Seq({t} \X Names) /\ Strict(L)
  BY DEF KeyLists
<1>2. /\ Len(L) \in Nat /\ DOMAIN L = 1 .. Len(L) /\ Name \in Nat
      /\ \A p \in DOMAIN L : NameOf(L[p]) \in Nat
  BY <1>1, KeyFacts, NamesAssumption
<1> DEFINE n == Len(L)
           first == NameOf(L[1])
           last == NameOf(L[n])
<1>3. n # 0
  BY <1>1, EmptySeq
<1>4. 1 \in DOMAIN L /\ n \in DOMAIN L /\ \A p \in DOMAIN L : 1 <= p /\ p <= n
  BY <1>2, <1>3
<1>5. \A p \in DOMAIN L : first <= NameOf(L[p]) /\ NameOf(L[p]) <= last
  <2> SUFFICES ASSUME NEW p \in DOMAIN L PROVE first <= NameOf(L[p]) /\ NameOf(L[p]) <= last
    OBVIOUS
  <2>1. p = 1 \/ 1 < p
    BY <1>2, <1>4
  <2>2. p = n \/ p < n
    BY <1>2, <1>4
  <2>3. 1 < p => first < NameOf(L[p])
    BY <1>1, <1>4 DEF Strict
  <2>4. p < n => NameOf(L[p]) < last
    BY <1>1, <1>4 DEF Strict
  <2>5. QED
    BY <1>2, <1>4, <2>1, <2>2, <2>3, <2>4
<1>6. CompareWithLeaf(Name, L) = IF Name - last > 0 THEN 1 ELSE IF Name - first < 0 THEN -1 ELSE 0
  <2>1. (n - 1) + 1 = n
    BY <1>2
  <2>2. QED
    BY <2>1 DEF CompareWithLeaf, CmpCompareInIndex
<1>7. first \in Nat /\ last \in Nat /\ first <= last
  BY <1>2, <1>4, <1>5
<1> HIDE DEF first, last, n
<1>8. Below(L, Name) <=> last < Name
  <2>1. last < Name => Below(L, Name)
    BY <1>2, <1>5, <1>7 DEF Below
  <2>2. Below(L, Name) => last < Name
    BY <1>4 DEF Below, last
  <2>3. QED
    BY <2>1, <2>2
<1>9. Above(L, Name) <=> first > Name
  <2>1. first > Name => Above(L, Name)
    BY <1>2, <1>5, <1>7 DEF Above
  <2>2. Above(L, Name) => first > Name
    BY <1>4 DEF Above, first
  <2>3. QED
    BY <2>1, <2>2
<1>10. QED
  BY <1>2, <1>6, <1>7, <1>8, <1>9

\* What the search in a root compares.
PageComparisons(S, Name) == [i \in 0 .. Len(S) - 1 |-> CompareWithLeaf(Name, S[i + 1])]

\* The search finds a page inside, or the first or the last one.
Inside(Cmp) == IF Cmp[Narrow(Cmp).Low] > 0 THEN Cmp[Taken(Cmp)] <= 0 ELSE Cmp[Taken(Cmp)] = 0

LEMMA RootSearch ==
  ASSUME NEW t \in Storages, NEW S \in Pages(t), NoneEmpty(S), S # <<>>, NEW Name \in Names
  PROVE  LET Cmp == PageComparisons(S, Name)
             i   == Taken(Cmp) + 1
         IN  /\ Cmp \in Comparisons(Len(S)) /\ Len(S) \in Nat \ {0}
             /\ Narrow(Cmp).Low \in 0 .. Len(S) - 1
             /\ i \in 1 .. Len(S) /\ Spot(S, i, Name)
             /\ Inside(Cmp) => ~Below(S[i], Name)
             /\ ~Inside(Cmp) => \/ i = 1 /\ Above(S[1], Name)
                                \/ i = Len(S) /\ Below(S[i], Name)
<1> DEFINE Cmp == PageComparisons(S, Name)
           i == Taken(Cmp) + 1
           n == Len(S)
<1>1. S \in Seq(KeyLists(t)) /\ Ordered(S)
  BY DEF Pages
<1>2. n \in Nat \ {0} /\ DOMAIN S = 1 .. n /\ \A p \in DOMAIN S : S[p] \in KeyLists(t) /\ S[p] # <<>>
  BY <1>1, PageFacts, EmptySeq DEF NoneEmpty
<1>3. \A p \in DOMAIN S : /\ CompareWithLeaf(Name, S[p]) \in {-1, 0, 1}
                          /\ CompareWithLeaf(Name, S[p]) > 0 <=> Below(S[p], Name)
                          /\ CompareWithLeaf(Name, S[p]) < 0 <=> Above(S[p], Name)
                          /\ Below(S[p], Name) => ~Above(S[p], Name)
  BY <1>2, CompareFacts
<1>4. \A p \in 0 .. n - 1 : p + 1 \in DOMAIN S /\ Cmp[p] = CompareWithLeaf(Name, S[p + 1])
  BY <1>2 DEF PageComparisons
<1>5. Cmp \in Comparisons(n)
  <2>1. \A p \in 0 .. n - 1 : CompareWithLeaf(Name, S[p + 1]) \in Int
    BY <1>3, <1>4
  <2>2. QED
    BY <2>1 DEF PageComparisons, Comparisons
<1>6. DOMAIN Cmp = 0 .. n - 1
  BY DEF PageComparisons
<1> HIDE DEF Cmp
<1>7. Steep(Cmp)
  <2> SUFFICES ASSUME NEW p \in 0 .. n - 1, NEW q \in 0 .. n - 1, p < q, Cmp[p] <= 0
               PROVE  Cmp[q] < 0
    BY <1>6 DEF Steep
  <2>1. /\ p + 1 \in DOMAIN S /\ q + 1 \in DOMAIN S /\ p + 1 < q + 1
        /\ S[p + 1] \in KeyLists(t) /\ S[q + 1] \in KeyLists(t)
    BY <1>2, <1>4
  <2>2. Apart(S[p + 1], S[q + 1])
    BY <1>1, <2>1 DEF Ordered
  <2>3. ~Below(S[p + 1], Name)
    BY <1>3, <1>4, <2>1
  <2>4. PICK r \in DOMAIN S[p + 1] : ~(NameOf(S[p + 1][r]) < Name)
    BY <2>3 DEF Below
  <2>5. NameOf(S[p + 1][r]) \in Nat /\ \A s \in DOMAIN S[q + 1] : NameOf(S[q + 1][s]) \in Nat
    BY <2>1, KeyFacts DEF KeyLists
  <2>6. Name \in Nat
    BY NamesAssumption
  <2>7. Above(S[q + 1], Name)
    BY <2>2, <2>4, <2>5, <2>6 DEF Apart, Above
  <2>8. QED
    BY <1>3, <1>4, <2>1, <2>7
<1>8. /\ Narrow(Cmp).Low \in 0 .. n - 1 /\ Taken(Cmp) \in 0 .. n - 1
      /\ \A p \in 0 .. n - 1 : /\ p < Taken(Cmp) => Cmp[p] > 0
                               /\ p > Taken(Cmp) => Cmp[p] < 0
      /\ Cmp[Narrow(Cmp).Low] <= 0 /\ Cmp[Taken(Cmp)] < 0 => Taken(Cmp) = 0
      /\ Cmp[Narrow(Cmp).Low] > 0 /\ Cmp[Taken(Cmp)] > 0 => Taken(Cmp) = n - 1
  BY <1>2, <1>5, <1>7, TakenFacts
<1>9. i \in 1 .. n /\ i \in DOMAIN S
  BY <1>2, <1>8
<1>10. Spot(S, i, Name)
  <2> SUFFICES ASSUME NEW p \in DOMAIN S
               PROVE  (p < i => Below(S[p], Name)) /\ (p > i => Above(S[p], Name))
    BY <1>9 DEF Spot
  <2>1. p - 1 \in 0 .. n - 1 /\ (p - 1) + 1 = p
    BY <1>2
  <2>2. /\ p < i => Cmp[p - 1] > 0
        /\ p > i => Cmp[p - 1] < 0
    BY <1>2, <1>8, <2>1
  <2>3. Cmp[p - 1] = CompareWithLeaf(Name, S[p])
    BY <1>4, <2>1
  <2>4. QED
    BY <1>3, <2>2, <2>3
<1>11. Cmp[Taken(Cmp)] = CompareWithLeaf(Name, S[i]) /\ Cmp[Taken(Cmp)] \in {-1, 0, 1}
  BY <1>3, <1>4, <1>8, <1>9
<1>12. Inside(Cmp) => ~Below(S[i], Name)
  BY <1>3, <1>9, <1>11 DEF Inside
<1>13. ASSUME ~Inside(Cmp)
       PROVE  (i = 1 /\ Above(S[1], Name)) \/ (i = n /\ Below(S[i], Name))
  <2>1. Cmp[Narrow(Cmp).Low] \in Int
    BY <1>5, <1>8 DEF Comparisons
  <2>2. CASE Cmp[Narrow(Cmp).Low] > 0
    <3>1. Cmp[Taken(Cmp)] > 0
      BY <1>11, <1>13, <2>2 DEF Inside
    <3>2. Taken(Cmp) = n - 1
      BY <1>8, <2>2, <3>1
    <3>3. i = n
      BY <1>2, <3>2
    <3>4. QED
      BY <1>3, <1>9, <1>11, <3>1, <3>3
  <2>3. CASE ~(Cmp[Narrow(Cmp).Low] > 0)
    <3>1. Cmp[Taken(Cmp)] # 0 /\ Taken(Cmp) = Narrow(Cmp).Low /\ Cmp[Narrow(Cmp).Low] <= 0
      BY <1>13, <2>1, <2>3 DEF Inside, Taken
    <3>2. Cmp[Taken(Cmp)] < 0 /\ Taken(Cmp) = 0
      BY <1>8, <1>11, <3>1
    <3>3. i = 1
      BY <3>2
    <3>4. QED
      BY <1>3, <1>9, <1>11, <3>2, <3>3
  <2>4. QED
    BY <2>2, <2>3
<1>14. QED
  BY <1>2, <1>5, <1>8, <1>9, <1>10, <1>12, <1>13 DEF Cmp

-----------------------------------------------------------------------------
(* The pages of an index after a change *)

LEMMA ApartRanges ==
  ASSUME NEW L, NEW M
  PROVE  Apart(L, M) <=> \A k \in Range(L), m \in Range(M) : NameOf(k) < NameOf(m)
BY DEF Apart, Range

\* A subkey is on one page.
LEMMA PagesDisjoint ==
  ASSUME NEW t \in Storages, NEW S \in Pages(t), NEW i \in DOMAIN S, NEW j \in DOMAIN S,
         NEW k \in Range(S[i]), k \in Range(S[j])
  PROVE  i = j
<1>1. DOMAIN S \subseteq Int /\ S[i] \in Seq({t} \X Names) /\ Ordered(S)
  BY PageFacts DEF Pages, KeyLists
<1>2. NameOf(k) \in Nat
  BY <1>1, KeyFacts DEF Range
<1>3. i < j => NameOf(k) < NameOf(k)
  BY <1>1, ApartRanges DEF Ordered
<1>4. j < i => NameOf(k) < NameOf(k)
  BY <1>1, ApartRanges DEF Ordered
<1>5. QED
  BY <1>1, <1>2, <1>3, <1>4

\* The entries of the other pages.
Others(S, i) == UNION {Range(S[p]) : p \in DOMAIN S \ {i}}

LEMMA OthersFacts ==
  ASSUME NEW S, NEW i
  PROVE  /\ \A k : k \in Others(S, i) <=> \E p \in DOMAIN S : p # i /\ k \in Range(S[p])
         /\ \A k : k \in Entries(S) <=> \E p \in DOMAIN S : k \in Range(S[p])
BY DEF Others, Entries

\* Page i becomes M.
Put(S, i, M) == [S EXCEPT ![i] = M]

\* The list M is in its place at position i as far as page p goes.
Between(S, M, i, p) == (p < i => Apart(S[p], M)) /\ (p > i => Apart(M, S[p]))

\* One page is replaced.
LEMMA PageReplaced ==
  ASSUME NEW t \in Storages, NEW S \in Pages(t), NEW i \in DOMAIN S, NEW M \in KeyLists(t),
         \A p \in DOMAIN S : Between(S, M, i, p)
  PROVE  /\ Put(S, i, M) \in Pages(t)
         /\ Entries(Put(S, i, M)) = Others(S, i) \cup Range(M)
<1> DEFINE T == Put(S, i, M)
<1>1. S \in Seq(KeyLists(t)) /\ Ordered(S) /\ DOMAIN S = 1 .. Len(S)
  BY PageFacts DEF Pages
<1>2. T \in Seq(KeyLists(t))
  BY <1>1, ExceptSeq DEF Put
<1>3. DOMAIN T = DOMAIN S /\ \A p \in DOMAIN S : T[p] = IF p = i THEN M ELSE S[p]
  BY <1>1 DEF Put
<1> HIDE DEF T
<1>4. Ordered(T)
  <2> SUFFICES ASSUME NEW p \in DOMAIN S, NEW q \in DOMAIN S, p < q PROVE Apart(T[p], T[q])
    BY <1>3 DEF Ordered
  <2>1. CASE p = i
    <3>1. q # i /\ q > i
      BY <1>1, <2>1
    <3>2. QED
      BY <1>3, <2>1, <3>1 DEF Between
  <2>2. CASE q = i
    <3>1. p # i /\ p < i
      BY <1>1, <2>2
    <3>2. QED
      BY <1>3, <2>2, <3>1 DEF Between
  <2>3. CASE p # i /\ q # i
    BY <1>1, <1>3, <2>3 DEF Ordered
  <2>4. QED
    BY <2>1, <2>2, <2>3
<1>5. Entries(T) = Others(S, i) \cup Range(M)
  <2>1. ASSUME NEW k \in Entries(T) PROVE k \in Others(S, i) \cup Range(M)
    <3>1. PICK p \in DOMAIN T : k \in Range(T[p])
      BY OthersFacts
    <3>2. CASE p = i
      BY <1>3, <3>1, <3>2
    <3>3. CASE p # i
      <4>1. k \in Range(S[p]) /\ p \in DOMAIN S
        BY <1>3, <3>1, <3>3
      <4>2. k \in Others(S, i)
        BY <3>3, <4>1, OthersFacts
      <4>3. QED
        BY <4>2
    <3>4. QED
      BY <3>2, <3>3
  <2>2. ASSUME NEW k \in Others(S, i) PROVE k \in Entries(T)
    <3>1. PICK p \in DOMAIN S : p # i /\ k \in Range(S[p])
      BY OthersFacts
    <3>2. p \in DOMAIN T /\ k \in Range(T[p])
      BY <1>3, <3>1
    <3>3. QED
      BY <3>2, OthersFacts
  <2>3. ASSUME NEW k \in Range(M) PROVE k \in Entries(T)
    <3>1. i \in DOMAIN T /\ k \in Range(T[i])
      BY <1>3, <2>3
    <3>2. QED
      BY <3>1, OthersFacts
  <2>4. QED
    BY <2>1, <2>2, <2>3
<1>6. QED
  BY <1>2, <1>4, <1>5 DEF Pages, T

\* The entries with those of one page apart.
LEMMA EntriesApart ==
  ASSUME NEW t \in Storages, NEW S \in Pages(t), NEW i \in DOMAIN S
  PROVE  Entries(S) = Others(S, i) \cup Range(S[i]) /\ Others(S, i) \cap Range(S[i]) = {}
<1>1. Entries(S) = Others(S, i) \cup Range(S[i])
  BY OthersFacts
<1>2. ASSUME NEW k \in Others(S, i), k \in Range(S[i]) PROVE FALSE
  <2>1. PICK p \in DOMAIN S : p # i /\ k \in Range(S[p])
    BY OthersFacts
  <2>2. QED
    BY <1>2, <2>1, PagesDisjoint
<1>3. QED
  BY <1>1, <1>2

LEMMA PagesAdded ==
  ASSUME NEW t \in Storages, NEW S \in Pages(t), NEW i, NEW Name \in Names,
         Spot(S, i, Name), <<t, Name>> \notin Entries(S)
  PROVE  LET M == InsertAt(S[i], InsertionPoint(S[i], Name) + 1, <<t, Name>>)
             T == Put(S, i, M)
         IN  /\ T \in Pages(t) /\ Entries(T) = Entries(S) \cup {<<t, Name>>}
             /\ M \in KeyLists(t) /\ Len(M) = Len(S[i]) + 1
<1> DEFINE key == <<t, Name>>
           M == InsertAt(S[i], InsertionPoint(S[i], Name) + 1, key)
           T == Put(S, i, M)
<1>1. i \in DOMAIN S /\ DOMAIN S \subseteq Int /\ \A p \in DOMAIN S : S[p] \in KeyLists(t)
  BY PageFacts DEF Spot
<1>2. key \notin Range(S[i]) /\ NameOf(key) = Name
  BY <1>1 DEF Entries, NameOf
<1>3. M \in KeyLists(t) /\ Range(M) = Range(S[i]) \cup {key} /\ Len(M) = Len(S[i]) + 1
  BY <1>1, <1>2, ListAdded
<1> HIDE DEF M, key
<1>4. ASSUME NEW p \in DOMAIN S PROVE Between(S, M, i, p)
  <2>1. p < i => Apart(S[p], S[i]) /\ Below(S[p], Name)
    BY <1>1 DEF Spot, Pages, Ordered
  <2>2. p > i => Apart(S[i], S[p]) /\ Above(S[p], Name)
    BY <1>1 DEF Spot, Pages, Ordered
  <2>3. Below(S[p], Name) => \A k \in Range(S[p]) : NameOf(k) < Name
    BY DEF Below, Range
  <2>4. Above(S[p], Name) => \A k \in Range(S[p]) : Name < NameOf(k)
    <3>1. \A q \in DOMAIN S[p] : NameOf(S[p][q]) \in Nat
      BY <1>1, KeyFacts DEF KeyLists
    <3>2. Name \in Nat
      BY NamesAssumption
    <3>3. QED
      BY <3>1, <3>2 DEF Above, Range
  <2>5. p < i => Apart(S[p], M)
    BY <1>2, <1>3, <2>1, <2>3, ApartRanges
  <2>6. p > i => Apart(M, S[p])
    BY <1>2, <1>3, <2>2, <2>4, ApartRanges
  <2>7. QED
    BY <2>5, <2>6 DEF Between
<1>5. T \in Pages(t) /\ Entries(T) = Others(S, i) \cup Range(M)
  BY <1>1, <1>3, <1>4, PageReplaced
<1>6. Entries(S) = Others(S, i) \cup Range(S[i])
  BY <1>1, EntriesApart
<1>7. QED
  BY <1>3, <1>5, <1>6 DEF M, key

LEMMA PagesTaken ==
  ASSUME NEW t \in Storages, NEW S \in Pages(t), NEW i \in DOMAIN S, NEW j \in DOMAIN S[i]
  PROVE  LET T == Put(S, i, RemoveAt(S[i], j))
         IN  T \in Pages(t) /\ Entries(T) = Entries(S) \ {S[i][j]}
<1> DEFINE M == RemoveAt(S[i], j)
<1>1. M \in KeyLists(t) /\ Range(M) = Range(S[i]) \ {S[i][j]}
  BY PageFacts, ListTaken
<1> HIDE DEF M
<1>2. ASSUME NEW p \in DOMAIN S PROVE Between(S, M, i, p)
  BY <1>1, ApartRanges DEF Pages, Ordered, Between
<1>3. Put(S, i, M) \in Pages(t) /\ Entries(Put(S, i, M)) = Others(S, i) \cup Range(M)
  BY <1>1, <1>2, PageReplaced
<1>4. Entries(S) = Others(S, i) \cup Range(S[i]) /\ Others(S, i) \cap Range(S[i]) = {}
  BY EntriesApart
<1>5. S[i][j] \in Range(S[i])
  BY DEF Range
<1>6. Others(S, i) \cup Range(M) = (Others(S, i) \cup Range(S[i])) \ {S[i][j]}
  BY <1>1, <1>4, <1>5
<1>7. QED
  BY <1>3, <1>4, <1>6 DEF M

LEMMA PagesDropped ==
  ASSUME NEW t \in Storages, NEW S \in Pages(t), NEW i \in DOMAIN S
  PROVE  /\ RemoveAt(S, i) \in Pages(t)
         /\ Entries(RemoveAt(S, i)) = Entries(S) \ Range(S[i])
         /\ NoneEmpty(S) => NoneEmpty(RemoveAt(S, i))
<1> DEFINE T == RemoveAt(S, i)
           at(j) == IF j < i THEN j ELSE j + 1
<1>1. S \in Seq(KeyLists(t)) /\ Ordered(S) /\ DOMAIN S = 1 .. Len(S) /\ Len(S) \in Nat
  BY PageFacts DEF Pages
<1>2. /\ RemoveAt(S, i) \in Seq(KeyLists(t)) /\ Len(RemoveAt(S, i)) = Len(S) - 1
      /\ \A j \in 1 .. Len(S) - 1 : RemoveAt(S, i)[j] = IF j < i THEN S[j] ELSE S[j + 1]
  BY <1>1, RemoveAtFacts
<1>3. T \in Seq(KeyLists(t)) /\ Len(T) = Len(S) - 1
  BY <1>2
<1>4. \A j \in 1 .. Len(S) - 1 : T[j] = IF j < i THEN S[j] ELSE S[j + 1]
  BY <1>2
<1> HIDE DEF T
<1>5. DOMAIN T = 1 .. Len(S) - 1
  BY <1>3, LenProperties
<1>6. \A j \in DOMAIN T : at(j) \in DOMAIN S \ {i} /\ T[j] = S[at(j)]
  BY <1>1, <1>4, <1>5
<1>7. \A j, k \in DOMAIN T : j < k => at(j) < at(k)
  BY <1>1, <1>5
<1>8. \A j \in DOMAIN S \ {i} : \E p \in DOMAIN T : at(p) = j
  <2> SUFFICES ASSUME NEW j \in DOMAIN S \ {i} PROVE \E p \in DOMAIN T : at(p) = j
    OBVIOUS
  <2>1. CASE j < i
    <3>1. j \in DOMAIN T /\ at(j) = j
      BY <1>1, <1>5, <2>1
    <3>2. QED
      BY <3>1
  <2>2. CASE ~(j < i)
    <3>1. j - 1 \in DOMAIN T /\ at(j - 1) = j
      BY <1>1, <1>5, <2>2
    <3>2. QED
      BY <3>1
  <2>3. QED
    BY <2>1, <2>2
<1> HIDE DEF at
<1>9. Ordered(T)
  BY <1>1, <1>6, <1>7 DEF Ordered
<1>10. Entries(T) = Others(S, i)
  <2>1. ASSUME NEW k \in Entries(T) PROVE k \in Others(S, i)
    <3>1. PICK j \in DOMAIN T : k \in Range(T[j])
      BY OthersFacts
    <3>2. at(j) \in DOMAIN S /\ at(j) # i /\ k \in Range(S[at(j)])
      BY <1>6, <3>1
    <3>3. QED
      BY <3>2, OthersFacts
  <2>2. ASSUME NEW k \in Others(S, i) PROVE k \in Entries(T)
    <3>1. PICK p \in DOMAIN S : p # i /\ k \in Range(S[p])
      BY OthersFacts
    <3>2. PICK j \in DOMAIN T : at(j) = p
      BY <1>8, <3>1
    <3>3. k \in Range(T[j])
      BY <1>6, <3>1, <3>2
    <3>4. QED
      BY <3>3, OthersFacts
  <2>3. QED
    BY <2>1, <2>2
<1>11. Entries(S) = Others(S, i) \cup Range(S[i]) /\ Others(S, i) \cap Range(S[i]) = {}
  BY EntriesApart
<1>12. NoneEmpty(S) => NoneEmpty(T)
  BY <1>6 DEF NoneEmpty
<1>13. QED
  BY <1>3, <1>9, <1>10, <1>11, <1>12 DEF Pages, T

\* A page is cut in two.
LEMMA PagesSplit ==
  ASSUME NEW t \in Storages, NEW S \in Pages(t), NEW i \in DOMAIN S,
         NEW M \in KeyLists(t), NEW N \in KeyLists(t),
         Range(M) \cup Range(N) = Range(S[i]), Apart(M, N), M # <<>>, N # <<>>
  PROVE  LET T == InsertAt(Put(S, i, M), i + 1, N)
         IN  /\ T \in Pages(t) /\ Len(T) = Len(S) + 1 /\ Entries(T) = Entries(S)
             /\ NoneEmpty(S) => NoneEmpty(T)
             /\ \A j \in 1 .. Len(S) + 1 :
                  T[j] = IF j < i THEN S[j] ELSE IF j = i THEN M
                         ELSE IF j = i + 1 THEN N ELSE S[j - 1]
<1> DEFINE U == Put(S, i, M)
           T == InsertAt(U, i + 1, N)
           K == KeyLists(t)
           n == Len(S)
<1>1. S \in Seq(K) /\ Ordered(S) /\ DOMAIN S = 1 .. n /\ n \in Nat
  BY PageFacts DEF Pages
<1>2. U \in Seq(K) /\ Len(U) = n /\ \A j \in 1 .. n : U[j] = IF j = i THEN M ELSE S[j]
  BY <1>1, ExceptSeq DEF Put
<1> HIDE DEF K, U
<1>3. N \in K /\ i + 1 \in 1 .. n + 1
  BY <1>1 DEF K
<1>4. /\ InsertAt(U, i + 1, N) \in Seq(K) /\ Len(InsertAt(U, i + 1, N)) = n + 1
      /\ \A j \in 1 .. n + 1 :
           InsertAt(U, i + 1, N)[j] =
             IF j < i + 1 THEN U[j] ELSE IF j = i + 1 THEN N ELSE U[j - 1]
  <2> DEFINE m == i + 1
  <2>1. U \in Seq(K) /\ N \in K /\ m \in 1 .. Len(U) + 1
    BY <1>2, <1>3
  <2> HIDE DEF m, n
  <2>2. InsertAt(U, m, N) \in Seq(K) /\ Len(InsertAt(U, m, N)) = Len(U) + 1
    BY <2>1, InsertAtFacts
  <2>3. ASSUME NEW j \in 1 .. Len(U) + 1
        PROVE  InsertAt(U, m, N)[j] = IF j < m THEN U[j] ELSE IF j = m THEN N ELSE U[j - 1]
    BY <2>1, InsertAtFacts
  <2>4. QED
    BY <1>2, <2>2, <2>3 DEF m
<1>6. T \in Seq(K) /\ Len(T) = n + 1
  BY <1>4
<1>7. \A j \in 1 .. n + 1 : T[j] = IF j < i + 1 THEN U[j] ELSE IF j = i + 1 THEN N ELSE U[j - 1]
  BY <1>4
<1> HIDE DEF T
<1>8. DOMAIN T = 1 .. n + 1
  BY <1>6, LenProperties
<1>9. ASSUME NEW j \in 1 .. n + 1
      PROVE  T[j] = IF j < i THEN S[j] ELSE IF j = i THEN M
                    ELSE IF j = i + 1 THEN N ELSE S[j - 1]
  <2>1. CASE j < i
    <3>1. j \in 1 .. n /\ j # i /\ j < i + 1
      BY <1>1, <2>1
    <3>2. QED
      BY <1>2, <1>7, <2>1, <3>1
  <2>2. CASE j = i
    <3>1. j \in 1 .. n /\ j < i + 1 /\ ~(j < i)
      BY <1>1, <2>2
    <3>2. QED
      BY <1>2, <1>7, <2>2, <3>1
  <2>3. CASE j = i + 1
    <3>1. ~(j < i + 1) /\ ~(j < i) /\ j # i
      BY <1>1, <2>3
    <3>2. QED
      BY <1>7, <2>3, <3>1
  <2>4. CASE j > i + 1
    <3>1. ~(j < i + 1) /\ j # i + 1 /\ ~(j < i) /\ j # i /\ j - 1 \in 1 .. n /\ j - 1 # i
      BY <1>1, <2>4
    <3>2. QED
      BY <1>2, <1>7, <3>1
  <2>5. QED
    BY <1>1, <2>1, <2>2, <2>3, <2>4
<1>10. /\ \A p \in DOMAIN S : p < i => Apart(S[p], M) /\ Apart(S[p], N)
       /\ \A p \in DOMAIN S : p > i => Apart(M, S[p]) /\ Apart(N, S[p])
  BY <1>1, ApartRanges DEF Ordered
<1>11. Ordered(T)
  <2> SUFFICES ASSUME NEW p \in 1 .. n + 1, NEW q \in 1 .. n + 1, p < q PROVE Apart(T[p], T[q])
    BY <1>8 DEF Ordered
  <2>1. CASE p < i
    <3>1. p \in DOMAIN S /\ T[p] = S[p]
      BY <1>1, <1>9, <2>1
    <3>2. CASE q < i
      <4>1. q \in DOMAIN S /\ T[q] = S[q]
        BY <1>1, <1>9, <3>2
      <4>2. QED
        BY <1>1, <3>1, <4>1 DEF Ordered
    <3>3. CASE q = i \/ q = i + 1
      <4>1. T[q] = M \/ T[q] = N
        BY <1>1, <1>9, <3>3
      <4>2. QED
        BY <1>10, <2>1, <3>1, <4>1
    <3>4. CASE q > i + 1
      <4>1. q - 1 \in DOMAIN S /\ T[q] = S[q - 1] /\ p < q - 1
        BY <1>1, <1>9, <2>1, <3>4
      <4>2. QED
        BY <1>1, <3>1, <4>1 DEF Ordered
    <3>5. QED
      BY <1>1, <3>2, <3>3, <3>4
  <2>2. CASE p = i
    <3>1. T[p] = M
      BY <1>1, <1>9, <2>2
    <3>2. CASE q = i + 1
      <4>1. T[q] = N
        BY <1>1, <1>9, <3>2
      <4>2. QED
        BY <3>1, <4>1
    <3>3. CASE q > i + 1
      <4>1. q - 1 \in DOMAIN S /\ T[q] = S[q - 1] /\ q - 1 > i
        BY <1>1, <1>9, <3>3
      <4>2. QED
        BY <1>10, <3>1, <4>1
    <3>4. QED
      BY <1>1, <2>2, <3>2, <3>3
  <2>3. CASE p = i + 1
    <3>1. T[p] = N
      BY <1>1, <1>9, <2>3
    <3>2. q - 1 \in DOMAIN S /\ T[q] = S[q - 1] /\ q - 1 > i
      BY <1>1, <1>9, <2>3
    <3>3. QED
      BY <1>10, <3>1, <3>2
  <2>4. CASE p > i + 1
    <3>1. /\ p - 1 \in DOMAIN S /\ T[p] = S[p - 1]
          /\ q - 1 \in DOMAIN S /\ T[q] = S[q - 1] /\ p - 1 < q - 1
      BY <1>1, <1>9, <2>4
    <3>2. QED
      BY <1>1, <3>1 DEF Ordered
  <2>5. QED
    BY <1>1, <2>1, <2>2, <2>3, <2>4
<1>12. /\ i \in DOMAIN T /\ T[i] = M /\ i + 1 \in DOMAIN T /\ T[i + 1] = N
  BY <1>1, <1>8, <1>9
<1>13. \A p \in DOMAIN S : p # i => \E q \in DOMAIN T : T[q] = S[p]
  <2> SUFFICES ASSUME NEW p \in DOMAIN S, p # i PROVE \E q \in DOMAIN T : T[q] = S[p]
    OBVIOUS
  <2>1. CASE p < i
    <3>1. p \in DOMAIN T /\ T[p] = S[p]
      BY <1>1, <1>8, <1>9, <2>1
    <3>2. QED
      BY <3>1
  <2>2. CASE p > i
    <3>1. p + 1 \in DOMAIN T /\ T[p + 1] = S[p]
      BY <1>1, <1>8, <1>9, <2>2
    <3>2. QED
      BY <3>1
  <2>3. QED
    BY <1>1, <2>1, <2>2
<1>14. \A q \in DOMAIN T : T[q] = M \/ T[q] = N \/ \E p \in DOMAIN S : T[q] = S[p]
  <2> SUFFICES ASSUME NEW q \in DOMAIN T, q # i, q # i + 1 PROVE \E p \in DOMAIN S : T[q] = S[p]
    BY <1>12
  <2>1. CASE q < i
    <3>1. q \in DOMAIN S /\ T[q] = S[q]
      BY <1>1, <1>8, <1>9, <2>1
    <3>2. QED
      BY <3>1
  <2>2. CASE q > i + 1
    <3>1. q - 1 \in DOMAIN S /\ T[q] = S[q - 1]
      BY <1>1, <1>8, <1>9, <2>2
    <3>2. QED
      BY <3>1
  <2>3. QED
    BY <1>1, <1>8, <2>1, <2>2
<1>15. Entries(T) = Entries(S)
  <2>1. ASSUME NEW k \in Entries(T) PROVE k \in Entries(S)
    <3>1. PICK q \in DOMAIN T : k \in Range(T[q])
      BY DEF Entries
    <3>2. QED
      BY <1>14, <3>1 DEF Entries
  <2>2. ASSUME NEW k \in Entries(S) PROVE k \in Entries(T)
    <3>1. PICK p \in DOMAIN S : k \in Range(S[p])
      BY DEF Entries
    <3>2. CASE p = i
      BY <1>12, <3>1, <3>2 DEF Entries
    <3>3. CASE p # i
      BY <1>13, <3>1, <3>3 DEF Entries
    <3>4. QED
      BY <3>2, <3>3
  <2>3. QED
    BY <2>1, <2>2
<1>16. NoneEmpty(S) => NoneEmpty(T)
  BY <1>14 DEF NoneEmpty
<1>17. QED
  BY <1>6, <1>9, <1>11, <1>15, <1>16 DEF Pages, T, K, U


-----------------------------------------------------------------------------
(* Hives *)

Numbers == Nat \ {0}
CellIds == Storages \X Numbers

\* The entries of lists: subkeys and cells.
Items == Storages \X Nat

Forms == {CM_KEY_INDEX_LEAF, CM_KEY_FAST_LEAF, CM_KEY_HASH_LEAF}

Indexes == [Signature : Forms \cup {CM_KEY_INDEX_ROOT}, List : Seq(Items), Size : Nat]

Fits(index) == Len(index.List) <= Capacity(index)

Heaps == UNION {[D -> {index \in Indexes : Fits(index)}] : D \in SUBSET CellIds}

Places == CellIds \cup {HCELL_NIL, CMP_VOLATILE_LIST_UNINTIALIZED}

\* The fields have their types, no list outgrows its cell, and only what exists is dirty.
Hives == {h \in [Version : Versions, Cell : Heaps, Dirty : SUBSET (CellIds \cup {ParentKey}),
                 SubKeyCounts : [Storages -> Nat], SubKeyLists : [Storages -> Places]] :
            /\ IsFiniteSet(DOMAIN h.Cell)
            /\ h.Dirty \subseteq DOMAIN h.Cell \cup {ParentKey}}

LEMMA StorageFacts ==
  /\ Storages = {"Stable", "Volatile"}
  /\ HSTORAGE_TYPE[1] = "Stable" /\ HSTORAGE_TYPE[2] = "Volatile"
BY DEF Storages, HSTORAGE_TYPE, Range

LEMMA HeapFacts ==
  ASSUME NEW C
  PROVE  C \in Heaps <=> /\ C = [d \in DOMAIN C |-> C[d]]
                         /\ DOMAIN C \subseteq CellIds
                         /\ \A d \in DOMAIN C : C[d] \in Indexes /\ Fits(C[d])
<1> DEFINE J == {index \in Indexes : Fits(index)}
<1>1. ASSUME C \in Heaps
      PROVE  /\ C = [d \in DOMAIN C |-> C[d]]
             /\ DOMAIN C \subseteq CellIds
             /\ \A d \in DOMAIN C : C[d] \in J
  <2>1. PICK D \in SUBSET CellIds : C \in [D -> J]
    BY <1>1 DEF Heaps
  <2> HIDE DEF J
  <2>2. QED
    BY <2>1
<1>2. ASSUME C = [d \in DOMAIN C |-> C[d]], DOMAIN C \subseteq CellIds,
             \A d \in DOMAIN C : C[d] \in J
      PROVE  C \in Heaps
  <2>1. C \in [DOMAIN C -> J]
    <3> HIDE DEF J
    <3>1. QED
      BY <1>2
  <2>2. QED
    BY <1>2, <2>1 DEF Heaps
<1>3. QED
  BY <1>1, <1>2

LEMMA HiveFacts ==
  ASSUME NEW h \in Hives
  PROVE  /\ h.Version \in Versions
         /\ h.Cell \in Heaps /\ IsFiniteSet(DOMAIN h.Cell) /\ DOMAIN h.Cell \subseteq CellIds
         /\ h.Dirty \subseteq DOMAIN h.Cell \cup {ParentKey}
         /\ h.SubKeyCounts \in [Storages -> Nat] /\ h.SubKeyLists \in [Storages -> Places]
         /\ \A c \in DOMAIN h.Cell : /\ h.Cell[c] \in Indexes /\ Fits(h.Cell[c])
                                     /\ h.Cell[c].Signature \in Forms \cup {CM_KEY_INDEX_ROOT}
                                     /\ h.Cell[c].List \in Seq(Items)
                                     /\ h.Cell[c].Size \in Nat
         /\ ParentKey \notin DOMAIN h.Cell
<1>1. h.Cell \in Heaps
  BY DEF Hives
<1>2. DOMAIN h.Cell \subseteq CellIds /\ \A c \in DOMAIN h.Cell : h.Cell[c] \in Indexes /\ Fits(h.Cell[c])
  BY <1>1, HeapFacts
<1>3. ParentKey \notin CellIds
  BY DEF ParentKey, CellIds, Numbers
<1>4. QED
  BY <1>1, <1>2, <1>3 DEF Hives, Indexes

-----------------------------------------------------------------------------
(* Steps: what every change to the index of the storage type t leaves alone *)

\* Other types do not change, stable cells that change are dirty, and dirt stays.
Step(h, g, t) ==
  /\ g \in Hives /\ g.Version = h.Version
  /\ \A d \in CellIds : HvGetCellType(d) # t =>
       /\ d \in DOMAIN g.Cell <=> d \in DOMAIN h.Cell
       /\ d \in DOMAIN h.Cell => g.Cell[d] = h.Cell[d]
  /\ \A u \in Storages \ {t} : /\ g.SubKeyCounts[u] = h.SubKeyCounts[u]
                               /\ g.SubKeyLists[u] = h.SubKeyLists[u]
  /\ \A c \in DOMAIN g.Cell : HvGetCellType(c) = "Stable" =>
       \/ c \in g.Dirty
       \/ c \in DOMAIN h.Cell /\ g.Cell[c] = h.Cell[c] /\ c \notin h.Dirty
  /\ ParentKey \in h.Dirty => ParentKey \in g.Dirty

LEMMA StepHives ==
  ASSUME NEW h, NEW g, NEW t, Step(h, g, t)
  PROVE  g \in Hives
BY DEF Step

LEMMA StepTransitive ==
  ASSUME NEW h \in Hives, NEW g, NEW k, NEW t, Step(h, g, t), Step(g, k, t)
  PROVE  Step(h, k, t)
<1>1. g \in Hives /\ k \in Hives
  BY DEF Step
<1>2. DOMAIN g.Cell \subseteq CellIds /\ DOMAIN k.Cell \subseteq CellIds /\ DOMAIN h.Cell \subseteq CellIds
  BY <1>1, HiveFacts
<1>3. QED
  BY <1>2 DEF Step

\* The node of the key says the same.
SameNode(h, g) == g.SubKeyCounts = h.SubKeyCounts /\ g.SubKeyLists = h.SubKeyLists

LEMMA MarkFacts ==
  ASSUME NEW h \in Hives, NEW c \in DOMAIN h.Cell \cup {ParentKey}, NEW t
  PROVE  /\ Step(h, HvMarkCellDirty(h, c), t) /\ SameNode(h, HvMarkCellDirty(h, c))
         /\ HvMarkCellDirty(h, c).Cell = h.Cell
         /\ HvGetCellType(c) = "Stable" => c \in HvMarkCellDirty(h, c).Dirty
         /\ h.Dirty \subseteq HvMarkCellDirty(h, c).Dirty
<1> DEFINE g == HvMarkCellDirty(h, c)
<1>1. /\ g.Version = h.Version /\ g.Cell = h.Cell
      /\ g.SubKeyCounts = h.SubKeyCounts /\ g.SubKeyLists = h.SubKeyLists
      /\ g.Dirty = (IF HvGetCellType(c) = "Stable" THEN h.Dirty \cup {c} ELSE h.Dirty)
      /\ g \in Hives
  BY HiveFacts DEF HvMarkCellDirty, Hives
<1> HIDE DEF g
<1>2. Step(h, g, t)
  BY <1>1 DEF Step
<1>3. QED
  BY <1>1, <1>2 DEF SameNode, g

\* There is always a cell that is not in use.
LEMMA NewCellFacts ==
  ASSUME NEW h \in Hives, NEW t \in Storages
  PROVE  /\ NewCell(h, t) \in CellIds /\ NewCell(h, t) \notin DOMAIN h.Cell
         /\ HvGetCellType(NewCell(h, t)) = t
<1> DEFINE n == Cardinality(DOMAIN h.Cell)
           T == {m \in 1 .. n + 1 : <<t, m>> \notin DOMAIN h.Cell}
<1>1. IsFiniteSet(DOMAIN h.Cell) /\ n \in Nat
  BY HiveFacts, FS_CardinalityType
<1>2. T # {}
  <2> SUFFICES ASSUME T = {} PROVE FALSE
    OBVIOUS
  <2> DEFINE f == [m \in 1 .. n + 1 |-> <<t, m>>]
  <2>1. f \in Injection(1 .. n + 1, DOMAIN h.Cell)
    BY DEF Injection, IsInjective
  <2>2. IsFiniteSet(1 .. n + 1) /\ Cardinality(1 .. n + 1) = n + 1
    BY <1>1, FS_Interval
  <2>3. Cardinality(1 .. n + 1) <= n
    BY <1>1, <2>1, FS_Injection
  <2>4. QED
    BY <1>1, <2>2, <2>3
<1>3. T \in SUBSET Nat
  BY <1>1
<1>4. Min(T) \in T
  BY <1>2, <1>3, MinFacts
<1>5. NewCell(h, t) = <<t, Min(T)>>
  BY DEF NewCell
<1> HIDE DEF T
<1>6. Min(T) \in 1 .. n + 1 /\ <<t, Min(T)>> \notin DOMAIN h.Cell
  BY <1>4 DEF T
<1>7. QED
  BY <1>1, <1>5, <1>6 DEF CellIds, Numbers, HvGetCellType

LEMMA AllocateFacts ==
  ASSUME NEW h \in Hives, NEW t \in Storages, NEW c \in CellIds, HvGetCellType(c) = t,
         c \notin DOMAIN h.Cell, NEW Size, NEW Signature, NEW List,
         [Signature |-> Signature, List |-> List, Size |-> CellSize(Size)] \in Indexes,
         Fits([Signature |-> Signature, List |-> List, Size |-> CellSize(Size)])
  PROVE  /\ Step(h, HvAllocateCell(h, c, Size, Signature, List), t)
         /\ SameNode(h, HvAllocateCell(h, c, Size, Signature, List))
         /\ DOMAIN HvAllocateCell(h, c, Size, Signature, List).Cell = DOMAIN h.Cell \cup {c}
         /\ HvAllocateCell(h, c, Size, Signature, List).Cell[c] =
              [Signature |-> Signature, List |-> List, Size |-> CellSize(Size)]
         /\ \A d \in DOMAIN h.Cell : HvAllocateCell(h, c, Size, Signature, List).Cell[d] = h.Cell[d]
         /\ h.Dirty \subseteq HvAllocateCell(h, c, Size, Signature, List).Dirty
         /\ t = "Stable" => c \in HvAllocateCell(h, c, Size, Signature, List).Dirty
<1> DEFINE index == [Signature |-> Signature, List |-> List, Size |-> CellSize(Size)]
           C == [d \in DOMAIN h.Cell \cup {c} |-> IF d = c THEN index ELSE h.Cell[d]]
           k == [h EXCEPT !.Cell = C]
           g == HvMarkCellDirty(k, c)
<1>1. g = HvAllocateCell(h, c, Size, Signature, List)
  BY DEF HvAllocateCell
<1>2. index \in Indexes /\ Fits(index)
  OBVIOUS
<1> HIDE DEF index
<1>3. /\ DOMAIN C = DOMAIN h.Cell \cup {c} /\ C = [d \in DOMAIN C |-> C[d]]
      /\ C[c] = index /\ \A d \in DOMAIN h.Cell : C[d] = h.Cell[d]
  OBVIOUS
<1> HIDE DEF C
<1>4. C \in Heaps
  <2>1. \A d \in DOMAIN C : C[d] \in Indexes /\ Fits(C[d])
    BY <1>2, <1>3, HiveFacts
  <2>2. DOMAIN C \subseteq CellIds
    BY <1>3, HiveFacts
  <2>3. QED
    BY <1>3, <2>1, <2>2, HeapFacts
<1>5. IsFiniteSet(DOMAIN C)
  BY <1>3, HiveFacts, FS_AddElement
<1>6. /\ k.Version = h.Version /\ k.Cell = C /\ k.Dirty = h.Dirty
      /\ k.SubKeyCounts = h.SubKeyCounts /\ k.SubKeyLists = h.SubKeyLists
      /\ k \in Hives
  BY <1>3, <1>4, <1>5, HiveFacts DEF Hives
<1> HIDE DEF k
<1>7. /\ g \in Hives /\ g.Version = h.Version /\ SameNode(k, g) /\ g.Cell = C
      /\ h.Dirty \subseteq g.Dirty
      /\ t = "Stable" => c \in g.Dirty
      /\ ParentKey \in h.Dirty => ParentKey \in g.Dirty
  BY <1>3, <1>6, MarkFacts DEF Step
<1> HIDE DEF g
<1>8. Step(h, g, t)
  BY <1>3, <1>7, <1>6 DEF Step, SameNode
<1>9. QED
  BY <1>1, <1>3, <1>6, <1>7, <1>8 DEF SameNode, index

LEMMA FreeFacts ==
  ASSUME NEW h \in Hives, NEW t \in Storages, NEW c \in DOMAIN h.Cell, HvGetCellType(c) = t
  PROVE  /\ Step(h, HvFreeCell(h, c), t) /\ SameNode(h, HvFreeCell(h, c))
         /\ DOMAIN HvFreeCell(h, c).Cell = DOMAIN h.Cell \ {c}
         /\ \A d \in DOMAIN h.Cell \ {c} : HvFreeCell(h, c).Cell[d] = h.Cell[d]
         /\ HvFreeCell(h, c).Dirty = h.Dirty \ {c}
<1> DEFINE C == Restrict(h.Cell, DOMAIN h.Cell \ {c})
           g == [h EXCEPT !.Cell = C, !.Dirty = h.Dirty \ {c}]
<1>1. g = HvFreeCell(h, c)
  BY DEF HvFreeCell
<1>2. /\ DOMAIN C = DOMAIN h.Cell \ {c} /\ C = [d \in DOMAIN C |-> C[d]]
      /\ \A d \in DOMAIN h.Cell \ {c} : C[d] = h.Cell[d]
  BY DEF Restrict
<1> HIDE DEF C
<1>3. C \in Heaps
  <2>1. \A d \in DOMAIN C : C[d] \in Indexes /\ Fits(C[d])
    BY <1>2, HiveFacts
  <2>2. DOMAIN C \subseteq CellIds
    BY <1>2, HiveFacts
  <2>3. QED
    BY <1>2, <2>1, <2>2, HeapFacts
<1>4. IsFiniteSet(DOMAIN C)
  BY <1>2, HiveFacts, FS_RemoveElement
<1>5. /\ g.Version = h.Version /\ g.Cell = C /\ g.Dirty = h.Dirty \ {c}
      /\ g.SubKeyCounts = h.SubKeyCounts /\ g.SubKeyLists = h.SubKeyLists
      /\ g \in Hives
  BY <1>2, <1>3, <1>4, HiveFacts DEF Hives
<1> HIDE DEF g
<1>6. c # ParentKey
  BY HiveFacts
<1>7. Step(h, g, t)
  BY <1>2, <1>5, <1>6 DEF Step
<1>8. QED
  BY <1>1, <1>2, <1>5, <1>7 DEF SameNode

LEMMA PutListFacts ==
  ASSUME NEW h \in Hives, NEW t \in Storages, NEW c \in DOMAIN h.Cell, HvGetCellType(c) = t,
         t = "Stable" => c \in h.Dirty, NEW List \in Seq(Items),
         Len(List) <= Capacity(h.Cell[c])
  PROVE  /\ Step(h, PutList(h, c, List), t) /\ SameNode(h, PutList(h, c, List))
         /\ DOMAIN PutList(h, c, List).Cell = DOMAIN h.Cell
         /\ PutList(h, c, List).Cell[c].Signature = h.Cell[c].Signature
         /\ PutList(h, c, List).Cell[c].List = List
         /\ \A d \in DOMAIN h.Cell \ {c} : PutList(h, c, List).Cell[d] = h.Cell[d]
         /\ PutList(h, c, List).Dirty = h.Dirty
<1> DEFINE index == [h.Cell[c] EXCEPT !.List = List]
           C == [h.Cell EXCEPT ![c] = index]
           g == [h EXCEPT !.Cell = C]
<1>0. g = PutList(h, c, List)
  BY DEF PutList
<1>1. /\ index \in Indexes /\ index.Signature = h.Cell[c].Signature
      /\ index.List = List /\ index.Size = h.Cell[c].Size
  BY HiveFacts DEF Indexes
<1>2. Fits(index)
  BY <1>1 DEF Fits, Capacity
<1> HIDE DEF index
<1>3. /\ DOMAIN C = DOMAIN h.Cell /\ C = [d \in DOMAIN C |-> C[d]]
      /\ C[c] = index /\ \A d \in DOMAIN h.Cell \ {c} : C[d] = h.Cell[d]
  OBVIOUS
<1> HIDE DEF C
<1>4. C \in Heaps
  <2>1. \A d \in DOMAIN C : C[d] \in Indexes /\ Fits(C[d])
    BY <1>1, <1>2, <1>3, HiveFacts
  <2>2. DOMAIN C \subseteq CellIds
    BY <1>3, HiveFacts
  <2>3. QED
    BY <1>3, <2>1, <2>2, HeapFacts
<1>5. /\ g.Version = h.Version /\ g.Cell = C /\ g.Dirty = h.Dirty
      /\ g.SubKeyCounts = h.SubKeyCounts /\ g.SubKeyLists = h.SubKeyLists
      /\ g \in Hives
  BY <1>3, <1>4, HiveFacts DEF Hives
<1> HIDE DEF g
<1>6. Step(h, g, t)
  BY <1>3, <1>5 DEF Step
<1>7. QED
  BY <1>0, <1>1, <1>3, <1>5, <1>6 DEF SameNode

\* The number of subkeys, and the place of the index, in the node of the key.
WithCount(h, t, n) == [h EXCEPT !.SubKeyCounts[t] = n]
WithList(h, t, p) == [h EXCEPT !.SubKeyLists[t] = p]

LEMMA CountFacts ==
  ASSUME NEW h \in Hives, NEW t \in Storages, NEW n \in Nat
  PROVE  /\ Step(h, WithCount(h, t, n), t)
         /\ WithCount(h, t, n).Cell = h.Cell /\ WithCount(h, t, n).Dirty = h.Dirty
         /\ WithCount(h, t, n).SubKeyLists = h.SubKeyLists
         /\ WithCount(h, t, n).SubKeyCounts[t] = n
<1> DEFINE g == WithCount(h, t, n)
<1>1. /\ h.SubKeyCounts \in [Storages -> Nat]
      /\ h \in [Version : Versions, Cell : Heaps, Dirty : SUBSET (CellIds \cup {ParentKey}),
                SubKeyCounts : [Storages -> Nat], SubKeyLists : [Storages -> Places]]
  BY DEF Hives
<1>2. /\ g.Version = h.Version /\ g.Cell = h.Cell /\ g.Dirty = h.Dirty
      /\ g.SubKeyLists = h.SubKeyLists
      /\ g.SubKeyCounts[t] = n /\ \A u \in Storages \ {t} : g.SubKeyCounts[u] = h.SubKeyCounts[u]
      /\ g \in Hives
  BY <1>1 DEF Hives, WithCount
<1> HIDE DEF g
<1>3. Step(h, g, t)
  BY <1>2 DEF Step
<1>4. QED
  BY <1>2, <1>3 DEF g

LEMMA ListFacts ==
  ASSUME NEW h \in Hives, NEW t \in Storages, NEW p \in Places
  PROVE  /\ Step(h, WithList(h, t, p), t)
         /\ WithList(h, t, p).Cell = h.Cell /\ WithList(h, t, p).Dirty = h.Dirty
         /\ WithList(h, t, p).SubKeyCounts = h.SubKeyCounts
         /\ WithList(h, t, p).SubKeyLists[t] = p
<1> DEFINE g == WithList(h, t, p)
<1>1. /\ h.SubKeyLists \in [Storages -> Places]
      /\ h \in [Version : Versions, Cell : Heaps, Dirty : SUBSET (CellIds \cup {ParentKey}),
                SubKeyCounts : [Storages -> Nat], SubKeyLists : [Storages -> Places]]
  BY DEF Hives
<1>2. /\ g.Version = h.Version /\ g.Cell = h.Cell /\ g.Dirty = h.Dirty
      /\ g.SubKeyCounts = h.SubKeyCounts
      /\ g.SubKeyLists[t] = p /\ \A u \in Storages \ {t} : g.SubKeyLists[u] = h.SubKeyLists[u]
      /\ g \in Hives
  BY <1>1 DEF Hives, WithList
<1> HIDE DEF g
<1>3. Step(h, g, t)
  BY <1>2 DEF Step
<1>4. QED
  BY <1>2, <1>3 DEF g

-----------------------------------------------------------------------------
(* The index of one storage type *)

CellsOf(h, t) == {c \in DOMAIN h.Cell : HvGetCellType(c) = t}

\* The cells that a storage type can have.
Ids(t) == {t} \X Numbers

Rooted(h, c) == h.Cell[c].Signature = CM_KEY_INDEX_ROOT

Limit(Signature) ==
  IF Signature = CM_KEY_FAST_LEAF THEN CmpMaxFastIndexPerHblock ELSE CmpMaxIndexPerHblock

\* The leaf c holds the list L, within the limit of its form.
Holds(h, c, L) ==
  /\ c \in DOMAIN h.Cell
  /\ h.Cell[c].List = L
  /\ h.Cell[c].Signature \in Forms
  /\ Len(L) <= Limit(h.Cell[c].Signature)

\* The cells of the index are the leaves in C, which hold the pages in S, and a root
\* that lists them, or a single leaf.
Chained(h, t, C, S) ==
  /\ S \in Pages(t) /\ S # <<>>
  /\ C \in Seq(Ids(t)) /\ Len(C) = Len(S) /\ IsInjective(C)
  /\ \A i \in DOMAIN S : Holds(h, C[i], S[i])
  /\ h.SubKeyLists[t] \in CellsOf(h, t)
  /\ \/ /\ Rooted(h, h.SubKeyLists[t])
        /\ h.Cell[h.SubKeyLists[t]].List = C
        /\ CellsOf(h, t) = Range(C) \cup {h.SubKeyLists[t]}
        /\ \A i \in DOMAIN S : h.Cell[C[i]].Signature # CM_KEY_FAST_LEAF
     \/ /\ ~Rooted(h, h.SubKeyLists[t])
        /\ C = <<h.SubKeyLists[t]>>
        /\ CellsOf(h, t) = {h.SubKeyLists[t]}

\* The number of subkeys tells whether there is an index, and what it lists.
Good(h, t) ==
  IF h.SubKeyCounts[t] = 0 THEN CellsOf(h, t) = {}
  ELSE \E C, S : /\ Chained(h, t, C, S) /\ NoneEmpty(S)
                 /\ h.SubKeyCounts[t] = Cardinality(Entries(S))

\* The subkeys in the leaves of one storage type.
KeysOf(h, t) == UNION {Range(h.Cell[c].List) : c \in {d \in CellsOf(h, t) : ~Rooted(h, d)}}

LEMMA KeysOfFacts ==
  ASSUME NEW h, NEW t
  PROVE  \A k : k \in KeysOf(h, t) <=>
                  \E c \in CellsOf(h, t) : ~Rooted(h, c) /\ k \in Range(h.Cell[c].List)
BY DEF KeysOf

\* What a chain looks like.
LEMMA ChainFacts ==
  ASSUME NEW h, NEW t, NEW C, NEW S, Chained(h, t, C, S)
  PROVE  /\ Len(S) \in Nat \ {0} /\ DOMAIN S = 1 .. Len(S) /\ DOMAIN C = DOMAIN S
         /\ \A i \in DOMAIN S : /\ S[i] \in KeyLists(t)
                                /\ C[i] \in Ids(t) /\ C[i] \in CellsOf(h, t)
                                /\ ~Rooted(h, C[i]) /\ C[i] # HCELL_NIL
         /\ \A c \in CellsOf(h, t) : ~Rooted(h, c) => \E i \in DOMAIN S : c = C[i]
         /\ ~Rooted(h, h.SubKeyLists[t]) => Len(S) = 1
<1>1. /\ S \in Pages(t) /\ S # <<>>
      /\ C \in Seq(Ids(t)) /\ Len(C) = Len(S)
      /\ \A i \in DOMAIN S : Holds(h, C[i], S[i])
  BY DEF Chained
<1>2. Len(S) \in Nat /\ DOMAIN S = 1 .. Len(S) /\ \A i \in DOMAIN S : S[i] \in KeyLists(t)
  BY <1>1, PageFacts
<1>3. Len(S) # 0
  BY <1>1, EmptySeq DEF Pages
<1>4. DOMAIN C = DOMAIN S /\ \A i \in DOMAIN S : C[i] \in Ids(t)
  BY <1>1, <1>2, LenProperties, ElementOfSeq
<1>5. ASSUME NEW i \in DOMAIN S
      PROVE  C[i] \in CellsOf(h, t) /\ ~Rooted(h, C[i]) /\ C[i] # HCELL_NIL
  <2>1. C[i] \in Ids(t) /\ Holds(h, C[i], S[i])
    BY <1>1, <1>4
  <2>2. C[i][1] = t /\ C[i][2] # 0
    BY <2>1 DEF Ids, Numbers
  <2>3. C[i] # HCELL_NIL
    BY <2>2 DEF HCELL_NIL
  <2>4. QED
    BY <2>1, <2>2, <2>3
       DEF Holds, CellsOf, HvGetCellType, Rooted, Forms, CM_KEY_INDEX_ROOT, CM_KEY_INDEX_LEAF,
           CM_KEY_FAST_LEAF, CM_KEY_HASH_LEAF
<1>6. ASSUME NEW c \in CellsOf(h, t), ~Rooted(h, c) PROVE \E i \in DOMAIN S : c = C[i]
  <2>1. CASE Rooted(h, h.SubKeyLists[t])
    <3>1. c \in Range(C)
      BY <1>6, <2>1 DEF Chained
    <3>2. QED
      BY <1>4, <3>1 DEF Range
  <2>2. CASE ~Rooted(h, h.SubKeyLists[t])
    <3>1. C = <<c>>
      BY <2>2 DEF Chained
    <3>2. 1 \in DOMAIN S /\ C[1] = c
      BY <1>2, <1>3, <3>1
    <3>3. QED
      BY <3>2
  <2>3. QED
    BY <2>1, <2>2
<1>7. ~Rooted(h, h.SubKeyLists[t]) => Len(S) = 1
  BY <1>1 DEF Chained
<1>8. QED
  BY <1>2, <1>3, <1>4, <1>5, <1>6, <1>7

LEMMA ChainKeys ==
  ASSUME NEW h, NEW t, NEW C, NEW S, Chained(h, t, C, S)
  PROVE  KeysOf(h, t) = Entries(S)
<1>1. /\ DOMAIN C = DOMAIN S
      /\ \A i \in DOMAIN S : C[i] \in CellsOf(h, t) /\ ~Rooted(h, C[i])
      /\ \A c \in CellsOf(h, t) : ~Rooted(h, c) => \E i \in DOMAIN S : c = C[i]
  BY ChainFacts
<1>2. \A i \in DOMAIN S : h.Cell[C[i]].List = S[i]
  BY DEF Chained, Holds
<1>3. ASSUME NEW k \in KeysOf(h, t) PROVE k \in Entries(S)
  <2>1. PICK c \in CellsOf(h, t) : ~Rooted(h, c) /\ k \in Range(h.Cell[c].List)
    BY KeysOfFacts
  <2>2. PICK i \in DOMAIN S : c = C[i]
    BY <1>1, <2>1
  <2>3. k \in Range(S[i])
    BY <1>2, <2>1, <2>2
  <2>4. QED
    BY <2>3, OthersFacts
<1>4. ASSUME NEW k \in Entries(S) PROVE k \in KeysOf(h, t)
  <2>1. PICK i \in DOMAIN S : k \in Range(S[i])
    BY OthersFacts
  <2>2. k \in Range(h.Cell[C[i]].List)
    BY <1>2, <2>1
  <2>3. QED
    BY <1>1, <2>2, KeysOfFacts
<1>5. QED
  BY <1>3, <1>4

\* An index is the same where its cells and its place in the node are.
LEMMA KeptChain ==
  ASSUME NEW h, NEW g, NEW u, NEW C, NEW S, Chained(h, u, C, S),
         CellsOf(g, u) = CellsOf(h, u), \A c \in CellsOf(h, u) : g.Cell[c] = h.Cell[c],
         g.SubKeyLists[u] = h.SubKeyLists[u]
  PROVE  Chained(g, u, C, S)
<1>1. /\ S \in Pages(u) /\ S # <<>>
      /\ C \in Seq(Ids(u)) /\ Len(C) = Len(S) /\ IsInjective(C)
      /\ h.SubKeyLists[u] \in CellsOf(h, u)
  BY DEF Chained
<1>2. \A i \in DOMAIN S : C[i] \in CellsOf(h, u)
  BY ChainFacts
<1>3. \A i \in DOMAIN S : Holds(h, C[i], S[i])
  BY DEF Chained
<1>4. \A i \in DOMAIN S : Holds(g, C[i], S[i]) /\ g.Cell[C[i]] = h.Cell[C[i]]
  BY <1>2, <1>3 DEF Holds, CellsOf
<1>5. \/ /\ Rooted(h, h.SubKeyLists[u])
         /\ h.Cell[h.SubKeyLists[u]].List = C
         /\ CellsOf(h, u) = Range(C) \cup {h.SubKeyLists[u]}
         /\ \A i \in DOMAIN S : h.Cell[C[i]].Signature # CM_KEY_FAST_LEAF
      \/ /\ ~Rooted(h, h.SubKeyLists[u])
         /\ C = <<h.SubKeyLists[u]>>
         /\ CellsOf(h, u) = {h.SubKeyLists[u]}
  BY DEF Chained
<1>6. Rooted(g, g.SubKeyLists[u]) <=> Rooted(h, h.SubKeyLists[u])
  BY <1>1 DEF Rooted
<1>7. \/ /\ Rooted(g, g.SubKeyLists[u])
         /\ g.Cell[g.SubKeyLists[u]].List = C
         /\ CellsOf(g, u) = Range(C) \cup {g.SubKeyLists[u]}
         /\ \A i \in DOMAIN S : g.Cell[C[i]].Signature # CM_KEY_FAST_LEAF
      \/ /\ ~Rooted(g, g.SubKeyLists[u])
         /\ C = <<g.SubKeyLists[u]>>
         /\ CellsOf(g, u) = {g.SubKeyLists[u]}
  BY <1>1, <1>4, <1>5, <1>6
<1>8. QED
  BY <1>1, <1>4, <1>7 DEF Chained

\* A step of one storage type leaves the index of the other one as it is.
LEMMA StepFrame ==
  ASSUME NEW h \in Hives, NEW g, NEW t \in Storages, NEW u \in Storages, u # t, Step(h, g, t)
  PROVE  /\ CellsOf(g, u) = CellsOf(h, u) /\ KeysOf(g, u) = KeysOf(h, u)
         /\ \A c \in CellsOf(h, u) : g.Cell[c] = h.Cell[c]
         /\ g.SubKeyCounts[u] = h.SubKeyCounts[u]
         /\ g.SubKeyLists[u] = h.SubKeyLists[u]
         /\ Good(h, u) => Good(g, u)
<1>1. g \in Hives /\ DOMAIN g.Cell \subseteq CellIds /\ DOMAIN h.Cell \subseteq CellIds
  BY HiveFacts DEF Step
<1>2. CellsOf(g, u) = CellsOf(h, u) /\ \A c \in CellsOf(h, u) : g.Cell[c] = h.Cell[c]
  BY <1>1 DEF CellsOf, Step
<1>3. g.SubKeyCounts[u] = h.SubKeyCounts[u] /\ g.SubKeyLists[u] = h.SubKeyLists[u]
  BY DEF Step
<1>4. \A c \in CellsOf(h, u) : Rooted(g, c) <=> Rooted(h, c)
  BY <1>2 DEF Rooted
<1>5. KeysOf(g, u) = KeysOf(h, u)
  <2>1. \A k : k \in KeysOf(g, u) <=> k \in KeysOf(h, u)
    BY <1>2, <1>4, KeysOfFacts
  <2>2. QED
    BY <2>1
<1>6. \A C, S : Chained(h, u, C, S) => Chained(g, u, C, S)
  BY <1>2, <1>3, KeptChain
<1>7. Good(h, u) => Good(g, u)
  BY <1>2, <1>3, <1>6 DEF Good
<1>8. QED
  BY <1>2, <1>3, <1>5, <1>7

-----------------------------------------------------------------------------
(* Searching an index *)

Place(S, Name) == Taken(PageComparisons(S, Name)) + 1

\* Does the search in a root find a leaf that takes the name?
Covers(S, Name) == Inside(PageComparisons(S, Name))

LEMMA PlaceInPages ==
  ASSUME NEW t \in Storages, NEW S \in Pages(t), NoneEmpty(S), S # <<>>, NEW Name \in Names
  PROVE  /\ Place(S, Name) \in 1 .. Len(S) /\ Spot(S, Place(S, Name), Name)
         /\ Covers(S, Name) => ~Below(S[Place(S, Name)], Name)
         /\ ~Covers(S, Name) =>
              \/ Place(S, Name) = 1 /\ Above(S[1], Name)
              \/ Place(S, Name) = Len(S) /\ Below(S[Place(S, Name)], Name)
BY RootSearch DEF Place, Covers

LEMMA RootFound ==
  ASSUME NEW h, NEW t \in Storages, NEW C, NEW S, NEW Name \in Names,
         Chained(h, t, C, S), NoneEmpty(S), Rooted(h, h.SubKeyLists[t])
  PROVE  /\ CmpFindSubKeyInRoot(h, h.SubKeyLists[t], Name).Index = Place(S, Name) - 1
         /\ CmpFindSubKeyInRoot(h, h.SubKeyLists[t], Name).SubKey =
              IF Covers(S, Name) THEN C[Place(S, Name)] ELSE HCELL_NIL
<1> DEFINE n == Len(S)
           List == h.Cell[h.SubKeyLists[t]].List
           Cmp == [i \in 0 .. Len(List) - 1 |-> CompareWithLeaf(Name, h.Cell[List[i + 1]].List)]
           r == CmpFindSubKeyInRoot(h, h.SubKeyLists[t], Name)
           P == PageComparisons(S, Name)
<1>1. /\ List = C /\ Len(C) = n /\ S \in Pages(t) /\ S # <<>>
      /\ \A i \in DOMAIN S : h.Cell[C[i]].List = S[i]
  BY DEF Chained, Holds
<1>2. n \in Nat \ {0} /\ DOMAIN S = 1 .. n
  BY ChainFacts
<1>3. \A i \in 0 .. n - 1 : i + 1 \in DOMAIN S
  BY <1>2
<1>4. Cmp = P
  <2>1. \A i \in 0 .. n - 1 : CompareWithLeaf(Name, h.Cell[List[i + 1]].List) = CompareWithLeaf(Name, S[i + 1])
    BY <1>1, <1>3
  <2>2. QED
    BY <1>1, <2>1 DEF PageComparisons
<1>5. /\ Narrow(P).Low \in 0 .. n - 1 /\ P \in Comparisons(n) /\ Place(S, Name) \in 1 .. n
  BY <1>1, <1>2, RootSearch DEF Place
<1>6. Place(S, Name) = Taken(P) + 1 /\ Taken(P) \in Int
  <2>1. Narrowed(P, n, Narrow(P))
    BY <1>2, <1>5, NarrowFacts
  <2>2. QED
    BY <1>5, <2>1 DEF Place, Narrowed, Taken
<1> HIDE DEF Cmp, P
<1>7. r = LET right  == Cmp[Narrow(Cmp).Low] > 0
              i      == IF right THEN Narrow(Cmp).High ELSE Narrow(Cmp).Low
              inside == IF right THEN Cmp[i] <= 0 ELSE Cmp[i] = 0
          IN  [Index |-> i, SubKey |-> IF inside THEN List[i + 1] ELSE HCELL_NIL]
  BY DEF CmpFindSubKeyInRoot, Cmp
<1>8. r.Index = Taken(P) /\ r.SubKey = IF Inside(P) THEN C[Taken(P) + 1] ELSE HCELL_NIL
  BY <1>1, <1>4, <1>7 DEF Taken, Inside
<1>9. QED
  BY <1>6, <1>8 DEF Covers, P

\* The leaf in which a search goes on holds the page on which the name belongs.
LEMMA LeafForFacts ==
  ASSUME NEW h, NEW t \in Storages, NEW C, NEW S, NEW Name \in Names,
         Chained(h, t, C, S), NoneEmpty(S)
  PROVE  /\ LeafFor(h, t, Name).Index + 1 \in DOMAIN S
         /\ LeafFor(h, t, Name).Index \in Int
         /\ Spot(S, LeafFor(h, t, Name).Index + 1, Name)
         /\ \/ LeafFor(h, t, Name).SubKey = C[LeafFor(h, t, Name).Index + 1]
            \/ LeafFor(h, t, Name).SubKey = HCELL_NIL /\ <<t, Name>> \notin Entries(S)
<1> DEFINE r == LeafFor(h, t, Name)
<1>1. /\ Len(S) \in Nat \ {0} /\ DOMAIN S = 1 .. Len(S)
      /\ S \in Pages(t) /\ S # <<>> /\ \A i \in DOMAIN S : S[i] \in KeyLists(t)
  <2>1. S \in Pages(t) /\ S # <<>>
    BY DEF Chained
  <2>2. QED
    BY <2>1, ChainFacts
<1>2. CASE Rooted(h, h.SubKeyLists[t])
  <2>1. /\ r.Index = Place(S, Name) - 1
        /\ r.SubKey = IF Covers(S, Name) THEN C[Place(S, Name)] ELSE HCELL_NIL
    BY <1>2, RootFound DEF LeafFor, Rooted
  <2>2. Place(S, Name) \in 1 .. Len(S) /\ Spot(S, Place(S, Name), Name)
    BY <1>1, PlaceInPages
  <2>3. r.Index + 1 = Place(S, Name) /\ r.Index \in Int
    BY <2>1, <2>2
  <2>4. ASSUME ~Covers(S, Name) PROVE <<t, Name>> \notin Entries(S)
    <3> DEFINE i == Place(S, Name)
    <3>1. Above(S[i], Name) \/ Below(S[i], Name)
      BY <1>1, <2>4, PlaceInPages
    <3>2. \A p \in DOMAIN S : p = i \/ p < i \/ p > i
      BY <1>1, <2>2
    <3>3. \A p \in DOMAIN S : Above(S[p], Name) \/ Below(S[p], Name)
      BY <2>2, <3>1, <3>2 DEF Spot
    <3>4. SUFFICES ASSUME NEW p \in DOMAIN S, NEW q \in DOMAIN S[p], S[p][q] = <<t, Name>>
                   PROVE  FALSE
      BY OthersFacts DEF Range
    <3>5. NameOf(S[p][q]) = Name /\ Name \in Nat
      BY <3>4, NamesAssumption DEF NameOf
    <3>6. QED
      BY <3>3, <3>5 DEF Above, Below
  <2>5. QED
    BY <1>1, <2>1, <2>2, <2>3, <2>4
<1>3. CASE ~Rooted(h, h.SubKeyLists[t])
  <2>1. r = [Index |-> 0, SubKey |-> h.SubKeyLists[t]]
    BY <1>3 DEF LeafFor, Rooted
  <2>2. C = <<h.SubKeyLists[t]>> /\ Len(S) = 1
    BY <1>3, ChainFacts DEF Chained
  <2>3. Spot(S, 1, Name)
    BY <1>1, <2>2 DEF Spot
  <2>4. QED
    BY <1>1, <2>1, <2>2, <2>3
<1>4. QED
  BY <1>2, <1>3

\* Of the pages, the one on which a name belongs has it if any has.
LEMMA SpotDecides ==
  ASSUME NEW t \in Storages, NEW S \in Pages(t), NEW i, NEW Name \in Names, Spot(S, i, Name)
  PROVE  <<t, Name>> \in Entries(S) <=> <<t, Name>> \in Range(S[i])
<1>1. i \in DOMAIN S /\ DOMAIN S \subseteq Int /\ Name \in Nat
  BY PageFacts, NamesAssumption DEF Spot
<1>2. ASSUME NEW p \in DOMAIN S, <<t, Name>> \in Range(S[p]) PROVE p = i
  <2>1. PICK q \in DOMAIN S[p] : S[p][q] = <<t, Name>>
    BY <1>2 DEF Range
  <2>2. NameOf(S[p][q]) = Name
    BY <2>1 DEF NameOf
  <2>3. ~Below(S[p], Name) /\ ~Above(S[p], Name)
    BY <1>1, <2>2 DEF Below, Above
  <2>4. QED
    BY <1>1, <2>3 DEF Spot
<1>3. QED
  BY <1>1, <1>2, OthersFacts

\* A subkey is found in the index of its storage type, and only then.
LEMMA FindFacts ==
  ASSUME NEW h \in Hives, NEW t \in Storages, NEW Name \in Names, Good(h, t)
  PROVE  FindInStorage(h, t, Name) =
           IF <<t, Name>> \in KeysOf(h, t) THEN <<t, Name>> ELSE HCELL_NIL
<1>1. CASE h.SubKeyCounts[t] = 0
  <2>1. KeysOf(h, t) = {}
    BY <1>1, KeysOfFacts DEF Good
  <2>2. QED
    BY <1>1, <2>1 DEF FindInStorage
<1>2. CASE h.SubKeyCounts[t] # 0
  <2>1. PICK C, S : Chained(h, t, C, S) /\ NoneEmpty(S)
    BY <1>2 DEF Good
  <2>2. KeysOf(h, t) = Entries(S)
    BY <2>1, ChainKeys
  <2> DEFINE leaf == LeafFor(h, t, Name).SubKey
             i == LeafFor(h, t, Name).Index + 1
  <2>3. /\ i \in DOMAIN S /\ Spot(S, i, Name)
        /\ leaf = C[i] \/ (leaf = HCELL_NIL /\ <<t, Name>> \notin Entries(S))
    BY <2>1, LeafForFacts
  <2>4. C[i] # HCELL_NIL /\ h.Cell[C[i]].List = S[i] /\ S[i] \in KeyLists(t) /\ S \in Pages(t)
    <3>1. h.Cell[C[i]].List = S[i] /\ S \in Pages(t)
      BY <2>1, <2>3 DEF Chained, Holds
    <3>2. QED
      BY <2>1, <2>3, <3>1, ChainFacts
  <2>5. FindInStorage(h, t, Name) =
          IF leaf = HCELL_NIL THEN HCELL_NIL
          ELSE IF h.Cell[leaf].Signature = CM_KEY_HASH_LEAF
               THEN CmpFindSubKeyByHash(h.Cell[leaf].List, Name)
               ELSE CmpFindSubKeyInLeaf(h.Cell[leaf].List, Name).SubKey
    BY <1>2 DEF FindInStorage
  <2> HIDE DEF leaf, i
  <2>6. CASE leaf = HCELL_NIL
    BY <2>2, <2>3, <2>4, <2>5, <2>6
  <2>7. CASE leaf = C[i]
    <3>1. FindInStorage(h, t, Name) = IF <<t, Name>> \in Range(S[i]) THEN <<t, Name>> ELSE HCELL_NIL
      BY <2>4, <2>5, <2>7, LeafFinds, HashFinds
    <3>2. QED
      BY <2>2, <2>3, <2>4, <3>1, SpotDecides
  <2>8. QED
    BY <2>3, <2>6, <2>7
<1>3. QED
  BY <1>1, <1>2

-----------------------------------------------------------------------------
(* The room in a cell *)

LEMMA CellSizeFacts ==
  ASSUME NEW n \in Nat
  PROVE  CellSize(n) \in Nat /\ CellSize(n) >= n
BY DEF CellSize

LEMMA EntrySizeFacts ==
  ASSUME NEW Signature
  PROVE  EntrySize(Signature) = 4 \/ EntrySize(Signature) = 8
BY DEF EntrySize

\* A cell that grows by the size of an entry, or more, has room for one more.
LEMMA RoomGrows ==
  ASSUME NEW index \in Indexes, NEW Size \in Nat, Size >= index.Size + EntrySize(index.Signature)
  PROVE  Capacity([Signature |-> index.Signature, List |-> index.List, Size |-> CellSize(Size)])
           >= Capacity(index) + 1
<1> DEFINE e == EntrySize(index.Signature)
           s == CellSize(Size)
           i == index.Size
<1>1. /\ i \in Nat /\ s \in Nat /\ s \in Int
      /\ Capacity(index) = (i - 4) \div e
      /\ Capacity([Signature |-> index.Signature, List |-> index.List, Size |-> s]) = (s - 4) \div e
  BY CellSizeFacts, EntrySizeFacts DEF Indexes, Capacity, ListOffset
<1>2. i \in Nat /\ s \in Nat /\ (e = 4 \/ e = 8)
  BY CellSizeFacts, EntrySizeFacts DEF Indexes
<1>3. s >= i + e
  BY <1>2, CellSizeFacts
<1> HIDE DEF e, s, i
<1>4. e = 4 => (s - 4) \div 4 >= (i - 4) \div 4 + 1
  BY <1>2, <1>3
<1>5. e = 8 => (s - 4) \div 8 >= (i - 4) \div 8 + 1
  BY <1>2, <1>3
<1>6. QED
  BY <1>1, <1>2, <1>4, <1>5 DEF s

LEMMA CapacityType ==
  ASSUME NEW index \in Indexes
  PROVE  Capacity(index) \in Int /\ Len(index.List) \in Nat
<1>1. index.Size \in Nat /\ index.List \in Seq(Items)
  BY DEF Indexes
<1>2. (index.Size - 4) \div 4 \in Int /\ (index.Size - 4) \div 8 \in Int
  BY <1>1
<1>3. QED
  BY <1>1, <1>2, EntrySizeFacts, LenProperties DEF Capacity, ListOffset

LEMMA GrownFacts ==
  ASSUME NEW index \in Indexes
  PROVE  Grown(index) \in Nat /\ Grown(index) >= index.Size + EntrySize(index.Signature)
<1> DEFINE a == index.Size + index.Size \div 2
           b == index.Size + EntrySize(index.Signature)
<1>1. a \in Nat /\ b \in Nat
  BY EntrySizeFacts DEF Indexes
<1>2. Grown(index) = Max({a, b})
  BY DEF Grown
<1> HIDE DEF a, b
<1>3. \E x \in {a, b} : \A y \in {a, b} : x >= y
  BY <1>1
<1>4. Max({a, b}) \in {a, b} /\ \A y \in {a, b} : Max({a, b}) >= y
  BY <1>3 DEF Max
<1>5. QED
  BY <1>1, <1>2, <1>4 DEF b

LEMMA KeysAreItems ==
  ASSUME NEW t \in Storages, NEW L \in KeyLists(t)
  PROVE  L \in Seq(Items) /\ Len(L) \in Nat
<1>1. L \in Seq({t} \X Names)
  BY DEF KeyLists
<1>2. {t} \X Names \subseteq Items
  BY NamesAssumption DEF Items
<1>3. QED
  BY <1>1, <1>2, LenProperties

LEMMA ReallocateFacts ==
  ASSUME NEW h \in Hives, NEW t \in Storages, NEW c \in DOMAIN h.Cell, HvGetCellType(c) = t,
         NEW new \in CellIds, HvGetCellType(new) = t, new \notin DOMAIN h.Cell,
         NEW Size \in Nat, Size >= h.Cell[c].Size + EntrySize(h.Cell[c].Signature)
  PROVE  /\ Step(h, HvReallocateCell(h, c, new, Size), t)
         /\ SameNode(h, HvReallocateCell(h, c, new, Size))
         /\ DOMAIN HvReallocateCell(h, c, new, Size).Cell = (DOMAIN h.Cell \ {c}) \cup {new}
         /\ HvReallocateCell(h, c, new, Size).Cell[new].Signature = h.Cell[c].Signature
         /\ HvReallocateCell(h, c, new, Size).Cell[new].List = h.Cell[c].List
         /\ Capacity(HvReallocateCell(h, c, new, Size).Cell[new]) >= Len(h.Cell[c].List) + 1
         /\ \A d \in DOMAIN h.Cell \ {c} : HvReallocateCell(h, c, new, Size).Cell[d] = h.Cell[d]
         /\ h.Dirty \ {c} \subseteq HvReallocateCell(h, c, new, Size).Dirty
         /\ t = "Stable" => new \in HvReallocateCell(h, c, new, Size).Dirty
<1> DEFINE old == h.Cell[c]
           index == [Signature |-> old.Signature, List |-> old.List, Size |-> CellSize(Size)]
           k == HvAllocateCell(h, new, Size, old.Signature, old.List)
           g == HvFreeCell(k, c)
<1>1. g = HvReallocateCell(h, c, new, Size)
  BY DEF HvReallocateCell
<1>2. old \in Indexes /\ Fits(old)
  BY HiveFacts
<1>3. index \in Indexes
  BY <1>2, CellSizeFacts DEF Indexes
<1>4. Capacity(index) >= Capacity(old) + 1
  BY <1>2, RoomGrows
<1>5. Capacity(index) >= Len(old.List) + 1 /\ Fits(index)
  <2>1. /\ Capacity(old) \in Int /\ Len(old.List) \in Nat /\ Capacity(index) \in Int
        /\ Len(old.List) <= Capacity(old) /\ index.List = old.List
    BY <1>2, <1>3, CapacityType DEF Fits
  <2>2. QED
    BY <1>4, <2>1 DEF Fits
<1>6. /\ Step(h, k, t) /\ SameNode(h, k) /\ DOMAIN k.Cell = DOMAIN h.Cell \cup {new}
      /\ k.Cell[new] = index
      /\ \A d \in DOMAIN h.Cell : k.Cell[d] = h.Cell[d]
      /\ h.Dirty \subseteq k.Dirty
      /\ t = "Stable" => new \in k.Dirty
  BY <1>3, <1>5, AllocateFacts
<1> HIDE DEF k
<1>7. k \in Hives /\ c \in DOMAIN k.Cell /\ c # new
  BY <1>6 DEF Step
<1>8. /\ Step(k, g, t) /\ SameNode(k, g) /\ DOMAIN g.Cell = DOMAIN k.Cell \ {c}
      /\ \A d \in DOMAIN k.Cell \ {c} : g.Cell[d] = k.Cell[d]
      /\ g.Dirty = k.Dirty \ {c}
  BY <1>7, FreeFacts
<1> HIDE DEF g
<1>9. Step(h, g, t)
  BY <1>6, <1>8, StepTransitive
<1>10. SameNode(h, g)
  BY <1>6, <1>8 DEF SameNode
<1>11. DOMAIN g.Cell = (DOMAIN h.Cell \ {c}) \cup {new}
  BY <1>6, <1>7, <1>8
<1>12. g.Cell[new] = index /\ \A d \in DOMAIN h.Cell \ {c} : g.Cell[d] = h.Cell[d]
  BY <1>6, <1>7, <1>8
<1>13. h.Dirty \ {c} \subseteq g.Dirty
  BY <1>6, <1>8
<1>14. t = "Stable" => new \in g.Dirty
  BY <1>6, <1>7, <1>8
<1>15. index.Signature = old.Signature /\ index.List = old.List
  OBVIOUS
<1> HIDE DEF index
<1>16. QED
  BY <1>1, <1>5, <1>9, <1>10, <1>11, <1>12, <1>13, <1>14, <1>15

-----------------------------------------------------------------------------
(* Adding to a leaf *)

\* The cell c of the storage type t, in the form of new, holds the list M.
Moved(h, g, t, c, new, M) ==
  /\ Step(h, g, t) /\ SameNode(h, g)
  /\ new \in Ids(t) /\ (new = c \/ new \notin DOMAIN h.Cell)
  /\ DOMAIN g.Cell = (DOMAIN h.Cell \ {c}) \cup {new}
  /\ g.Cell[new].Signature = h.Cell[c].Signature
  /\ g.Cell[new].List = M
  /\ \A d \in DOMAIN h.Cell \ {c} : g.Cell[d] = h.Cell[d]
  /\ h.Dirty \ {c} \subseteq g.Dirty
  /\ t = "Stable" => new \in g.Dirty

\* A list that is written with one more entry, in a cell that has moved when it was full.
LEMMA MovedFacts ==
  ASSUME NEW h \in Hives, NEW t \in Storages, NEW c \in DOMAIN h.Cell, HvGetCellType(c) = t,
         t = "Stable" => c \in h.Dirty,
         NEW M \in Seq(Items), Len(M) = Len(h.Cell[c].List) + 1,
         NEW Size \in Nat, Size >= h.Cell[c].Size + EntrySize(h.Cell[c].Signature)
  PROVE  /\ Full(h.Cell[c]) =>
              Moved(h, PutList(HvReallocateCell(h, c, NewCell(h, t), Size), NewCell(h, t), M),
                    t, c, NewCell(h, t), M)
         /\ ~Full(h.Cell[c]) => Moved(h, PutList(h, c, M), t, c, c, M)
<1> DEFINE old == h.Cell[c]
           new == NewCell(h, t)
           k == HvReallocateCell(h, c, new, Size)
           g == PutList(k, new, M)
<1>1. old \in Indexes /\ Capacity(old) \in Int /\ Len(old.List) \in Nat
  BY HiveFacts, CapacityType
<1>2. c \in Ids(t)
  BY HiveFacts DEF CellIds, Ids, HvGetCellType
<1>3. ASSUME Full(old) PROVE Moved(h, g, t, c, new, M)
  <2>1. new \in CellIds /\ new \notin DOMAIN h.Cell /\ HvGetCellType(new) = t
    BY NewCellFacts
  <2> HIDE DEF new
  <2>2. /\ Step(h, k, t) /\ SameNode(h, k)
        /\ DOMAIN k.Cell = (DOMAIN h.Cell \ {c}) \cup {new}
        /\ k.Cell[new].Signature = old.Signature /\ k.Cell[new].List = old.List
        /\ Capacity(k.Cell[new]) >= Len(old.List) + 1
        /\ \A d \in DOMAIN h.Cell \ {c} : k.Cell[d] = h.Cell[d]
        /\ h.Dirty \ {c} \subseteq k.Dirty
        /\ t = "Stable" => new \in k.Dirty
    BY <2>1, ReallocateFacts
  <2> HIDE DEF k
  <2>3. k \in Hives /\ new \in DOMAIN k.Cell /\ Len(M) <= Capacity(k.Cell[new])
    <3>1. k \in Hives /\ new \in DOMAIN k.Cell
      BY <2>2 DEF Step
    <3>2. k.Cell[new] \in Indexes
      BY <3>1, HiveFacts
    <3>3. QED
      BY <1>1, <2>2, <3>1, <3>2, CapacityType
  <2>4. /\ Step(k, g, t) /\ SameNode(k, g) /\ DOMAIN g.Cell = DOMAIN k.Cell
        /\ g.Cell[new].Signature = k.Cell[new].Signature /\ g.Cell[new].List = M
        /\ \A d \in DOMAIN k.Cell \ {new} : g.Cell[d] = k.Cell[d]
        /\ g.Dirty = k.Dirty
    BY <2>1, <2>2, <2>3, PutListFacts
  <2> HIDE DEF g
  <2>5. Step(h, g, t) /\ SameNode(h, g)
    BY <2>2, <2>4, StepTransitive DEF SameNode
  <2>6. new \in Ids(t)
    BY <2>1 DEF CellIds, Ids, HvGetCellType
  <2>7. QED
    BY <2>1, <2>2, <2>4, <2>5, <2>6 DEF Moved
<1>4. ASSUME ~Full(old) PROVE Moved(h, PutList(h, c, M), t, c, c, M)
  <2> DEFINE f == PutList(h, c, M)
  <2>1. Len(M) <= Capacity(old)
    BY <1>1, <1>4 DEF Full
  <2>2. /\ Step(h, f, t) /\ SameNode(h, f) /\ DOMAIN f.Cell = DOMAIN h.Cell
        /\ f.Cell[c].Signature = old.Signature /\ f.Cell[c].List = M
        /\ \A d \in DOMAIN h.Cell \ {c} : f.Cell[d] = h.Cell[d]
        /\ f.Dirty = h.Dirty
    BY <2>1, PutListFacts
  <2> HIDE DEF f
  <2>3. Moved(h, f, t, c, c, M)
    BY <1>2, <2>2 DEF Moved
  <2>4. QED
    BY <2>3 DEF f
<1>5. QED
  BY <1>3, <1>4

LEMMA MovedAfterMark ==
  ASSUME NEW h \in Hives, NEW t \in Storages, NEW c \in DOMAIN h.Cell, HvGetCellType(c) = t,
         NEW g, NEW new, NEW M, Moved(HvMarkCellDirty(h, c), g, t, c, new, M)
  PROVE  Moved(h, g, t, c, new, M)
<1> DEFINE k == HvMarkCellDirty(h, c)
<1>1. /\ Step(h, k, t) /\ SameNode(h, k) /\ k.Cell = h.Cell /\ h.Dirty \subseteq k.Dirty
  BY MarkFacts
<1> HIDE DEF k
<1>2. Moved(k, g, t, c, new, M)
  BY DEF k
<1>3. Step(h, g, t)
  BY <1>1, <1>2, StepTransitive DEF Moved
<1>4. QED
  BY <1>1, <1>2, <1>3 DEF Moved, SameNode

LEMMA AddToLeafFacts ==
  ASSUME NEW h \in Hives, NEW t \in Storages, NEW L \in KeyLists(t), NEW c, Holds(h, c, L),
         HvGetCellType(c) = t, NEW Name \in Names, <<t, Name>> \notin Range(L)
  PROVE  Moved(h, CmpAddToLeaf(h, c, <<t, Name>>).hive, t, c, CmpAddToLeaf(h, c, <<t, Name>>).Cell,
               InsertAt(L, InsertionPoint(L, Name) + 1, <<t, Name>>))
<1> DEFINE key == <<t, Name>>
           index == h.Cell[c]
           M == InsertAt(L, InsertionPoint(L, Name) + 1, key)
           k == HvMarkCellDirty(h, c)
           new == NewCell(h, t)
           r == CmpAddToLeaf(h, c, key)
<1>1. c \in DOMAIN h.Cell /\ index.List = L /\ index \in Indexes
  BY HiveFacts DEF Holds
<1>2. NameOf(key) = Name
  BY DEF NameOf
<1>3. r = [Cell |-> IF Full(index) THEN new ELSE c,
           hive |-> PutList(IF Full(index) THEN HvReallocateCell(k, c, new, Grown(index)) ELSE k,
                            IF Full(index) THEN new ELSE c, M)]
  BY <1>1, <1>2 DEF CmpAddToLeaf
<1>4. /\ k \in Hives /\ k.Cell = h.Cell
      /\ t = "Stable" => c \in k.Dirty
  BY <1>1, MarkFacts DEF Step
<1>5. NewCell(k, t) = new
  BY <1>4 DEF NewCell
<1>6. M \in Seq(Items) /\ Len(M) = Len(L) + 1
  BY ListAdded, KeysAreItems
<1>7. Grown(index) \in Nat /\ Grown(index) >= index.Size + EntrySize(index.Signature)
  BY <1>1, GrownFacts
<1> HIDE DEF k, M, new, r, key
<1>8. CASE Full(index)
  <2>1. Moved(k, PutList(HvReallocateCell(k, c, new, Grown(index)), new, M), t, c, new, M)
    BY <1>1, <1>4, <1>5, <1>6, <1>7, <1>8, MovedFacts
  <2>2. Moved(h, PutList(HvReallocateCell(k, c, new, Grown(index)), new, M), t, c, new, M)
    BY <1>1, <2>1, MovedAfterMark DEF k
  <2>3. QED
    BY <1>3, <1>8, <2>2 DEF r, key, M
<1>9. CASE ~Full(index)
  <2>1. Moved(k, PutList(k, c, M), t, c, c, M)
    BY <1>1, <1>4, <1>6, <1>7, <1>9, MovedFacts
  <2>2. Moved(h, PutList(k, c, M), t, c, c, M)
    BY <1>1, <2>1, MovedAfterMark DEF k
  <2>3. QED
    BY <1>3, <1>9, <2>2 DEF r, key, M
<1>10. QED
  BY <1>8, <1>9

-----------------------------------------------------------------------------
(* Entering a subkey in the leaf that was chosen *)

LEMMA ReplacedChain ==
  ASSUME NEW X, NEW C \in Seq(X), IsInjective(C), NEW i \in DOMAIN C, NEW new \in X,
         new = C[i] \/ new \notin Range(C)
  PROVE  /\ Put(C, i, new) \in Seq(X) /\ Len(Put(C, i, new)) = Len(C)
         /\ IsInjective(Put(C, i, new)) /\ DOMAIN Put(C, i, new) = DOMAIN C
         /\ \A p \in DOMAIN C : Put(C, i, new)[p] = IF p = i THEN new ELSE C[p]
         /\ Range(Put(C, i, new)) = (Range(C) \ {C[i]}) \cup {new}
<1> DEFINE D == Put(C, i, new)
<1>1. DOMAIN C = 1 .. Len(C)
  BY LenProperties
<1>2. D \in Seq(X) /\ Len(D) = Len(C)
  BY <1>1, ExceptSeq DEF Put
<1>3. DOMAIN D = DOMAIN C /\ \A p \in DOMAIN C : D[p] = IF p = i THEN new ELSE C[p]
  BY DEF Put
<1> HIDE DEF D
<1>4. \A p, q \in DOMAIN C : C[p] = C[q] => p = q
  BY DEF IsInjective
<1>5. \A p \in DOMAIN C : p # i => C[p] # new /\ C[p] # C[i]
  BY <1>4 DEF Range
<1>6. IsInjective(D)
  <2> SUFFICES ASSUME NEW p \in DOMAIN C, NEW q \in DOMAIN C, D[p] = D[q] PROVE p = q
    BY <1>3 DEF IsInjective
  <2>1. QED
    BY <1>3, <1>4, <1>5
<1>7. Range(D) = (Range(C) \ {C[i]}) \cup {new}
  <2>1. ASSUME NEW x \in Range(D) PROVE x \in (Range(C) \ {C[i]}) \cup {new}
    <3>1. PICK p \in DOMAIN D : x = D[p]
      BY DEF Range
    <3>2. QED
      BY <1>3, <1>5, <3>1 DEF Range
  <2>2. ASSUME NEW x \in Range(C) \ {C[i]} PROVE x \in Range(D)
    <3>1. PICK p \in DOMAIN C : x = C[p]
      BY DEF Range
    <3>2. p # i /\ D[p] = x
      BY <1>3, <2>2, <3>1
    <3>3. QED
      BY <1>3, <3>1, <3>2 DEF Range
  <2>3. new \in Range(D)
    BY <1>3 DEF Range
  <2>4. QED
    BY <2>1, <2>2, <2>3
<1>8. QED
  BY <1>2, <1>3, <1>6, <1>7 DEF D

\* The entry has been made on page i: the pages are those of g, which lists a key more.
Entered(h, g, t, S, i, Name) ==
  /\ Step(h, g, t) /\ g.SubKeyCounts[t] = h.SubKeyCounts[t] + 1
  /\ \E C2, S2 : /\ Chained(g, t, C2, S2) /\ Entries(S2) = Entries(S) \cup {<<t, Name>>}
                 /\ (\A p \in DOMAIN S : p # i => S[p] # <<>>) => NoneEmpty(S2)

\* The node or the root follows the leaf.
Followed(h, t, i, new) ==
  PointTo(WithCount(h, t, h.SubKeyCounts[t] + 1), t, i, new)

\* The cell of the leaf and its list, in the two hives of a move.
LEMMA MovedChain ==
  ASSUME NEW h \in Hives, NEW t \in Storages, NEW C, NEW S, Chained(h, t, C, S),
         NEW i \in DOMAIN S, NEW g, NEW new, NEW M, Moved(h, g, t, C[i], new, M),
         Len(M) <= Limit(h.Cell[C[i]].Signature)
  PROVE  /\ Put(C, i, new) \in Seq(Ids(t)) /\ Len(Put(C, i, new)) = Len(S) /\ IsInjective(Put(C, i, new))
         /\ DOMAIN Put(C, i, new) = DOMAIN S /\ Put(C, i, new)[i] = new
         /\ CellsOf(g, t) = (CellsOf(h, t) \ {C[i]}) \cup {new}
         /\ Range(Put(C, i, new)) = (Range(C) \ {C[i]}) \cup {new}
         /\ \A p \in DOMAIN S : /\ Put(C, i, new)[p] \in CellsOf(g, t)
                                /\ Holds(g, Put(C, i, new)[p], Put(S, i, M)[p])
                                /\ g.Cell[Put(C, i, new)[p]].Signature = h.Cell[C[p]].Signature
<1> DEFINE C2 == Put(C, i, new)
           X == Ids(t)
<1>1. /\ Len(S) \in Nat \ {0} /\ DOMAIN S = 1 .. Len(S) /\ DOMAIN C = DOMAIN S
      /\ \A p \in DOMAIN S : C[p] \in Ids(t) /\ C[p] \in CellsOf(h, t)
  BY ChainFacts
<1>2. /\ C \in Seq(Ids(t)) /\ Len(C) = Len(S) /\ IsInjective(C)
      /\ \A p \in DOMAIN S : Holds(h, C[p], S[p])
  BY DEF Chained
<1>3. /\ new \in Ids(t) /\ (new = C[i] \/ new \notin DOMAIN h.Cell)
      /\ DOMAIN g.Cell = (DOMAIN h.Cell \ {C[i]}) \cup {new}
      /\ g.Cell[new].Signature = h.Cell[C[i]].Signature
      /\ g.Cell[new].List = M
      /\ \A d \in DOMAIN h.Cell \ {C[i]} : g.Cell[d] = h.Cell[d]
  BY DEF Moved
<1>4. new = C[i] \/ new \notin Range(C)
  BY <1>1, <1>3 DEF Range, CellsOf
<1>5. /\ C2 \in Seq(X) /\ Len(C2) = Len(C) /\ IsInjective(C2)
      /\ DOMAIN C2 = DOMAIN C /\ \A p \in DOMAIN C : C2[p] = IF p = i THEN new ELSE C[p]
      /\ Range(C2) = (Range(C) \ {C[i]}) \cup {new}
  <2>1. C \in Seq(X) /\ i \in DOMAIN C /\ new \in X
    BY <1>1, <1>2, <1>3
  <2> HIDE DEF X
  <2>2. QED
    BY <1>2, <1>4, <2>1, ReplacedChain
<1> HIDE DEF C2
<1>6. CellsOf(g, t) = (CellsOf(h, t) \ {C[i]}) \cup {new}
  <2>1. HvGetCellType(new) = t
    BY <1>3 DEF Ids, HvGetCellType
  <2>2. QED
    BY <1>3, <2>1 DEF CellsOf
<1>7. ASSUME NEW p \in DOMAIN S
      PROVE  /\ C2[p] \in CellsOf(g, t) /\ Holds(g, C2[p], Put(S, i, M)[p])
             /\ g.Cell[C2[p]].Signature = h.Cell[C[p]].Signature
  <2>1. CASE p = i
    <3>1. C2[p] = new /\ Put(S, i, M)[p] = M
      BY <1>1, <1>5, <2>1 DEF Put
    <3>2. QED
      BY <1>2, <1>3, <1>6, <2>1, <3>1 DEF Holds
  <2>2. CASE p # i
    <3>1. C2[p] = C[p] /\ Put(S, i, M)[p] = S[p] /\ C[p] # C[i]
      BY <1>1, <1>2, <1>5, <2>2 DEF Put, IsInjective
    <3>2. C[p] \in DOMAIN h.Cell \ {C[i]} /\ C[p] \in DOMAIN g.Cell /\ g.Cell[C[p]] = h.Cell[C[p]]
      BY <1>1, <1>3, <3>1 DEF CellsOf
    <3>3. QED
      BY <1>1, <1>2, <1>6, <3>1, <3>2 DEF Holds
  <2>3. QED
    BY <2>1, <2>2
<1>8. QED
  BY <1>1, <1>2, <1>5, <1>6, <1>7 DEF C2

LEMMA FollowedRoot ==
  ASSUME NEW h \in Hives, NEW t \in Storages, NEW C, NEW S, Chained(h, t, C, S),
         Rooted(h, h.SubKeyLists[t]),
         t = "Stable" => h.SubKeyLists[t] \in h.Dirty,
         NEW i \in DOMAIN S, NEW k, NEW new, NEW M, Moved(h, k, t, C[i], new, M),
         Len(M) <= Limit(h.Cell[C[i]].Signature), Put(S, i, M) \in Pages(t)
  PROVE  /\ Step(h, Followed(k, t, i - 1, new), t)
         /\ Followed(k, t, i - 1, new).SubKeyCounts[t] = h.SubKeyCounts[t] + 1
         /\ Chained(Followed(k, t, i - 1, new), t, Put(C, i, new), Put(S, i, M))
<1> DEFINE root == h.SubKeyLists[t]
           k1 == WithCount(k, t, k.SubKeyCounts[t] + 1)
           C2 == Put(C, i, new)
           T == Put(S, i, M)
           g == PutList(k1, root, C2)
<1>1. /\ Len(S) \in Nat \ {0} /\ DOMAIN S = 1 .. Len(S) /\ DOMAIN C = DOMAIN S
      /\ \A p \in DOMAIN S : C[p] \in CellsOf(h, t) /\ ~Rooted(h, C[p])
  BY ChainFacts
<1>2. /\ S \in Pages(t) /\ root \in CellsOf(h, t) /\ h.Cell[root].List = C
      /\ CellsOf(h, t) = Range(C) \cup {root} /\ Len(C) = Len(S)
      /\ \A p \in DOMAIN S : h.Cell[C[p]].Signature # CM_KEY_FAST_LEAF
  BY DEF Chained
<1>3. root # C[i] /\ \A p \in DOMAIN S : root # C[p]
  BY <1>1
<1>4. /\ Step(h, k, t) /\ SameNode(h, k)
      /\ DOMAIN k.Cell = (DOMAIN h.Cell \ {C[i]}) \cup {new}
      /\ \A d \in DOMAIN h.Cell \ {C[i]} : k.Cell[d] = h.Cell[d]
      /\ h.Dirty \ {C[i]} \subseteq k.Dirty
      /\ new = C[i] \/ new \notin DOMAIN h.Cell
      /\ k \in Hives /\ h.SubKeyCounts[t] \in Nat /\ h.SubKeyLists[t] \in Places
  BY HiveFacts DEF Moved, Step
<1>5. root \in DOMAIN k.Cell /\ k.Cell[root] = h.Cell[root] /\ root # new
      /\ k.SubKeyLists[t] = root /\ k.SubKeyCounts[t] = h.SubKeyCounts[t]
  BY <1>2, <1>3, <1>4 DEF CellsOf, SameNode
<1>6. /\ Step(k, k1, t) /\ k1.Cell = k.Cell /\ k1.Dirty = k.Dirty
      /\ k1.SubKeyLists = k.SubKeyLists /\ k1.SubKeyCounts[t] = h.SubKeyCounts[t] + 1
      /\ k1 \in Hives
  <2>1. k.SubKeyCounts[t] + 1 \in Nat /\ root \in Places
    BY <1>4, <1>5
  <2>2. QED
    <3> DEFINE n == k.SubKeyCounts[t] + 1
    <3>1. n \in Nat /\ n = h.SubKeyCounts[t] + 1
      BY <1>5, <2>1
    <3> HIDE DEF n
    <3>2. /\ Step(k, WithCount(k, t, n), t) /\ WithCount(k, t, n).Cell = k.Cell
          /\ WithCount(k, t, n).Dirty = k.Dirty
          /\ WithCount(k, t, n).SubKeyLists = k.SubKeyLists
          /\ WithCount(k, t, n).SubKeyCounts[t] = n
      BY <1>4, <3>1, CountFacts
    <3>3. QED
      BY <3>1, <3>2, StepHives DEF n
<1> HIDE DEF k1, root
<1>7. /\ C2 \in Seq(Ids(t)) /\ Len(C2) = Len(S) /\ IsInjective(C2)
      /\ DOMAIN C2 = DOMAIN S /\ C2[i] = new
      /\ CellsOf(k, t) = (CellsOf(h, t) \ {C[i]}) \cup {new}
      /\ Range(C2) = (Range(C) \ {C[i]}) \cup {new}
      /\ \A p \in DOMAIN S : /\ C2[p] \in CellsOf(k, t)
                             /\ Holds(k, C2[p], T[p])
                             /\ k.Cell[C2[p]].Signature = h.Cell[C[p]].Signature
  BY MovedChain
<1>8. g = Followed(k, t, i - 1, new)
  <2>1. i - 1 # INVALID_INDEX /\ (i - 1) + 1 = i
    BY <1>1 DEF INVALID_INDEX
  <2>2. k1.SubKeyLists[t] = root /\ k1.Cell[root].List = C
    BY <1>2, <1>5, <1>6
  <2>3. QED
    BY <2>1, <2>2 DEF Followed, PointTo, k1, Put
<1>9. DOMAIN T = DOMAIN S /\ T # <<>>
  BY <1>1, <1>2 DEF Put
<1> HIDE DEF C2, T
<1>10. C2 \in Seq(Items) /\ Len(C2) <= Capacity(k1.Cell[root])
  <2>1. Ids(t) \subseteq Items
    BY DEF Items, Ids, Numbers
  <2>2. k1.Cell[root] = h.Cell[root] /\ Fits(h.Cell[root])
    BY <1>2, <1>5, <1>6, HiveFacts DEF CellsOf
  <2>3. QED
    BY <1>2, <1>7, <2>1, <2>2 DEF Fits
<1>11. /\ Step(k1, g, t) /\ SameNode(k1, g) /\ DOMAIN g.Cell = DOMAIN k1.Cell
       /\ g.Cell[root].Signature = k1.Cell[root].Signature /\ g.Cell[root].List = C2
       /\ \A d \in DOMAIN k1.Cell \ {root} : g.Cell[d] = k1.Cell[d]
  <2>1. root \in DOMAIN k1.Cell /\ HvGetCellType(root) = t
    BY <1>2, <1>5, <1>6 DEF CellsOf
  <2>2. t = "Stable" => root \in k1.Dirty
    BY <1>3, <1>4, <1>6 DEF root
  <2>3. QED
    BY <1>6, <1>10, <2>1, <2>2, PutListFacts
<1> HIDE DEF g
<1>12. Step(h, g, t)
  BY <1>4, <1>6, <1>11, StepTransitive
<1>13. g.SubKeyCounts[t] = h.SubKeyCounts[t] + 1 /\ g.SubKeyLists[t] = root
  BY <1>5, <1>6, <1>11 DEF SameNode
<1>14. CellsOf(g, t) = Range(C2) \cup {root}
  <2>1. CellsOf(g, t) = CellsOf(k, t)
    BY <1>6, <1>11 DEF CellsOf
  <2>2. root \notin Range(C)
    BY <1>1, <1>3 DEF Range
  <2>3. QED
    BY <1>2, <1>3, <1>7, <2>1, <2>2
<1>15. ASSUME NEW p \in DOMAIN S
       PROVE  Holds(g, C2[p], T[p]) /\ g.Cell[C2[p]].Signature # CM_KEY_FAST_LEAF
  <2>1. C2[p] # root
    <3>1. C2[p] \in Range(C2)
      BY <1>7 DEF Range
    <3>2. root \notin Range(C)
      BY <1>1, <1>3 DEF Range
    <3>3. QED
      BY <1>5, <1>7, <3>1, <3>2
  <2>2. C2[p] \in DOMAIN k1.Cell \ {root}
    BY <1>6, <1>7, <2>1 DEF CellsOf
  <2>3. g.Cell[C2[p]] = k.Cell[C2[p]]
    BY <1>6, <1>11, <2>2
  <2>4. QED
    BY <1>2, <1>7, <1>11, <2>2, <2>3 DEF Holds
<1>16. Rooted(g, root) /\ g.Cell[root].List = C2
  BY <1>5, <1>6, <1>11 DEF Rooted, root
<1>17. Len(T) = Len(S)
  <2>1. T \in Pages(t)
    BY DEF T
  <2>2. QED
    BY <1>1, <1>9, <2>1, PageFacts
<1>18. Chained(g, t, C2, T)
  <2>1. T \in Pages(t)
    BY DEF T
  <2>2. QED
    BY <1>7, <1>9, <1>13, <1>14, <1>15, <1>16, <1>17, <2>1 DEF Chained
<1>19. QED
  BY <1>8, <1>12, <1>13, <1>18 DEF C2, T

LEMMA FollowedLeaf ==
  ASSUME NEW h \in Hives, NEW t \in Storages, NEW C, NEW S, Chained(h, t, C, S),
         ~Rooted(h, h.SubKeyLists[t]),
         NEW i \in DOMAIN S, NEW k, NEW new, NEW M, Moved(h, k, t, C[i], new, M),
         Len(M) <= Limit(h.Cell[C[i]].Signature), Put(S, i, M) \in Pages(t)
  PROVE  /\ Step(h, Followed(k, t, INVALID_INDEX, new), t)
         /\ Followed(k, t, INVALID_INDEX, new).SubKeyCounts[t] = h.SubKeyCounts[t] + 1
         /\ Chained(Followed(k, t, INVALID_INDEX, new), t, Put(C, i, new), Put(S, i, M))
<1> DEFINE k1 == WithCount(k, t, k.SubKeyCounts[t] + 1)
           C2 == Put(C, i, new)
           T == Put(S, i, M)
           g == WithList(k1, t, new)
<1>1. /\ Len(S) = 1 /\ DOMAIN S = 1 .. Len(S) /\ DOMAIN C = DOMAIN S /\ i = 1
      /\ C[i] \in CellsOf(h, t) /\ ~Rooted(h, C[i])
  BY ChainFacts
<1>2. /\ S \in Pages(t) /\ S # <<>> /\ C = <<h.SubKeyLists[t]>> /\ CellsOf(h, t) = {C[i]}
  BY <1>1 DEF Chained
<1>4. /\ Step(h, k, t) /\ SameNode(h, k) /\ k \in Hives
      /\ new \in Ids(t) /\ new \in DOMAIN k.Cell
      /\ k.Cell[new].Signature = h.Cell[C[i]].Signature
      /\ h.SubKeyCounts[t] \in Nat
  BY HiveFacts DEF Moved, Step
<1>5. new \in Places /\ k.SubKeyCounts[t] = h.SubKeyCounts[t]
  BY <1>4 DEF Places, CellIds, Ids, SameNode
<1>6. /\ Step(k, k1, t) /\ k1.Cell = k.Cell
      /\ k1.SubKeyLists = k.SubKeyLists /\ k1.SubKeyCounts[t] = h.SubKeyCounts[t] + 1
      /\ k1 \in Hives
  <2>1. k.SubKeyCounts[t] + 1 \in Nat
    BY <1>4, <1>5
  <2>2. QED
    <3> DEFINE n == k.SubKeyCounts[t] + 1
    <3>1. n \in Nat /\ n = h.SubKeyCounts[t] + 1
      BY <1>5, <2>1
    <3> HIDE DEF n
    <3>2. /\ Step(k, WithCount(k, t, n), t) /\ WithCount(k, t, n).Cell = k.Cell
          /\ WithCount(k, t, n).Dirty = k.Dirty
          /\ WithCount(k, t, n).SubKeyLists = k.SubKeyLists
          /\ WithCount(k, t, n).SubKeyCounts[t] = n
      BY <1>4, <3>1, CountFacts
    <3>3. QED
      BY <3>1, <3>2, StepHives DEF n
<1>7. /\ C2 \in Seq(Ids(t)) /\ Len(C2) = Len(S) /\ IsInjective(C2)
      /\ DOMAIN C2 = DOMAIN S /\ C2[i] = new
      /\ CellsOf(k, t) = (CellsOf(h, t) \ {C[i]}) \cup {new}
      /\ Range(C2) = (Range(C) \ {C[i]}) \cup {new}
      /\ \A p \in DOMAIN S : /\ C2[p] \in CellsOf(k, t)
                             /\ Holds(k, C2[p], T[p])
                             /\ k.Cell[C2[p]].Signature = h.Cell[C[p]].Signature
  BY MovedChain
<1>8. g = Followed(k, t, INVALID_INDEX, new)
  BY DEF Followed, PointTo, WithList
<1>9. DOMAIN T = DOMAIN S /\ T # <<>>
  BY <1>1, <1>2 DEF Put
<1> HIDE DEF k1, T
<1>10. C2 = <<new>>
  BY <1>1, <1>2 DEF Put
<1> HIDE DEF C2
<1>11. /\ Step(k1, g, t) /\ g.Cell = k1.Cell /\ g.SubKeyCounts = k1.SubKeyCounts
       /\ g.SubKeyLists[t] = new
  BY <1>5, <1>6, ListFacts
<1> HIDE DEF g
<1>12. Step(h, g, t)
  BY <1>4, <1>6, <1>11, StepTransitive
<1>13. CellsOf(g, t) = {new}
  <2>1. CellsOf(g, t) = CellsOf(k, t)
    BY <1>6, <1>11 DEF CellsOf
  <2>2. QED
    BY <1>2, <1>7, <2>1
<1>14. \A p \in DOMAIN S : Holds(g, C2[p], T[p])
  BY <1>6, <1>7, <1>11 DEF Holds
<1>15. ~Rooted(g, new)
  BY <1>1, <1>4, <1>6, <1>11 DEF Rooted
<1>17. T \in Pages(t) /\ Len(T) = Len(S)
  <2>1. T \in Pages(t)
    BY DEF T
  <2>2. QED
    BY <1>1, <1>9, <2>1, PageFacts
<1>18. Chained(g, t, C2, T)
  BY <1>7, <1>9, <1>10, <1>11, <1>13, <1>14, <1>15, <1>17 DEF Chained
<1>19. QED
  BY <1>6, <1>8, <1>11, <1>12, <1>18 DEF C2, T

LEMMA EnterFacts ==
  ASSUME NEW h \in Hives, NEW t \in Storages, NEW C, NEW S, Chained(h, t, C, S),
         NEW Name \in Names, <<t, Name>> \notin Entries(S), NEW i, Spot(S, i, Name),
         Len(S[i]) < Limit(h.Cell[C[i]].Signature),
         Rooted(h, h.SubKeyLists[t]) /\ t = "Stable" => h.SubKeyLists[t] \in h.Dirty,
         NEW choice, choice.hive = h,
         choice.Index = IF Rooted(h, h.SubKeyLists[t]) THEN i - 1 ELSE INVALID_INDEX
  PROVE  Entered(h, EnterSubKey(choice, t, <<t, Name>>), t, S, i, Name)
<1> DEFINE key == <<t, Name>>
           M == InsertAt(S[i], InsertionPoint(S[i], Name) + 1, key)
           T == Put(S, i, M)
           r == CmpAddToLeaf(h, C[i], key)
           new == r.Cell
           k == r.hive
           g == Followed(k, t, choice.Index, new)
<1>1. /\ i \in DOMAIN S /\ Len(S) \in Nat /\ DOMAIN S = 1 .. Len(S)
      /\ S[i] \in KeyLists(t) /\ C[i] \in CellsOf(h, t)
      /\ ~Rooted(h, h.SubKeyLists[t]) => Len(S) = 1
  <2>1. i \in DOMAIN S
    BY DEF Spot
  <2>2. QED
    BY <2>1, ChainFacts
<1>2. S \in Pages(t) /\ Holds(h, C[i], S[i]) /\ HvGetCellType(C[i]) = t
  BY <1>1 DEF Chained, CellsOf
<1>3. /\ T \in Pages(t) /\ Entries(T) = Entries(S) \cup {key}
      /\ M \in KeyLists(t) /\ Len(M) = Len(S[i]) + 1
  BY <1>2, PagesAdded
<1>4. key \notin Range(S[i])
  BY <1>1, OthersFacts
<1>5. Moved(h, k, t, C[i], new, M)
  BY <1>1, <1>2, <1>4, AddToLeafFacts
<1>6. Len(M) <= Limit(h.Cell[C[i]].Signature)
  <2>1. Len(S[i]) \in Nat
    BY <1>1, KeysAreItems
  <2>2. Limit(h.Cell[C[i]].Signature) \in Nat
    BY LimitsAssumption DEF Limit
  <2>3. QED
    BY <1>3, <2>1, <2>2
<1>7. EnterSubKey(choice, t, key) = g
  <2>1. choice.Index = INVALID_INDEX => h.SubKeyLists[t] = C[i]
    <3>1. Rooted(h, h.SubKeyLists[t]) => choice.Index # INVALID_INDEX
      BY <1>1 DEF INVALID_INDEX
    <3>2. ~Rooted(h, h.SubKeyLists[t]) => C = <<h.SubKeyLists[t]>> /\ i = 1
      BY <1>1 DEF Chained
    <3>3. QED
      BY <3>1, <3>2
  <2>2. choice.Index # INVALID_INDEX => h.Cell[h.SubKeyLists[t]].List[choice.Index + 1] = C[i]
    <3>1. Rooted(h, h.SubKeyLists[t]) => h.Cell[h.SubKeyLists[t]].List = C /\ choice.Index + 1 = i
      BY <1>1 DEF Chained
    <3>2. QED
      BY <3>1
  <2> HIDE DEF r
  <2>3. QED
    BY <2>1, <2>2 DEF EnterSubKey, Followed, WithCount, r
<1>8. (\A p \in DOMAIN S : p # i => S[p] # <<>>) => NoneEmpty(T)
  <2>1. M # <<>>
    <3>1. Len(S[i]) \in Nat
      BY <1>1, KeysAreItems
    <3>2. QED
      BY <1>3, <3>1
  <2>2. DOMAIN T = DOMAIN S /\ \A p \in DOMAIN S : T[p] = IF p = i THEN M ELSE S[p]
    BY DEF Put
  <2> HIDE DEF T, M
  <2>3. QED
    BY <2>1, <2>2 DEF NoneEmpty
<1> HIDE DEF M, r, key, k, new
<1>9. /\ Step(h, g, t) /\ g.SubKeyCounts[t] = h.SubKeyCounts[t] + 1
      /\ Chained(g, t, Put(C, i, new), T)
  <2>1. CASE Rooted(h, h.SubKeyLists[t])
    <3> DEFINE f == Followed(k, t, i - 1, new)
    <3>1. g = f
      BY <2>1
    <3>2. /\ Step(h, f, t) /\ f.SubKeyCounts[t] = h.SubKeyCounts[t] + 1
          /\ Chained(f, t, Put(C, i, new), T)
      <4>1. i \in DOMAIN S /\ Put(S, i, M) \in Pages(t)
        BY <1>1, <1>3
      <4>2. QED
        BY <1>5, <1>6, <2>1, <4>1, FollowedRoot
    <3>3. QED
      BY <3>1, <3>2
  <2>2. CASE ~Rooted(h, h.SubKeyLists[t])
    <3> DEFINE f == Followed(k, t, INVALID_INDEX, new)
    <3>1. g = f
      BY <2>2
    <3>2. /\ Step(h, f, t) /\ f.SubKeyCounts[t] = h.SubKeyCounts[t] + 1
          /\ Chained(f, t, Put(C, i, new), T)
      <4>1. i \in DOMAIN S /\ Put(S, i, M) \in Pages(t)
        BY <1>1, <1>3
      <4>2. QED
        BY <1>5, <1>6, <2>2, <4>1, FollowedLeaf
    <3>3. QED
      BY <3>1, <3>2
  <2>3. QED
    BY <2>1, <2>2
<1> HIDE DEF T, g
<1>10. QED
  BY <1>3, <1>7, <1>8, <1>9 DEF Entered, key

-----------------------------------------------------------------------------
(* Splitting a leaf *)

LEMMA InsertedChain ==
  ASSUME NEW X, NEW C \in Seq(X), IsInjective(C), NEW i \in DOMAIN C, NEW new \in X,
         new \notin Range(C)
  PROVE  /\ InsertAt(C, i + 1, new) \in Seq(X) /\ Len(InsertAt(C, i + 1, new)) = Len(C) + 1
         /\ IsInjective(InsertAt(C, i + 1, new))
         /\ Range(InsertAt(C, i + 1, new)) = Range(C) \cup {new}
         /\ \A j \in 1 .. Len(C) + 1 :
              InsertAt(C, i + 1, new)[j] = IF j < i + 1 THEN C[j]
                                           ELSE IF j = i + 1 THEN new ELSE C[j - 1]
<1> DEFINE m == i + 1
<1>1. C \in Seq(X) /\ new \in X /\ m \in 1 .. Len(C) + 1
  BY LenProperties
<1> HIDE DEF m
<1>2. InsertAt(C, m, new) \in Seq(X) /\ Len(InsertAt(C, m, new)) = Len(C) + 1
  BY <1>1, InsertAtFacts
<1>3. ASSUME NEW j \in 1 .. Len(C) + 1
      PROVE  InsertAt(C, m, new)[j] = IF j < m THEN C[j] ELSE IF j = m THEN new ELSE C[j - 1]
  BY <1>1, InsertAtFacts
<1>4. IsInjective(InsertAt(C, m, new))
  BY <1>1, InsertedInjective
<1>5. Range(InsertAt(C, m, new)) = Range(C) \cup {new}
  BY <1>1, InsertedRange
<1>6. QED
  BY <1>2, <1>3, <1>4, <1>5 DEF m

\* The halves of a list.
FirstPart(L) == SubSeq(L, 1, Len(L) \div 2)
LastPart(L) == SubSeq(L, Len(L) \div 2 + 1, Len(L))

LEMMA HalfFacts ==
  ASSUME NEW t \in Storages, NEW L \in KeyLists(t), Len(L) >= 2
  PROVE  /\ FirstPart(L) \in KeyLists(t) /\ LastPart(L) \in KeyLists(t)
         /\ Apart(FirstPart(L), LastPart(L))
         /\ Range(FirstPart(L)) \cup Range(LastPart(L)) = Range(L)
         /\ Len(FirstPart(L)) \in Nat \ {0} /\ Len(LastPart(L)) \in Nat \ {0}
         /\ Len(FirstPart(L)) < Len(L) /\ Len(LastPart(L)) < Len(L)
         /\ FirstPart(L) # <<>> /\ LastPart(L) # <<>>
         /\ Len(LastPart(L)) = LastHalf(Len(L))
         /\ Len(L) \div 2 + LastHalf(Len(L)) = Len(L)
<1> DEFINE n == Len(L)
           m == n \div 2
<1>1. n \in Nat
  BY KeysAreItems
<1>2. m \in 1 .. n - 1 /\ n - m \in 1 .. n - 1 /\ m \in 0 .. Len(L) /\ m + (n - m) = n
  BY <1>1
<1> HIDE DEF m
<1>3. /\ SubSeq(L, 1, m) \in KeyLists(t) /\ SubSeq(L, m + 1, Len(L)) \in KeyLists(t)
      /\ Apart(SubSeq(L, 1, m), SubSeq(L, m + 1, Len(L)))
      /\ Len(SubSeq(L, 1, m)) = m /\ Len(SubSeq(L, m + 1, Len(L))) = Len(L) - m
      /\ Range(SubSeq(L, 1, m)) \cup Range(SubSeq(L, m + 1, Len(L))) = Range(L)
  BY <1>2, ListCut
<1>4. FirstPart(L) = SubSeq(L, 1, m) /\ LastPart(L) = SubSeq(L, m + 1, Len(L)) /\ LastHalf(n) = n - m
  BY DEF FirstPart, LastPart, LastHalf, m
<1>5. Len(FirstPart(L)) = m /\ Len(LastPart(L)) = n - m
  BY <1>3, <1>4
<1>6. FirstPart(L) # <<>> /\ LastPart(L) # <<>>
  BY <1>2, <1>5
<1>7. Len(L) \div 2 + LastHalf(Len(L)) = Len(L)
  BY <1>2, <1>4 DEF m
<1>8. /\ FirstPart(L) \in KeyLists(t) /\ LastPart(L) \in KeyLists(t)
      /\ Apart(FirstPart(L), LastPart(L))
      /\ Range(FirstPart(L)) \cup Range(LastPart(L)) = Range(L)
  BY <1>3, <1>4
<1>9. /\ Len(FirstPart(L)) \in Nat \ {0} /\ Len(LastPart(L)) \in Nat \ {0}
      /\ Len(FirstPart(L)) < n /\ Len(LastPart(L)) < n /\ Len(LastPart(L)) = LastHalf(n)
  <2> HIDE DEF n
  <2>1. QED
    BY <1>1, <1>2, <1>4, <1>5
<1>10. QED
  BY <1>6, <1>7, <1>8, <1>9

\* The pages after the split of page i.
SplitPages(S, i) == InsertAt(Put(S, i, FirstPart(S[i])), i + 1, LastPart(S[i]))

LEMMA SplitPagesFacts ==
  ASSUME NEW t \in Storages, NEW S \in Pages(t), NEW i \in DOMAIN S, Len(S[i]) >= 2
  PROVE  /\ SplitPages(S, i) \in Pages(t) /\ Len(SplitPages(S, i)) = Len(S) + 1
         /\ Entries(SplitPages(S, i)) = Entries(S)
         /\ NoneEmpty(S) => NoneEmpty(SplitPages(S, i))
         /\ \A j \in 1 .. Len(S) + 1 :
              SplitPages(S, i)[j] = IF j < i THEN S[j] ELSE IF j = i THEN FirstPart(S[i])
                                    ELSE IF j = i + 1 THEN LastPart(S[i]) ELSE S[j - 1]
<1> DEFINE M == FirstPart(S[i])
           N == LastPart(S[i])
<1>1. S[i] \in KeyLists(t)
  BY PageFacts
<1>2. /\ M \in KeyLists(t) /\ N \in KeyLists(t) /\ Apart(M, N)
      /\ Range(M) \cup Range(N) = Range(S[i]) /\ M # <<>> /\ N # <<>>
  BY <1>1, HalfFacts
<1> HIDE DEF M, N
<1>3. /\ InsertAt(Put(S, i, M), i + 1, N) \in Pages(t)
      /\ Len(InsertAt(Put(S, i, M), i + 1, N)) = Len(S) + 1
      /\ Entries(InsertAt(Put(S, i, M), i + 1, N)) = Entries(S)
      /\ NoneEmpty(S) => NoneEmpty(InsertAt(Put(S, i, M), i + 1, N))
      /\ \A j \in 1 .. Len(S) + 1 :
           InsertAt(Put(S, i, M), i + 1, N)[j] =
             IF j < i THEN S[j] ELSE IF j = i THEN M ELSE IF j = i + 1 THEN N ELSE S[j - 1]
  BY <1>2, PagesSplit
<1>4. QED
  BY <1>3 DEF SplitPages, M, N

\* The form and the size of a new leaf for n entries.
SplitForm(Version) == IF Version >= 5 THEN CM_KEY_HASH_LEAF ELSE CM_KEY_INDEX_LEAF
SplitSize(Version, n) == EntrySize(SplitForm(Version)) * n + ListOffset + 1

LEMMA SplitLeafFits ==
  ASSUME NEW v, NEW n \in Nat, NEW L \in Seq(Items), Len(L) = n
  PROVE  LET index == [Signature |-> SplitForm(v), List |-> L, Size |-> CellSize(SplitSize(v, n))]
         IN  index \in Indexes /\ Fits(index)
<1> DEFINE e == EntrySize(SplitForm(v))
           s == CellSize(SplitSize(v, n))
<1>1. (e = 4 \/ e = 8) /\ SplitForm(v) \in Forms
  BY DEF EntrySize, SplitForm, Forms, CM_KEY_HASH_LEAF, CM_KEY_INDEX_LEAF, CM_KEY_FAST_LEAF
<1>2. SplitSize(v, n) = e * n + 5
  BY <1>1 DEF SplitSize, ListOffset
<1> HIDE DEF e
<1>3. SplitSize(v, n) \in Nat
  <2>1. 4 * n \in Nat /\ 8 * n \in Nat
    OBVIOUS
  <2>2. QED
    BY <1>1, <1>2, <2>1
<1>4. s \in Nat /\ s >= SplitSize(v, n)
  BY <1>3, CellSizeFacts
<1> HIDE DEF s
<1>5. n <= (s - 4) \div e
  <2>1. CASE e = 4
    <3>1. s >= 4 * n + 5
      BY <1>2, <1>4, <2>1
    <3>2. n <= (s - 4) \div 4
      BY <1>4, <3>1
    <3>3. QED
      BY <2>1, <3>2
  <2>2. CASE e = 8
    <3>1. s >= 8 * n + 5
      BY <1>2, <1>4, <2>2
    <3>2. n <= (s - 4) \div 8
      BY <1>4, <3>1
    <3>3. QED
      BY <2>2, <3>2
  <2>3. QED
    BY <1>1, <2>1, <2>2
<1>6. QED
  BY <1>1, <1>4, <1>5 DEF Indexes, Fits, Capacity, ListOffset, e, s

\* CmpSplitLeaf with what it reads from the hive given.
SplitInto(h, t, root, full, leaf, C, m, M, N, Sg, Size, new) ==
  LET h1      == HvAllocateCell(HvMarkCellDirty(h, leaf), new, Size, Sg, N)
      newRoot == IF full THEN NewCell(h1, t) ELSE root
      h2      == IF full THEN HvReallocateCell(h1, root, newRoot, h.Cell[root].Size + 4) ELSE h1
      h3      == PutList(h2, newRoot, InsertAt(C, m, new))
  IN  WithList(PutList(h3, leaf, M), t, newRoot)

LEMMA SplitIntoFacts ==
  ASSUME NEW h, NEW t, NEW r
  PROVE  LET root == h.SubKeyLists[t]
             C    == h.Cell[root].List
             leaf == C[r + 1]
             L    == h.Cell[leaf].List
             n    == LastHalf(Len(L))
             Sg   == SplitForm(h.Version)
         IN  CmpSplitLeaf(h, t, r) =
               SplitInto(h, t, root, Full(h.Cell[root]), leaf, C, r + 2, SubSeq(L, 1, Len(L) \div 2),
                         SubSeq(L, Len(L) \div 2 + 1, Len(L) \div 2 + n), Sg,
                         EntrySize(Sg) * n + ListOffset + 1, NewCell(h, t))
BY DEF CmpSplitLeaf, SplitInto, SplitForm, WithList

\* The leaf at position i of the root is split in g.
LEMMA SplitFacts ==
  ASSUME NEW h \in Hives, NEW t \in Storages, NEW C, NEW S, Chained(h, t, C, S), NoneEmpty(S),
         Rooted(h, h.SubKeyLists[t]),
         t = "Stable" => h.SubKeyLists[t] \in h.Dirty,
         NEW i \in DOMAIN S, Len(S[i]) = CmpMaxIndexPerHblock
  PROVE  /\ Step(h, CmpSplitLeaf(h, t, i - 1), t)
         /\ CmpSplitLeaf(h, t, i - 1).SubKeyCounts = h.SubKeyCounts
         /\ \E D : Chained(CmpSplitLeaf(h, t, i - 1), t, D, SplitPages(S, i))
         /\ Rooted(CmpSplitLeaf(h, t, i - 1), CmpSplitLeaf(h, t, i - 1).SubKeyLists[t])
         /\ t = "Stable" => CmpSplitLeaf(h, t, i - 1).SubKeyLists[t] \in CmpSplitLeaf(h, t, i - 1).Dirty
<1> DEFINE root == h.SubKeyLists[t]
           leaf == C[i]
           L == S[i]
           M == FirstPart(L)
           N == LastPart(L)
           Sg == SplitForm(h.Version)
           Size == SplitSize(h.Version, Len(N))
           new == NewCell(h, t)
           D == InsertAt(C, i + 1, new)
           k0 == HvMarkCellDirty(h, leaf)
           k1 == HvAllocateCell(k0, new, Size, Sg, N)
           newRoot == IF Full(h.Cell[root]) THEN NewCell(k1, t) ELSE root
           k2 == PutList(IF Full(h.Cell[root])
                         THEN HvReallocateCell(k1, root, newRoot, h.Cell[root].Size + 4) ELSE k1,
                         newRoot, D)
           k3 == PutList(k2, leaf, M)
           g == WithList(k3, t, newRoot)
           T == SplitPages(S, i)
<1>1. /\ Len(S) \in Nat \ {0} /\ DOMAIN S = 1 .. Len(S) /\ DOMAIN C = DOMAIN S
      /\ \A p \in DOMAIN S : /\ S[p] \in KeyLists(t) /\ C[p] \in Ids(t)
                             /\ C[p] \in CellsOf(h, t) /\ ~Rooted(h, C[p])
  BY ChainFacts
<1>2. /\ S \in Pages(t) /\ root \in CellsOf(h, t) /\ h.Cell[root].List = C
      /\ CellsOf(h, t) = Range(C) \cup {root}
      /\ C \in Seq(Ids(t)) /\ Len(C) = Len(S) /\ IsInjective(C)
      /\ \A p \in DOMAIN S : h.Cell[C[p]].Signature # CM_KEY_FAST_LEAF /\ Holds(h, C[p], S[p])
  BY DEF Chained
<1>3. root # leaf /\ root \notin Range(C) /\ \A p \in DOMAIN S : p # i => C[p] # leaf
  BY <1>1, <1>2 DEF IsInjective, Range
<1>4. Len(L) >= 2 /\ L \in KeyLists(t)
  BY <1>1, LimitsAssumption
<1>5. /\ M \in KeyLists(t) /\ N \in KeyLists(t) /\ Len(M) \in Nat /\ Len(N) \in Nat
      /\ Len(M) < Len(L) /\ Len(N) < Len(L) /\ Len(N) = LastHalf(Len(L))
      /\ Len(L) \div 2 + LastHalf(Len(L)) = Len(L)
  BY <1>4, HalfFacts
<1>6. CmpSplitLeaf(h, t, i - 1) = g
  <2>1. h.Cell[root].List[(i - 1) + 1] = leaf /\ h.Cell[leaf].List = L /\ (i - 1) + 2 = i + 1
    BY <1>1, <1>2 DEF Holds
  <2>2. SubSeq(L, Len(L) \div 2 + 1, Len(L) \div 2 + LastHalf(Len(L))) = N
    BY <1>5 DEF LastPart
  <2>3. SubSeq(L, 1, Len(L) \div 2) = M
    BY DEF FirstPart
  <2>4. /\ Sg = IF h.Version >= 5 THEN CM_KEY_HASH_LEAF ELSE CM_KEY_INDEX_LEAF
        /\ Size = EntrySize(Sg) * LastHalf(Len(L)) + ListOffset + 1
    BY <1>5 DEF SplitForm, SplitSize
  <2>5. g = SplitInto(h, t, root, Full(h.Cell[root]), leaf, C, i + 1, M, N, Sg, Size, new)
    <3> HIDE DEF L, M, N, Sg, Size, leaf, root, new
    <3>1. QED
      BY DEF SplitInto
  <2>6. CmpSplitLeaf(h, t, i - 1) =
          SplitInto(h, t, root, Full(h.Cell[root]), h.Cell[root].List[(i - 1) + 1], h.Cell[root].List,
                    (i - 1) + 2,
                    SubSeq(h.Cell[h.Cell[root].List[(i - 1) + 1]].List, 1,
                           Len(h.Cell[h.Cell[root].List[(i - 1) + 1]].List) \div 2),
                    SubSeq(h.Cell[h.Cell[root].List[(i - 1) + 1]].List,
                           Len(h.Cell[h.Cell[root].List[(i - 1) + 1]].List) \div 2 + 1,
                           Len(h.Cell[h.Cell[root].List[(i - 1) + 1]].List) \div 2
                             + LastHalf(Len(h.Cell[h.Cell[root].List[(i - 1) + 1]].List))),
                    Sg,
                    EntrySize(Sg) * LastHalf(Len(h.Cell[h.Cell[root].List[(i - 1) + 1]].List))
                      + ListOffset + 1,
                    new)
    BY SplitIntoFacts
  <2> HIDE DEF L, M, N, Sg, Size, leaf, new, g
  <2>7. CmpSplitLeaf(h, t, i - 1) =
          SplitInto(h, t, root, Full(h.Cell[root]), leaf, C, i + 1, SubSeq(L, 1, Len(L) \div 2),
                    SubSeq(L, Len(L) \div 2 + 1, Len(L) \div 2 + LastHalf(Len(L))), Sg,
                    EntrySize(Sg) * LastHalf(Len(L)) + ListOffset + 1, new)
    BY <1>2, <2>1, <2>6
  <2>8. QED
    BY <2>2, <2>3, <2>4, <2>5, <2>7
<1>7. new \in CellIds /\ new \notin DOMAIN h.Cell /\ HvGetCellType(new) = t /\ new \in Ids(t)
  <2>1. new \in CellIds /\ new \notin DOMAIN h.Cell /\ HvGetCellType(new) = t
    BY NewCellFacts
  <2>2. QED
    BY <2>1 DEF Ids, CellIds, HvGetCellType
<1>8. new # root /\ new \notin Range(C) /\ leaf \in DOMAIN h.Cell /\ HvGetCellType(leaf) = t
  BY <1>1, <1>2, <1>7 DEF Range, CellsOf
<1>9. /\ D \in Seq(Ids(t)) /\ Len(D) = Len(S) + 1 /\ IsInjective(D)
      /\ Range(D) = Range(C) \cup {new}
      /\ \A j \in 1 .. Len(S) + 1 :
           D[j] = IF j < i + 1 THEN C[j] ELSE IF j = i + 1 THEN new ELSE C[j - 1]
  BY <1>1, <1>2, <1>7, <1>8, InsertedChain
<1>10. /\ Step(h, k0, t) /\ k0 \in Hives /\ SameNode(h, k0) /\ k0.Cell = h.Cell
       /\ h.Dirty \subseteq k0.Dirty
       /\ t = "Stable" => leaf \in k0.Dirty
  BY <1>8, MarkFacts, StepHives
<1>11. [Signature |-> Sg, List |-> N, Size |-> CellSize(Size)] \in Indexes
       /\ Fits([Signature |-> Sg, List |-> N, Size |-> CellSize(Size)])
  <2>1. N \in Seq(Items)
    BY <1>5, KeysAreItems
  <2>2. QED
    BY <1>5, <2>1, SplitLeafFits
<1> HIDE DEF T, D, new, Sg, Size, M, N, L, root, leaf, k0
<1>12. /\ Step(k0, k1, t) /\ k1 \in Hives /\ SameNode(k0, k1)
       /\ DOMAIN k1.Cell = DOMAIN h.Cell \cup {new}
       /\ k1.Cell[new].List = N /\ k1.Cell[new].Signature = Sg
       /\ \A d \in DOMAIN h.Cell : k1.Cell[d] = h.Cell[d]
       /\ k0.Dirty \subseteq k1.Dirty
  BY <1>7, <1>10, <1>11, AllocateFacts, StepHives
<1> HIDE DEF k1
<1>13. Moved(k1, k2, t, root, newRoot, D)
  <2>1. root \in DOMAIN k1.Cell /\ HvGetCellType(root) = t /\ k1.Cell[root] = h.Cell[root]
    BY <1>2, <1>12 DEF CellsOf
  <2>2. t = "Stable" => root \in k1.Dirty
    BY <1>10, <1>12 DEF root
  <2>3. D \in Seq(Items) /\ Len(D) = Len(k1.Cell[root].List) + 1
    <3>1. Ids(t) \subseteq Items
      BY DEF Items, Ids, Numbers
    <3>2. D \in Seq(Items)
      BY <1>9, <3>1
    <3>3. k1.Cell[root].List = C
      BY <1>2, <2>1 DEF root
    <3>4. QED
      BY <1>2, <1>9, <3>2, <3>3
  <2>4. /\ k1.Cell[root].Size + 4 \in Nat
        /\ k1.Cell[root].Size + 4 >= k1.Cell[root].Size + EntrySize(k1.Cell[root].Signature)
    <3>1. k1.Cell[root].Size \in Nat
      BY <1>12, <2>1, HiveFacts
    <3>2. EntrySize(k1.Cell[root].Signature) = 4
      BY <2>1 DEF EntrySize, Rooted, root, CM_KEY_INDEX_ROOT, CM_KEY_FAST_LEAF, CM_KEY_HASH_LEAF
    <3>3. QED
      BY <3>1, <3>2
  <2> DEFINE Size2 == k1.Cell[root].Size + 4
  <2>5. Size2 \in Nat /\ Size2 >= k1.Cell[root].Size + EntrySize(k1.Cell[root].Signature)
    BY <2>4
  <2>6. Size2 = h.Cell[root].Size + 4
    BY <2>1
  <2> HIDE DEF Size2
  <2>7. CASE Full(h.Cell[root])
    <3>1. Moved(k1, PutList(HvReallocateCell(k1, root, NewCell(k1, t), Size2), NewCell(k1, t), D),
                t, root, NewCell(k1, t), D)
      BY <1>12, <2>1, <2>2, <2>3, <2>5, <2>7, MovedFacts
    <3>2. QED
      BY <2>6, <2>7, <3>1
  <2>8. CASE ~Full(h.Cell[root])
    <3>1. Moved(k1, PutList(k1, root, D), t, root, root, D)
      BY <1>12, <2>1, <2>2, <2>3, <2>5, <2>8, MovedFacts
    <3>2. QED
      BY <2>8, <3>1
  <2>9. QED
    BY <2>7, <2>8
<1> HIDE DEF newRoot, k2
<1>14. /\ Step(k1, k2, t) /\ k2 \in Hives /\ SameNode(k1, k2)
       /\ newRoot \in Ids(t) /\ (newRoot = root \/ newRoot \notin DOMAIN k1.Cell)
       /\ DOMAIN k2.Cell = (DOMAIN k1.Cell \ {root}) \cup {newRoot}
       /\ k2.Cell[newRoot].Signature = k1.Cell[root].Signature
       /\ k2.Cell[newRoot].List = D
       /\ \A d \in DOMAIN k1.Cell \ {root} : k2.Cell[d] = k1.Cell[d]
       /\ k1.Dirty \ {root} \subseteq k2.Dirty
       /\ t = "Stable" => newRoot \in k2.Dirty
  BY <1>13, StepHives DEF Moved
<1>15. /\ newRoot # leaf /\ newRoot # new /\ newRoot \notin Range(C)
       /\ leaf \in DOMAIN k2.Cell /\ k2.Cell[leaf] = h.Cell[leaf]
       /\ t = "Stable" => leaf \in k2.Dirty
  <2>1. leaf \in DOMAIN k1.Cell \ {root} /\ new \in DOMAIN k1.Cell \ {root}
    BY <1>3, <1>8, <1>12
  <2>2. newRoot \notin Range(C)
    <3>1. \A p \in DOMAIN S : C[p] \in DOMAIN k1.Cell
      BY <1>1, <1>12 DEF CellsOf
    <3>2. Range(C) \subseteq DOMAIN k1.Cell
      BY <1>1, <3>1 DEF Range
    <3>3. QED
      BY <1>3, <1>14, <3>2
  <2>3. QED
    BY <1>3, <1>8, <1>10, <1>12, <1>14, <2>1, <2>2
<1>16. /\ Step(k2, k3, t) /\ k3 \in Hives /\ SameNode(k2, k3) /\ DOMAIN k3.Cell = DOMAIN k2.Cell
       /\ k3.Cell[leaf].Signature = h.Cell[leaf].Signature /\ k3.Cell[leaf].List = M
       /\ \A d \in DOMAIN k2.Cell \ {leaf} : k3.Cell[d] = k2.Cell[d]
       /\ k3.Dirty = k2.Dirty
  <2>1. Len(M) <= Capacity(k2.Cell[leaf])
    <3>1. h.Cell[leaf] \in Indexes /\ Fits(h.Cell[leaf]) /\ h.Cell[leaf].List = L
      BY <1>2, <1>8, HiveFacts DEF Holds, leaf, L
    <3>2. Capacity(h.Cell[leaf]) \in Int /\ Len(L) \in Nat /\ Len(L) <= Capacity(h.Cell[leaf])
      BY <3>1, CapacityType DEF Fits
    <3>3. QED
      BY <1>5, <1>15, <3>2
  <2>2. M \in Seq(Items)
    BY <1>5, KeysAreItems
  <2>3. /\ Step(k2, k3, t) /\ SameNode(k2, k3) /\ DOMAIN k3.Cell = DOMAIN k2.Cell
        /\ k3.Cell[leaf].Signature = k2.Cell[leaf].Signature /\ k3.Cell[leaf].List = M
        /\ \A d \in DOMAIN k2.Cell \ {leaf} : k3.Cell[d] = k2.Cell[d]
        /\ k3.Dirty = k2.Dirty
    BY <1>8, <1>14, <1>15, <2>1, <2>2, PutListFacts
  <2> HIDE DEF k3
  <2>4. QED
    BY <1>15, <2>3, StepHives
<1> HIDE DEF k3
<1>17. /\ Step(k3, g, t) /\ g.Cell = k3.Cell /\ g.Dirty = k3.Dirty
       /\ g.SubKeyCounts = k3.SubKeyCounts /\ g.SubKeyLists[t] = newRoot
  <2>1. newRoot \in Places
    BY <1>14 DEF Places, CellIds, Ids
  <2>2. QED
    BY <1>16, <2>1, ListFacts
<1> HIDE DEF g
<1>18. Step(h, g, t)
  <2>1. Step(h, k1, t)
    BY <1>10, <1>12, StepTransitive
  <2>2. Step(h, k2, t)
    BY <1>14, <2>1, StepTransitive
  <2>3. Step(h, k3, t)
    BY <1>16, <2>2, StepTransitive
  <2>4. QED
    BY <1>17, <2>3, StepTransitive
<1>19. g.SubKeyCounts = h.SubKeyCounts
  BY <1>10, <1>12, <1>14, <1>16, <1>17 DEF SameNode
<1>20. CellsOf(g, t) = Range(D) \cup {newRoot}
  <2>1. DOMAIN g.Cell = ((DOMAIN h.Cell \cup {new}) \ {root}) \cup {newRoot}
    BY <1>12, <1>14, <1>16, <1>17
  <2>2. HvGetCellType(newRoot) = t
    BY <1>14 DEF Ids, HvGetCellType
  <2>3. CellsOf(g, t) = ((CellsOf(h, t) \cup {new}) \ {root}) \cup {newRoot}
    BY <1>7, <2>1, <2>2 DEF CellsOf
  <2>4. QED
    BY <1>2, <1>3, <1>8, <1>9, <2>3
<1>21. /\ g.Cell[newRoot].List = D /\ Rooted(g, newRoot)
       /\ newRoot \in CellsOf(g, t)
  <2>1. newRoot \in DOMAIN k2.Cell \ {leaf}
    BY <1>14, <1>15
  <2>2. g.Cell[newRoot] = k2.Cell[newRoot]
    BY <1>16, <1>17, <2>1
  <2>3. k1.Cell[root].Signature = CM_KEY_INDEX_ROOT
    BY <1>2, <1>12 DEF Rooted, root, CellsOf
  <2>4. QED
    BY <1>14, <1>20, <2>2, <2>3 DEF Rooted
<1>22. ASSUME NEW p \in DOMAIN S, p # i
       PROVE  Holds(g, C[p], S[p]) /\ g.Cell[C[p]].Signature # CM_KEY_FAST_LEAF
  <2>1. C[p] \in DOMAIN h.Cell /\ C[p] # leaf /\ C[p] # root /\ C[p] # newRoot
    BY <1>1, <1>3, <1>15, <1>22 DEF CellsOf, Range
  <2>2. C[p] \in DOMAIN k1.Cell \ {root} /\ C[p] \in DOMAIN k2.Cell \ {leaf}
    BY <1>12, <1>14, <2>1
  <2>3. C[p] \in DOMAIN g.Cell /\ g.Cell[C[p]] = h.Cell[C[p]]
    BY <1>12, <1>14, <1>16, <1>17, <2>1, <2>2
  <2>4. QED
    BY <1>2, <2>3 DEF Holds
<1>23. Holds(g, leaf, M) /\ g.Cell[leaf].Signature # CM_KEY_FAST_LEAF
  <2>1. h.Cell[leaf].Signature \in Forms \ {CM_KEY_FAST_LEAF}
    BY <1>2 DEF Holds, leaf
  <2>2. Len(M) <= CmpMaxIndexPerHblock
    BY <1>5, LimitsAssumption DEF L
  <2>3. leaf \in DOMAIN g.Cell /\ g.Cell[leaf].List = M /\ g.Cell[leaf].Signature = h.Cell[leaf].Signature
    BY <1>15, <1>16, <1>17
  <2>4. QED
    BY <2>1, <2>2, <2>3 DEF Holds, Limit
<1>24. Holds(g, new, N) /\ g.Cell[new].Signature # CM_KEY_FAST_LEAF
  <2>1. Sg \in Forms \ {CM_KEY_FAST_LEAF}
    BY DEF Sg, SplitForm, Forms, CM_KEY_HASH_LEAF, CM_KEY_INDEX_LEAF, CM_KEY_FAST_LEAF
  <2>2. Len(N) <= CmpMaxIndexPerHblock
    BY <1>5, LimitsAssumption DEF L
  <2>3. new # leaf /\ new \in DOMAIN k1.Cell \ {root}
    BY <1>7, <1>8, <1>12
  <2>4. new \in DOMAIN g.Cell /\ g.Cell[new] = k1.Cell[new]
    BY <1>14, <1>16, <1>17, <2>3
  <2>5. QED
    BY <1>12, <2>1, <2>2, <2>4 DEF Holds, Limit
<1>25. /\ T \in Pages(t) /\ Len(T) = Len(S) + 1 /\ DOMAIN T = 1 .. Len(S) + 1
       /\ \A j \in 1 .. Len(S) + 1 :
            T[j] = IF j < i THEN S[j] ELSE IF j = i THEN M ELSE IF j = i + 1 THEN N ELSE S[j - 1]
  <2>1. /\ T \in Pages(t) /\ Len(T) = Len(S) + 1
        /\ \A j \in 1 .. Len(S) + 1 :
             T[j] = IF j < i THEN S[j] ELSE IF j = i THEN M ELSE IF j = i + 1 THEN N ELSE S[j - 1]
    BY <1>2, <1>4, SplitPagesFacts DEF T, M, N, L
  <2>2. QED
    BY <2>1, PageFacts
<1>26. ASSUME NEW j \in DOMAIN T
       PROVE  Holds(g, D[j], T[j]) /\ g.Cell[D[j]].Signature # CM_KEY_FAST_LEAF
  <2>1. j \in 1 .. Len(S) + 1
    BY <1>25
  <2>2. CASE j < i
    <3>1. j \in DOMAIN S /\ j # i /\ D[j] = C[j] /\ T[j] = S[j]
      BY <1>1, <1>9, <1>25, <2>1, <2>2
    <3>2. QED
      BY <1>22, <3>1
  <2>3. CASE j = i
    <3>1. D[j] = leaf /\ T[j] = M
      BY <1>1, <1>9, <1>25, <2>1, <2>3 DEF leaf
    <3>2. QED
      BY <1>23, <3>1
  <2>4. CASE j = i + 1
    <3>1. D[j] = new /\ T[j] = N
      BY <1>1, <1>9, <1>25, <2>1, <2>4
    <3>2. QED
      BY <1>24, <3>1
  <2>5. CASE j > i + 1
    <3>1. j - 1 \in DOMAIN S /\ j - 1 # i /\ D[j] = C[j - 1] /\ T[j] = S[j - 1]
      BY <1>1, <1>9, <1>25, <2>1, <2>5
    <3>2. QED
      BY <1>22, <3>1
  <2>6. QED
    BY <1>1, <2>1, <2>2, <2>3, <2>4, <2>5
<1>27. Chained(g, t, D, T)
  <2>1. T # <<>>
    BY <1>1, <1>25
  <2>2. QED
    BY <1>9, <1>17, <1>20, <1>21, <1>25, <1>26, <2>1 DEF Chained
<1>28. t = "Stable" => newRoot \in g.Dirty
  BY <1>14, <1>16, <1>17
<1>29. QED
  BY <1>6, <1>17, <1>18, <1>19, <1>21, <1>27, <1>28 DEF T

-----------------------------------------------------------------------------
(* Choosing the leaf below a root *)

\* An index is the same in a hive with the same cells and the same node.
LEMMA SameChain ==
  ASSUME NEW h, NEW g, NEW t, NEW C, NEW S, Chained(h, t, C, S),
         g.Cell = h.Cell, g.SubKeyLists[t] = h.SubKeyLists[t]
  PROVE  /\ Chained(g, t, C, S) /\ CellsOf(g, t) = CellsOf(h, t)
         /\ \A c : Rooted(g, c) <=> Rooted(h, c)
<1>1. CellsOf(g, t) = CellsOf(h, t)
  BY DEF CellsOf
<1>2. \A c : Rooted(g, c) <=> Rooted(h, c)
  BY DEF Rooted
<1>3. \A c, L : Holds(g, c, L) <=> Holds(h, c, L)
  BY DEF Holds
<1>4. QED
  BY <1>1, <1>2, <1>3 DEF Chained

\* Only the leaf that the search yields is tried.
LEMMA CandidatesFacts ==
  ASSUME NEW h, NEW t \in Storages, NEW C, NEW S, NEW Name \in Names,
         Chained(h, t, C, S), NoneEmpty(S), Rooted(h, h.SubKeyLists[t])
  PROVE  Candidates(h, C, Name, CmpFindSubKeyInRoot(h, h.SubKeyLists[t], Name)) =
           <<Place(S, Name) - 1>>
<1> DEFINE P == Place(S, Name)
           found == CmpFindSubKeyInRoot(h, h.SubKeyLists[t], Name)
           above == CmpCompareInIndex(Name, h.Cell[C[found.Index + 1]].List, 0) >= 0
<1>1. /\ S \in Pages(t) /\ S # <<>> /\ Len(C) = Len(S)
      /\ \A i \in DOMAIN S : h.Cell[C[i]].List = S[i]
  BY DEF Chained, Holds
<1>2. /\ Len(S) \in Nat \ {0} /\ DOMAIN S = 1 .. Len(S)
      /\ \A i \in DOMAIN S : S[i] \in KeyLists(t) /\ S[i] # <<>> /\ C[i] # HCELL_NIL
  BY ChainFacts DEF NoneEmpty
<1>3. found.Index = P - 1 /\ found.SubKey = IF Covers(S, Name) THEN C[P] ELSE HCELL_NIL
  BY RootFound
<1>4. /\ P \in 1 .. Len(S)
      /\ ~Covers(S, Name) => \/ P = 1 /\ Above(S[1], Name)
                             \/ P = Len(S) /\ Below(S[P], Name)
  BY <1>1, PlaceInPages
<1>5. Candidates(h, C, Name, found) =
        IF found.SubKey # HCELL_NIL THEN <<found.Index>>
        ELSE IF above THEN IF found.Index + 1 < Len(C) THEN <<found.Index, found.Index + 1>>
                           ELSE <<found.Index>>
        ELSE IF found.Index > 0 THEN <<found.Index - 1>> ELSE <<0>>
  BY DEF Candidates
<1> HIDE DEF P, found
<1> DEFINE x == found.Index
<1>6. x = P - 1 /\ x + 1 = P /\ P \in DOMAIN S /\ P \in Int /\ Len(S) \in Int
  <2>1. P \in DOMAIN S /\ P \in Int /\ Len(S) \in Int
    <3>1. P \in 1 .. Len(S)
      BY <1>4
    <3>2. Len(S) \in Nat \ {0} /\ DOMAIN S = 1 .. Len(S)
      BY <1>2
    <3>3. QED
      BY <3>1, <3>2
  <2>2. x = P - 1
    BY <1>3
  <2> HIDE DEF x
  <2>3. QED
    BY <2>1, <2>2
<1>7. above <=> Name - NameOf(S[P][1]) >= 0
  BY <1>1, <1>6 DEF CmpCompareInIndex
<1>8. /\ 1 \in DOMAIN S[P] /\ NameOf(S[P][1]) \in Nat /\ Name \in Nat
  <2>1. S[P] \in Seq({t} \X Names) /\ S[P] # <<>>
    BY <1>2, <1>6 DEF KeyLists
  <2>2. Len(S[P]) \in Nat /\ DOMAIN S[P] = 1 .. Len(S[P]) /\ \A q \in DOMAIN S[P] : NameOf(S[P][q]) \in Nat
    BY <2>1, KeyFacts
  <2>3. Len(S[P]) # 0
    BY <2>1, EmptySeq
  <2>4. QED
    BY <2>2, <2>3, NamesAssumption
<1> DEFINE tried == Candidates(h, C, Name, found)
<1> HIDE DEF above
<1> DEFINE none == found.SubKey = HCELL_NIL
<1>13. /\ found.SubKey # HCELL_NIL => tried = <<x>>
       /\ none /\ above /\ ~(x + 1 < Len(C)) => tried = <<x>>
       /\ none /\ ~above /\ ~(x > 0) => tried = <<0>>
  BY <1>5
<1>14. ~Covers(S, Name) => none
  BY <1>3
<1>15. <<x>> = <<P - 1>>
  BY <1>6
<1> HIDE DEF tried, x, none
<1>9. CASE Covers(S, Name)
  <2>1. found.SubKey # HCELL_NIL
    BY <1>2, <1>3, <1>6, <1>9
  <2>2. tried = <<P - 1>>
    BY <1>13, <1>15, <2>1
  <2>3. QED
    BY <2>2 DEF tried, found, P
<1>10. CASE P = 1 /\ Above(S[1], Name) /\ ~Covers(S, Name)
  <2>1. ~above
    BY <1>7, <1>8, <1>10 DEF Above
  <2>2. x = 0
    BY <1>6, <1>10
  <2>3. tried = <<0>> /\ <<0>> = <<x>>
    BY <1>10, <1>13, <1>14, <2>1, <2>2
  <2>4. QED
    BY <1>15, <2>3 DEF tried, found, P
<1>11. CASE P = Len(S) /\ Below(S[P], Name) /\ ~Covers(S, Name)
  <2>1. above
    BY <1>7, <1>8, <1>11 DEF Below
  <2>2. ~(x + 1 < Len(C))
    BY <1>1, <1>6, <1>11
  <2>3. tried = <<x>>
    BY <1>11, <1>13, <1>14, <2>1, <2>2
  <2>4. QED
    BY <1>15, <2>3 DEF tried, found, P
<1>12. QED
  BY <1>4, <1>9, <1>10, <1>11 DEF P, found

LEMMA SelectedFacts ==
  ASSUME NEW h, NEW t \in Storages, NEW C, NEW S, NEW Name \in Names,
         Chained(h, t, C, S), NoneEmpty(S), Rooted(h, h.SubKeyLists[t])
  PROVE  Selected(h, h.SubKeyLists[t], Name) =
           IF Len(S[Place(S, Name)]) < CmpMaxIndexPerHblock THEN Place(S, Name) - 1
           ELSE INVALID_INDEX
<1> DEFINE P == Place(S, Name)
           tried == <<P - 1>>
           fits == {n \in DOMAIN tried : HasRoom(h.Cell[C[tried[n] + 1]])}
<1>1. /\ S \in Pages(t) /\ S # <<>> /\ h.Cell[h.SubKeyLists[t]].List = C
      /\ \A i \in DOMAIN S : h.Cell[C[i]].List = S[i]
  BY DEF Chained, Holds
<1>2. P \in DOMAIN S /\ P \in Int
  <2>1. P \in 1 .. Len(S)
    BY <1>1, PlaceInPages
  <2>2. QED
    BY <1>1, <2>1, PageFacts
<1>3. Candidates(h, C, Name, CmpFindSubKeyInRoot(h, h.SubKeyLists[t], Name)) = tried
  BY CandidatesFacts
<1>4. Selected(h, h.SubKeyLists[t], Name) = IF fits = {} THEN INVALID_INDEX ELSE tried[Min(fits)]
  <2> HIDE DEF tried
  <2>1. QED
    BY <1>1, <1>3 DEF Selected
<1>5. DOMAIN tried = {1} /\ tried[1] = P - 1 /\ (P - 1) + 1 = P
  BY <1>2
<1> HIDE DEF P, tried
<1>6. fits = {} \/ fits = {1}
  BY <1>5
<1>7. fits = {1} <=> Len(S[P]) < CmpMaxIndexPerHblock
  BY <1>1, <1>2, <1>5 DEF HasRoom
<1> HIDE DEF fits
<1>8. fits = {1} => Min(fits) = 1
  <2>1. {1} \in SUBSET Nat /\ {1} # {}
    OBVIOUS
  <2>2. Min({1}) \in {1}
    BY <2>1, MinFacts
  <2>3. QED
    BY <2>2
<1>9. QED
  BY <1>4, <1>5, <1>6, <1>7, <1>8 DEF P

\* A leaf with room for the name has been chosen: there are the keys K below it.
Picked(h, choice, t, Name, K) ==
  LET g == choice.hive
      c == g.SubKeyLists[t]
  IN  /\ Step(h, g, t) /\ g.SubKeyCounts = h.SubKeyCounts
      /\ \E C, S, i :
           /\ Chained(g, t, C, S) /\ Entries(S) = K
           /\ \A p \in DOMAIN S : p # i => S[p] # <<>>
           /\ Spot(S, i, Name) /\ Len(S[i]) < Limit(g.Cell[C[i]].Signature)
           /\ Rooted(g, c) /\ t = "Stable" => c \in g.Dirty
           /\ choice.Index = IF Rooted(g, c) THEN i - 1 ELSE INVALID_INDEX

\* Below a root the place of the name is picked, if its leaf has room.
LEMMA SelectPicks ==
  ASSUME NEW h \in Hives, NEW g, NEW t \in Storages, NEW C, NEW S, NEW Name \in Names,
         Step(h, g, t), g.SubKeyCounts = h.SubKeyCounts,
         Chained(g, t, C, S), NoneEmpty(S), Rooted(g, g.SubKeyLists[t]),
         t = "Stable" => g.SubKeyLists[t] \in g.Dirty,
         Len(S[Place(S, Name)]) < CmpMaxIndexPerHblock
  PROVE  Picked(h, Select(g, t, Name), t, Name, Entries(S))
<1> DEFINE P == Place(S, Name)
<1>1. Selected(g, g.SubKeyLists[t], Name) = P - 1
  BY SelectedFacts
<1>2. Select(g, t, Name).hive = g /\ Select(g, t, Name).Index = P - 1
  BY <1>1 DEF Select
<1>3. S \in Pages(t) /\ S # <<>>
  BY DEF Chained
<1>4. Spot(S, P, Name) /\ P \in DOMAIN S
  BY <1>3, PlaceInPages DEF Spot
<1>5. g.Cell[C[P]].Signature # CM_KEY_FAST_LEAF
  BY <1>4 DEF Chained
<1>6. Len(S[P]) < Limit(g.Cell[C[P]].Signature)
  BY <1>5 DEF Limit
<1>7. \A p \in DOMAIN S : p # P => S[p] # <<>>
  BY DEF NoneEmpty
<1> HIDE DEF P
<1>8. QED
  BY <1>2, <1>4, <1>6, <1>7 DEF Picked

\* After the split the place of the name is in one of the halves.
LEMMA PlaceInHalf ==
  ASSUME NEW t \in Storages, NEW S \in Pages(t), NoneEmpty(S), NEW Name \in Names, S # <<>>,
         Len(S[Place(S, Name)]) >= 2
  PROVE  LET P == Place(S, Name)
             Q == Place(SplitPages(S, P), Name)
         IN  Q = P \/ Q = P + 1
<1> DEFINE P == Place(S, Name)
           T == SplitPages(S, P)
           Q == Place(T, Name)
           n == Len(S)
<1>1. /\ P \in 1 .. n /\ Spot(S, P, Name)
      /\ Covers(S, Name) => ~Below(S[P], Name)
      /\ ~Covers(S, Name) => \/ P = 1 /\ Above(S[1], Name)
                             \/ P = n /\ Below(S[P], Name)
  BY PlaceInPages
<1>2. n \in Nat /\ DOMAIN S = 1 .. n /\ \A p \in DOMAIN S : S[p] \in KeyLists(t) /\ S[p] # <<>>
  BY PageFacts DEF NoneEmpty
<1>3. P \in DOMAIN S /\ Len(S[P]) >= 2
  BY <1>1, <1>2
<1> HIDE DEF P
<1>4. /\ T \in Pages(t) /\ Len(T) = n + 1 /\ NoneEmpty(T)
      /\ \A j \in 1 .. n + 1 :
           T[j] = IF j < P THEN S[j] ELSE IF j = P THEN FirstPart(S[P])
                  ELSE IF j = P + 1 THEN LastPart(S[P]) ELSE S[j - 1]
  BY <1>3, SplitPagesFacts
<1> HIDE DEF T
<1>5. T # <<>> /\ DOMAIN T = 1 .. n + 1
  BY <1>2, <1>4, PageFacts
<1>6. /\ Q \in 1 .. n + 1 /\ Spot(T, Q, Name)
      /\ Covers(T, Name) => ~Below(T[Q], Name)
      /\ ~Covers(T, Name) => \/ Q = 1 /\ Above(T[1], Name)
                             \/ Q = n + 1 /\ Below(T[Q], Name)
  BY <1>4, <1>5, PlaceInPages
<1> HIDE DEF Q
<1>7. \A L \in KeyLists(t) : L # <<>> /\ Below(L, Name) => ~Above(L, Name)
  BY CompareFacts
<1>8. Q >= P
  <2> SUFFICES ASSUME Q < P PROVE FALSE
    BY <1>1, <1>6
  <2>1. Q \in DOMAIN S /\ T[Q] = S[Q] /\ Below(S[Q], Name)
    BY <1>1, <1>2, <1>4, <1>6 DEF Spot
  <2>2. Q = 1 /\ Above(T[1], Name)
    BY <1>1, <1>6, <2>1
  <2>3. QED
    BY <1>2, <1>7, <2>1, <2>2
<1>9. Q <= P + 1
  <2> SUFFICES ASSUME Q > P + 1 PROVE FALSE
    BY <1>1, <1>6
  <2>1. Below(T[P], Name) /\ Below(T[P + 1], Name)
    BY <1>1, <1>5, <1>6 DEF Spot
  <2>2. T[P] = FirstPart(S[P]) /\ T[P + 1] = LastPart(S[P])
    <3>1. /\ P \in 1 .. n + 1 /\ P + 1 \in 1 .. n + 1
          /\ ~(P < P) /\ ~(P + 1 < P) /\ P + 1 # P
      <4>1. P \in 1 .. n
        BY <1>1
      <4>2. n \in Nat
        BY <1>2
      <4> HIDE DEF n
      <4>3. QED
        BY <4>1, <4>2
    <3>2. QED
      BY <1>4, <3>1
  <2>3. Range(FirstPart(S[P])) \cup Range(LastPart(S[P])) = Range(S[P])
    BY <1>2, <1>3, HalfFacts
  <2>4. \A L : Below(L, Name) <=> \A k \in Range(L) : NameOf(k) < Name
    BY DEF Below, Range
  <2>5. Below(S[P], Name)
    BY <2>1, <2>2, <2>3, <2>4
  <2>6. ~Above(S[P], Name)
    BY <1>2, <1>3, <1>7, <2>5
  <2>7. P = n
    BY <1>1, <2>5, <2>6
  <2>8. QED
    BY <1>2, <1>6, <2>7
<1>10. QED
  <2>1. Q = P \/ Q = P + 1
    BY <1>1, <1>6, <1>8, <1>9
  <2>2. QED
    BY <2>1 DEF P, Q, T

LEMMA SelectLeafFacts ==
  ASSUME NEW h \in Hives, NEW t \in Storages, NEW C, NEW S, NEW Name \in Names,
         Chained(h, t, C, S), NoneEmpty(S), Rooted(h, h.SubKeyLists[t])
  PROVE  Picked(h, CmpSelectLeaf(h, t, Name), t, Name, Entries(S))
<1> DEFINE c == h.SubKeyLists[t]
           k == HvMarkCellDirty(h, c)
           P == Place(S, Name)
           g == CmpSplitLeaf(k, t, P - 1)
<1>1. c \in DOMAIN h.Cell /\ HvGetCellType(c) = t
  BY DEF Chained, CellsOf
<1>2. /\ Step(h, k, t) /\ k \in Hives /\ k.Cell = h.Cell /\ SameNode(h, k)
      /\ t = "Stable" => c \in k.Dirty
  BY <1>1, MarkFacts, StepHives
<1>3. k.SubKeyLists[t] = c /\ k.SubKeyCounts = h.SubKeyCounts
  BY <1>2 DEF SameNode
<1> HIDE DEF k
<1>4. Chained(k, t, C, S) /\ Rooted(k, k.SubKeyLists[t])
  BY <1>2, <1>3, SameChain
<1>5. /\ Selected(h, c, Name) = IF Len(S[P]) < CmpMaxIndexPerHblock THEN P - 1 ELSE INVALID_INDEX
      /\ CmpFindSubKeyInRoot(h, c, Name).Index = P - 1
  <2>1. Selected(h, c, Name) = IF Len(S[P]) < CmpMaxIndexPerHblock THEN P - 1 ELSE INVALID_INDEX
    BY SelectedFacts
  <2>2. CmpFindSubKeyInRoot(h, c, Name).Index = P - 1
    BY RootFound
  <2>3. QED
    BY <2>1, <2>2
<1>6. S \in Pages(t) /\ S # <<>>
  BY DEF Chained
<1>7. P \in DOMAIN S /\ P \in Nat \ {0} /\ Len(S[P]) \in Nat
  <2>1. P \in 1 .. Len(S)
    BY <1>6, PlaceInPages
  <2>2. P \in DOMAIN S /\ P \in Nat \ {0}
    BY <1>6, <2>1, PageFacts
  <2>3. S[P] \in KeyLists(t)
    BY <1>6, <2>2, PageFacts
  <2>4. QED
    BY <2>2, <2>3, KeysAreItems
<1> HIDE DEF P
<1>8. CASE Len(S[P]) < CmpMaxIndexPerHblock
  <2>1. CmpSelectLeaf(h, t, Name) = Select(k, t, Name)
    BY <1>5, <1>7, <1>8 DEF CmpSelectLeaf, INVALID_INDEX, k
  <2>2. Picked(h, Select(k, t, Name), t, Name, Entries(S))
    BY <1>2, <1>3, <1>4, <1>8, SelectPicks DEF P
  <2>3. QED
    BY <2>1, <2>2
<1>9. CASE ~(Len(S[P]) < CmpMaxIndexPerHblock)
  <2>1. CmpSelectLeaf(h, t, Name) = Select(g, t, Name)
    BY <1>5, <1>7, <1>9 DEF CmpSelectLeaf, k
  <2>2. Len(S[P]) = CmpMaxIndexPerHblock /\ Len(S[P]) >= 2
    <3>1. Len(S[P]) <= Limit(h.Cell[C[P]].Signature) /\ h.Cell[C[P]].Signature # CM_KEY_FAST_LEAF
      BY <1>7 DEF Chained, Holds
    <3>2. Len(S[P]) <= CmpMaxIndexPerHblock
      BY <3>1 DEF Limit
    <3>3. QED
      BY <1>7, <1>9, <3>2, LimitsAssumption
  <2>3. /\ Step(k, g, t) /\ g.SubKeyCounts = k.SubKeyCounts
        /\ \E D : Chained(g, t, D, SplitPages(S, P))
        /\ Rooted(g, g.SubKeyLists[t])
        /\ t = "Stable" => g.SubKeyLists[t] \in g.Dirty
    BY <1>2, <1>3, <1>4, <1>7, <2>2, SplitFacts
  <2> HIDE DEF g
  <2>4. PICK D : Chained(g, t, D, SplitPages(S, P))
    BY <2>3
  <2> DEFINE T == SplitPages(S, P)
             Q == Place(T, Name)
  <2>5. /\ Entries(T) = Entries(S) /\ NoneEmpty(T)
        /\ \A j \in 1 .. Len(S) + 1 :
             T[j] = IF j < P THEN S[j] ELSE IF j = P THEN FirstPart(S[P])
                    ELSE IF j = P + 1 THEN LastPart(S[P]) ELSE S[j - 1]
    BY <1>6, <1>7, <2>2, SplitPagesFacts
  <2>6. Q = P \/ Q = P + 1
    BY <1>6, <2>2, PlaceInHalf DEF P
  <2> HIDE DEF T, Q
  <2>7. T[P] = FirstPart(S[P]) /\ T[P + 1] = LastPart(S[P])
    <3>1. P \in 1 .. Len(S) + 1 /\ P + 1 \in 1 .. Len(S) + 1
      BY <1>6, <1>7, PageFacts
    <3>2. QED
      BY <1>7, <2>5, <3>1
  <2>8. Len(FirstPart(S[P])) < Len(S[P]) /\ Len(LastPart(S[P])) < Len(S[P])
    BY <1>6, <1>7, <2>2, HalfFacts, PageFacts
  <2>9. Len(T[Q]) < CmpMaxIndexPerHblock
    BY <2>2, <2>6, <2>7, <2>8
  <2>10. Step(h, g, t) /\ g.SubKeyCounts = h.SubKeyCounts
    BY <1>2, <1>3, <2>3, StepTransitive
  <2>11. Chained(g, t, D, T)
    BY <2>4 DEF T
  <2>12. Picked(h, Select(g, t, Name), t, Name, Entries(T))
    BY <2>3, <2>5, <2>9, <2>10, <2>11, SelectPicks DEF Q
  <2>13. QED
    BY <2>1, <2>5, <2>12
<1>10. QED
  BY <1>8, <1>9

-----------------------------------------------------------------------------
(* Adding a subkey *)

\* The leaf c becomes a plain one.
Plain(h, c) == [h EXCEPT !.Cell[c].Signature = CM_KEY_INDEX_LEAF]

LEMMA PlainFits ==
  ASSUME NEW s \in Nat, NEW n \in Nat, n <= (s - 4) \div 8
  PROVE  n <= (s - 4) \div 4
OBVIOUS

LEMMA PlainFacts ==
  ASSUME NEW h \in Hives, NEW t \in Storages, NEW c \in DOMAIN h.Cell, HvGetCellType(c) = t,
         t = "Stable" => c \in h.Dirty, h.Cell[c].Signature = CM_KEY_FAST_LEAF
  PROVE  /\ Step(h, Plain(h, c), t) /\ SameNode(h, Plain(h, c))
         /\ DOMAIN Plain(h, c).Cell = DOMAIN h.Cell
         /\ Plain(h, c).Cell[c].Signature = CM_KEY_INDEX_LEAF
         /\ Plain(h, c).Cell[c].List = h.Cell[c].List
<1> DEFINE index == [h.Cell[c] EXCEPT !.Signature = CM_KEY_INDEX_LEAF]
           C == [h.Cell EXCEPT ![c] = index]
           g == [h EXCEPT !.Cell = C]
<1>0. g = Plain(h, c)
  BY DEF Plain
<1>1. h.Cell[c] \in Indexes /\ Fits(h.Cell[c])
  BY HiveFacts
<1>2. /\ index \in Indexes /\ index.Signature = CM_KEY_INDEX_LEAF
      /\ index.List = h.Cell[c].List /\ index.Size = h.Cell[c].Size
  BY <1>1 DEF Indexes, Forms
<1>3. Fits(index)
  <2>1. index.Size \in Nat /\ Len(index.List) \in Nat
    BY <1>2, CapacityType DEF Indexes
  <2>2. Capacity(h.Cell[c]) = (index.Size - 4) \div 8
    BY <1>2 DEF Capacity, ListOffset, EntrySize
  <2>3. Capacity(index) = (index.Size - 4) \div 4
    BY <1>2 DEF Capacity, ListOffset, EntrySize, CM_KEY_INDEX_LEAF, CM_KEY_FAST_LEAF, CM_KEY_HASH_LEAF
  <2>4. Len(index.List) <= (index.Size - 4) \div 8
    BY <1>1, <1>2, <2>2 DEF Fits
  <2> HIDE DEF index
  <2>5. QED
    BY <2>1, <2>3, <2>4, PlainFits DEF Fits
<1> HIDE DEF index
<1>4. /\ DOMAIN C = DOMAIN h.Cell /\ C = [d \in DOMAIN C |-> C[d]]
      /\ C[c] = index /\ \A d \in DOMAIN h.Cell \ {c} : C[d] = h.Cell[d]
  OBVIOUS
<1> HIDE DEF C
<1>5. C \in Heaps
  <2>1. \A d \in DOMAIN C : C[d] \in Indexes /\ Fits(C[d])
    BY <1>2, <1>3, <1>4, HiveFacts
  <2>2. DOMAIN C \subseteq CellIds
    BY <1>4, HiveFacts
  <2>3. QED
    BY <1>4, <2>1, <2>2, HeapFacts
<1>6. /\ g.Version = h.Version /\ g.Cell = C /\ g.Dirty = h.Dirty
      /\ g.SubKeyCounts = h.SubKeyCounts /\ g.SubKeyLists = h.SubKeyLists
      /\ g \in Hives
  BY <1>4, <1>5, HiveFacts DEF Hives
<1> HIDE DEF g
<1>7. Step(h, g, t)
  BY <1>4, <1>6 DEF Step
<1>8. QED
  BY <1>0, <1>2, <1>4, <1>6, <1>7 DEF SameNode

\* The list of a single page.
LEMMA OnePage ==
  ASSUME NEW t \in Storages, NEW L \in KeyLists(t)
  PROVE  <<L>> \in Pages(t) /\ Entries(<<L>>) = Range(L)
<1>1. <<L>> \in Seq(KeyLists(t)) /\ DOMAIN <<L>> = {1} /\ <<L>>[1] = L
  OBVIOUS
<1>2. Ordered(<<L>>)
  BY <1>1 DEF Ordered
<1>3. Entries(<<L>>) = Range(L)
  BY <1>1 DEF Entries
<1>4. QED
  BY <1>1, <1>2, <1>3 DEF Pages

\* An index that is a single leaf.
LEMMA LeafChain ==
  ASSUME NEW h, NEW t \in Storages, NEW c \in Ids(t), NEW L \in KeyLists(t), Holds(h, c, L),
         CellsOf(h, t) = {c}, h.SubKeyLists[t] = c
  PROVE  Chained(h, t, <<c>>, <<L>>) /\ ~Rooted(h, c)
<1>1. ~Rooted(h, c)
  BY DEF Holds, Rooted, Forms, CM_KEY_INDEX_ROOT, CM_KEY_INDEX_LEAF, CM_KEY_FAST_LEAF, CM_KEY_HASH_LEAF
<1>2. <<c>> \in Seq(Ids(t)) /\ IsInjective(<<c>>) /\ Len(<<c>>) = 1
  BY DEF IsInjective
<1>3. /\ <<L>> # <<>> /\ Len(<<L>>) = 1 /\ <<L>> \in Pages(t)
      /\ \A i \in DOMAIN <<L>> : i = 1 /\ <<L>>[i] = L
  BY OnePage
<1>4. ASSUME NEW i \in DOMAIN <<L>> PROVE Holds(h, <<c>>[i], <<L>>[i])
  <2>1. i = 1
    BY <1>3
  <2>2. <<c>>[1] = c /\ <<L>>[1] = L
    OBVIOUS
  <2>3. QED
    BY <2>1, <2>2
<1>5. QED
  BY <1>1, <1>2, <1>3, <1>4 DEF Chained

\* A single leaf in which there is room is picked.
LEMMA LeafPicks ==
  ASSUME NEW h \in Hives, NEW g, NEW t \in Storages, NEW c \in Ids(t), NEW L \in KeyLists(t),
         NEW Name \in Names, Step(h, g, t), g.SubKeyCounts = h.SubKeyCounts, Holds(g, c, L),
         CellsOf(g, t) = {c}, g.SubKeyLists[t] = c, Len(L) < Limit(g.Cell[c].Signature)
  PROVE  Picked(h, ChooseLeaf(g, t, Name), t, Name, Range(L))
<1>1. Chained(g, t, <<c>>, <<L>>) /\ ~Rooted(g, c)
  BY LeafChain
<1>2. ChooseLeaf(g, t, Name).hive = g /\ ChooseLeaf(g, t, Name).Index = INVALID_INDEX
  BY <1>1 DEF ChooseLeaf, Rooted
<1>3. Entries(<<L>>) = Range(L) /\ DOMAIN <<L>> = {1} /\ <<L>>[1] = L /\ <<c>>[1] = c
  BY OnePage
<1>4. Spot(<<L>>, 1, Name)
  BY <1>3 DEF Spot
<1> DEFINE C == <<c>>
           S == <<L>>
<1>5. /\ Chained(g, t, C, S) /\ Entries(S) = Range(L) /\ Spot(S, 1, Name)
      /\ \A p \in DOMAIN S : p # 1 => S[p] # <<>>
      /\ Len(S[1]) < Limit(g.Cell[C[1]].Signature)
  BY <1>1, <1>3, <1>4
<1> HIDE DEF C, S
<1>6. QED
  BY <1>1, <1>2, <1>5 DEF Picked

\* The subkey list of a key that has no subkey.
LEMMA EmptyList ==
  ASSUME NEW t \in Storages
  PROVE  <<>> \in KeyLists(t) /\ Range(<<>>) = {} /\ Len(<<>>) = 0 /\ <<>> \in Seq(Items)
BY DEF KeyLists, Strict, Range

LEMMA FirstLeafFits ==
  ASSUME NEW v
  PROVE  LET index == [Signature |-> NewLeaf(v), List |-> <<>>, Size |-> CellSize(12)]
         IN  index \in Indexes /\ Fits(index)
<1>1. CellSize(12) = 12
  BY DEF CellSize
<1>2. NewLeaf(v) \in Forms
  BY DEF NewLeaf, Forms
<1>3. EntrySize(NewLeaf(v)) = 8
  BY DEF EntrySize, NewLeaf
<1>4. QED
  BY <1>1, <1>2, <1>3 DEF Indexes, Fits, Capacity, ListOffset

LEMMA FirstRootFits ==
  ASSUME NEW c \in CellIds
  PROVE  LET index == [Signature |-> CM_KEY_INDEX_ROOT, List |-> <<c>>, Size |-> CellSize(12)]
         IN  index \in Indexes /\ Fits(index)
<1>1. CellSize(12) = 12
  BY DEF CellSize
<1>2. EntrySize(CM_KEY_INDEX_ROOT) = 4
  BY DEF EntrySize, CM_KEY_INDEX_ROOT, CM_KEY_FAST_LEAF, CM_KEY_HASH_LEAF
<1>3. <<c>> \in Seq(Items) /\ Len(<<c>>) = 1
  BY DEF Items, CellIds, Numbers
<1>4. QED
  BY <1>1, <1>2, <1>3 DEF Indexes, Fits, Capacity, ListOffset

LEMMA StepReflexive ==
  ASSUME NEW h \in Hives, NEW t
  PROVE  Step(h, h, t)
BY DEF Step

\* A leaf that is picked after a step is picked from its start.
LEMMA PickedAfter ==
  ASSUME NEW h \in Hives, NEW g, NEW t, Step(h, g, t), g.SubKeyCounts = h.SubKeyCounts,
         NEW choice, NEW Name, NEW K, Picked(g, choice, t, Name, K)
  PROVE  Picked(h, choice, t, Name, K)
<1>1. Step(g, choice.hive, t) /\ choice.hive.SubKeyCounts = g.SubKeyCounts
  BY DEF Picked
<1>2. Step(h, choice.hive, t)
  BY <1>1, StepTransitive
<1>3. QED
  BY <1>1, <1>2 DEF Picked

\* Prepare, for the four forms in which the index can be.
LEMMA PrepareCases ==
  ASSUME NEW h, NEW t, h.SubKeyCounts[t] \in Nat
  PROVE  LET c     == h.SubKeyLists[t]
             index == h.Cell[c]
             new   == NewCell(h, t)
             fast  == index.Signature = CM_KEY_FAST_LEAF /\ Len(index.List) >= CmpMaxFastIndexPerHblock
             plain == /\ index.Signature \in {CM_KEY_INDEX_LEAF, CM_KEY_HASH_LEAF}
                      /\ Len(index.List) >= CmpMaxIndexPerHblock
         IN  /\ h.SubKeyCounts[t] = 0 =>
                  Prepare(h, t) = WithList(HvAllocateCell(h, new, 12, NewLeaf(h.Version), <<>>), t, new)
             /\ h.SubKeyCounts[t] # 0 /\ fast => Prepare(h, t) = Plain(HvMarkCellDirty(h, c), c)
             /\ h.SubKeyCounts[t] # 0 /\ plain =>
                  Prepare(h, t) = WithList(HvAllocateCell(h, new, 12, CM_KEY_INDEX_ROOT, <<c>>), t, new)
             /\ h.SubKeyCounts[t] # 0 /\ ~fast /\ ~plain => Prepare(h, t) = h
<1> DEFINE c     == h.SubKeyLists[t]
           index == h.Cell[c]
           new   == NewCell(h, t)
           fast  == index.Signature = CM_KEY_FAST_LEAF /\ Len(index.List) >= CmpMaxFastIndexPerHblock
           plain == /\ index.Signature \in {CM_KEY_INDEX_LEAF, CM_KEY_HASH_LEAF}
                    /\ Len(index.List) >= CmpMaxIndexPerHblock
           a == WithList(HvAllocateCell(h, new, 12, NewLeaf(h.Version), <<>>), t, new)
           b == Plain(HvMarkCellDirty(h, c), c)
           d == WithList(HvAllocateCell(h, new, 12, CM_KEY_INDEX_ROOT, <<c>>), t, new)
<1>1. Prepare(h, t) = CASE h.SubKeyCounts[t] = 0 -> a
                        [] h.SubKeyCounts[t] > 0 /\ fast -> b
                        [] h.SubKeyCounts[t] > 0 /\ plain -> d
                        [] OTHER -> h
  BY DEF Prepare, Plain, WithList
<1>2. ~(fast /\ plain)
  BY DEF CM_KEY_INDEX_LEAF, CM_KEY_FAST_LEAF, CM_KEY_HASH_LEAF
<1> HIDE DEF fast, plain, a, b, d
<1>3. h.SubKeyCounts[t] = 0 \/ h.SubKeyCounts[t] > 0
  OBVIOUS
<1>4. /\ h.SubKeyCounts[t] = 0 => Prepare(h, t) = a
      /\ h.SubKeyCounts[t] # 0 /\ fast => Prepare(h, t) = b
      /\ h.SubKeyCounts[t] # 0 /\ plain => Prepare(h, t) = d
      /\ h.SubKeyCounts[t] # 0 /\ ~fast /\ ~plain => Prepare(h, t) = h
  BY <1>1, <1>2, <1>3
<1>5. QED
  BY <1>4 DEF fast, plain, a, b, d

\* A first leaf.
LEMMA PrepareFirst ==
  ASSUME NEW h \in Hives, NEW t \in Storages, NEW Name \in Names,
         h.SubKeyCounts[t] = 0, CellsOf(h, t) = {}
  PROVE  Picked(h, ChooseLeaf(Prepare(h, t), t, Name), t, Name, {})
<1> DEFINE new == NewCell(h, t)
           k == HvAllocateCell(h, new, 12, NewLeaf(h.Version), <<>>)
           g == WithList(k, t, new)
<1>1. new \in CellIds /\ new \notin DOMAIN h.Cell /\ HvGetCellType(new) = t
  BY NewCellFacts
<1>2. new \in Ids(t) /\ new \in Places
  BY <1>1 DEF Ids, CellIds, HvGetCellType, Places
<1> DEFINE Sg == NewLeaf(h.Version)
           index == [Signature |-> Sg, List |-> <<>>, Size |-> CellSize(12)]
<1>3. index \in Indexes /\ Fits(index)
  BY FirstLeafFits
<1> HIDE DEF new, Sg
<1>4. /\ Step(h, k, t) /\ SameNode(h, k) /\ DOMAIN k.Cell = DOMAIN h.Cell \cup {new}
      /\ k.Cell[new] = [Signature |-> Sg, List |-> <<>>, Size |-> CellSize(12)]
  BY <1>1, <1>3, AllocateFacts DEF Sg
<1> HIDE DEF k
<1>5. /\ Step(k, g, t) /\ g.Cell = k.Cell /\ g.SubKeyCounts = k.SubKeyCounts
      /\ g.SubKeyLists[t] = new /\ Step(h, g, t)
  BY <1>2, <1>4, ListFacts, StepHives, StepTransitive
<1> HIDE DEF g
<1>6. CellsOf(g, t) = {new}
  BY <1>1, <1>4, <1>5 DEF CellsOf
<1>7. Sg \in Forms /\ Limit(Sg) \in Nat \ {0}
  BY LimitsAssumption DEF Sg, NewLeaf, Forms, Limit
<1>8. g.Cell[new].List = <<>> /\ g.Cell[new].Signature = Sg /\ new \in DOMAIN g.Cell
  BY <1>4, <1>5
<1>9. /\ <<>> \in KeyLists(t) /\ Range(<<>>) = {} /\ Len(<<>>) = 0
  BY EmptyList
<1>10. Holds(g, new, <<>>) /\ Len(<<>>) < Limit(g.Cell[new].Signature)
  BY <1>7, <1>8, <1>9 DEF Holds
<1>11. g.SubKeyCounts = h.SubKeyCounts
  BY <1>4, <1>5 DEF SameNode
<1>12. Picked(h, ChooseLeaf(g, t, Name), t, Name, Range(<<>>))
  BY <1>2, <1>5, <1>6, <1>9, <1>10, <1>11, LeafPicks
<1>13. Prepare(h, t) = g
  BY PrepareCases, HiveFacts DEF g, k, new
<1>14. QED
  BY <1>9, <1>12, <1>13

LEMMA PrepareLeaf ==
  ASSUME NEW h \in Hives, NEW t \in Storages, NEW Name \in Names, h.SubKeyCounts[t] # 0,
         NEW C, NEW S, Chained(h, t, C, S), NoneEmpty(S)
  PROVE  Picked(h, ChooseLeaf(Prepare(h, t), t, Name), t, Name, Entries(S))
<1> DEFINE c == h.SubKeyLists[t]
           new == NewCell(h, t)
           Sg == h.Cell[c].Signature
           L == h.Cell[c].List
           fast == Sg = CM_KEY_FAST_LEAF /\ Len(L) >= CmpMaxFastIndexPerHblock
           plain == Sg \in {CM_KEY_INDEX_LEAF, CM_KEY_HASH_LEAF} /\ Len(L) >= CmpMaxIndexPerHblock
           m == HvMarkCellDirty(h, c)
           a == Plain(m, c)
           k == HvAllocateCell(h, new, 12, CM_KEY_INDEX_ROOT, <<c>>)
           b == WithList(k, t, new)
<1>1. /\ fast => Prepare(h, t) = a
      /\ plain => Prepare(h, t) = b
      /\ ~fast /\ ~plain => Prepare(h, t) = h
  <2>1. h.SubKeyCounts[t] \in Nat
    BY HiveFacts
  <2>2. QED
    BY <2>1, PrepareCases
<1>2. /\ c \in CellsOf(h, t) /\ c \in DOMAIN h.Cell /\ HvGetCellType(c) = t /\ c \in CellIds
      /\ c \in Ids(t)
  <2>1. c \in CellsOf(h, t) /\ c \in DOMAIN h.Cell /\ HvGetCellType(c) = t /\ c \in CellIds
    BY HiveFacts DEF Chained, CellsOf
  <2>2. QED
    BY <2>1 DEF Ids, CellIds, HvGetCellType
<1>3. ASSUME ~Rooted(h, c)
      PROVE  /\ C = <<c>> /\ S = <<L>> /\ L \in KeyLists(t) /\ Entries(S) = Range(L)
             /\ CellsOf(h, t) = {c} /\ Sg \in Forms /\ Len(L) <= Limit(Sg) /\ Len(L) \in Nat
             /\ Holds(h, c, L)
  <2>1. C = <<c>> /\ CellsOf(h, t) = {c} /\ Len(C) = Len(S) /\ S \in Pages(t)
        /\ \A i \in DOMAIN S : Holds(h, C[i], S[i])
    BY <1>3 DEF Chained
  <2>2. Len(S) = 1 /\ DOMAIN S = {1} /\ S[1] \in KeyLists(t) /\ S = <<S[1]>>
    <3>1. Len(C) = 1
      BY <2>1
    <3>2. Len(S) = 1 /\ DOMAIN S = 1 .. 1
      BY <2>1, <3>1, PageFacts
    <3>3. S[1] \in KeyLists(t)
      BY <2>1, <3>2, PageFacts
    <3>4. S \in Seq(KeyLists(t))
      BY <2>1 DEF Pages
    <3>5. S = <<S[1]>>
      BY <3>2, <3>4
    <3>6. QED
      BY <3>2, <3>3, <3>5
  <2>3. Holds(h, c, S[1])
    BY <2>1, <2>2
  <2>4. S[1] = L
    BY <2>3 DEF Holds
  <2>5. Entries(<<S[1]>>) = Range(S[1])
    BY <2>2, OnePage
  <2> HIDE DEF L
  <2>6. QED
    BY <2>1, <2>2, <2>3, <2>4, <2>5, KeysAreItems DEF Holds
<1>4. CASE fast
  <2>1. ~Rooted(h, c)
    BY <1>4 DEF Rooted, CM_KEY_FAST_LEAF, CM_KEY_INDEX_ROOT
  <2>2. /\ Step(h, m, t) /\ m \in Hives /\ m.Cell = h.Cell /\ SameNode(h, m)
        /\ t = "Stable" => c \in m.Dirty
    BY <1>2, MarkFacts, StepHives
  <2> HIDE DEF m
  <2>3. c \in DOMAIN m.Cell /\ m.Cell[c].Signature = CM_KEY_FAST_LEAF
    BY <1>2, <1>4, <2>2
  <2>4. /\ Step(m, a, t) /\ SameNode(m, a) /\ DOMAIN a.Cell = DOMAIN m.Cell
        /\ a.Cell[c].Signature = CM_KEY_INDEX_LEAF /\ a.Cell[c].List = m.Cell[c].List
    BY <1>2, <2>2, <2>3, PlainFacts
  <2> HIDE DEF a
  <2>5. Step(h, a, t) /\ a.SubKeyCounts = h.SubKeyCounts /\ a.SubKeyLists[t] = c
    BY <2>2, <2>4, StepTransitive DEF SameNode
  <2>6. CellsOf(a, t) = {c}
    BY <1>3, <2>1, <2>2, <2>4 DEF CellsOf
  <2>7. Len(L) <= CmpMaxFastIndexPerHblock /\ L \in KeyLists(t) /\ Len(L) \in Nat
    BY <1>3, <1>4, <2>1 DEF Limit
  <2>8. Holds(a, c, L) /\ Len(L) < Limit(a.Cell[c].Signature)
    <3>1. a.Cell[c].List = L /\ c \in DOMAIN a.Cell
      BY <1>2, <2>2, <2>4
    <3>2. Limit(CM_KEY_INDEX_LEAF) = CmpMaxIndexPerHblock /\ CM_KEY_INDEX_LEAF \in Forms
      BY DEF Limit, Forms, CM_KEY_INDEX_LEAF, CM_KEY_FAST_LEAF
    <3>3. Len(L) < CmpMaxIndexPerHblock /\ Len(L) <= CmpMaxIndexPerHblock
      BY <2>7, LimitsAssumption
    <3>4. QED
      BY <2>4, <3>1, <3>2, <3>3 DEF Holds
  <2> HIDE DEF L, c
  <2>9. Picked(h, ChooseLeaf(a, t, Name), t, Name, Range(L))
    BY <1>2, <2>5, <2>6, <2>7, <2>8, LeafPicks
  <2>10. QED
    BY <1>1, <1>3, <1>4, <2>1, <2>9
<1>5. CASE plain
  <2>1. ~Rooted(h, c)
    BY <1>5 DEF Rooted, CM_KEY_INDEX_LEAF, CM_KEY_HASH_LEAF, CM_KEY_INDEX_ROOT
  <2>2. new \in CellIds /\ new \notin DOMAIN h.Cell /\ HvGetCellType(new) = t
    BY NewCellFacts
  <2>3. new \in Places /\ new # c
    BY <1>2, <2>2 DEF Places
  <2>4. LET index == [Signature |-> CM_KEY_INDEX_ROOT, List |-> <<c>>, Size |-> CellSize(12)]
        IN  index \in Indexes /\ Fits(index)
    BY <1>2, FirstRootFits
  <2> DEFINE R == CM_KEY_INDEX_ROOT
             one == <<c>>
  <2>5. /\ [Signature |-> R, List |-> one, Size |-> CellSize(12)] \in Indexes
        /\ Fits([Signature |-> R, List |-> one, Size |-> CellSize(12)])
    BY <2>4
  <2> HIDE DEF new, R, one
  <2>6. /\ Step(h, k, t) /\ SameNode(h, k) /\ DOMAIN k.Cell = DOMAIN h.Cell \cup {new}
        /\ k.Cell[new] = [Signature |-> R, List |-> one, Size |-> CellSize(12)]
        /\ \A d \in DOMAIN h.Cell : k.Cell[d] = h.Cell[d]
        /\ t = "Stable" => new \in k.Dirty
    BY <2>2, <2>5, AllocateFacts DEF R, one
  <2> HIDE DEF k
  <2>7. /\ Step(k, b, t) /\ b.Cell = k.Cell /\ b.SubKeyCounts = k.SubKeyCounts
        /\ b.SubKeyLists[t] = new /\ Step(h, b, t) /\ b.Dirty = k.Dirty
    BY <2>3, <2>6, ListFacts, StepHives, StepTransitive
  <2> HIDE DEF b
  <2>8. /\ b.Cell[new].Signature = CM_KEY_INDEX_ROOT /\ b.Cell[new].List = one
        /\ b.Cell[c] = h.Cell[c] /\ Rooted(b, new)
    BY <1>2, <2>6, <2>7 DEF Rooted, R
  <2>9. CellsOf(b, t) = {c, new}
    BY <1>2, <1>3, <2>1, <2>2, <2>6, <2>7 DEF CellsOf
  <2>10. Chained(b, t, C, S)
    <3>1. /\ S \in Pages(t) /\ S # <<>> /\ C \in Seq(Ids(t)) /\ Len(C) = Len(S) /\ IsInjective(C)
          /\ C = one
      BY <1>3, <2>1 DEF Chained, one
    <3>2. ASSUME NEW i \in DOMAIN S PROVE C[i] = c
      <4>1. i = 1
        BY <1>3, <2>1, <3>2
      <4>2. <<c>>[1] = c
        OBVIOUS
      <4>3. QED
        BY <3>1, <4>1, <4>2 DEF one
    <3>3. \A i \in DOMAIN S : Holds(h, C[i], S[i])
      BY DEF Chained
    <3>4. \A i \in DOMAIN S : Holds(b, C[i], S[i]) /\ b.Cell[C[i]].Signature # CM_KEY_FAST_LEAF
      <4>1. Sg # CM_KEY_FAST_LEAF
        BY <1>5 DEF CM_KEY_INDEX_LEAF, CM_KEY_HASH_LEAF, CM_KEY_FAST_LEAF
      <4>2. c \in DOMAIN b.Cell
        BY <1>2, <2>6, <2>7
      <4>3. QED
        BY <2>8, <3>2, <3>3, <4>1, <4>2 DEF Holds
    <3>5. CellsOf(b, t) = Range(C) \cup {new}
      <4>1. Range(one) = {c}
        BY DEF one, Range
      <4>2. QED
        BY <2>9, <3>1, <4>1
    <3>6. new \in CellsOf(b, t)
      BY <2>9
    <3>7. QED
      BY <2>7, <2>8, <3>1, <3>4, <3>5, <3>6 DEF Chained
  <2>11. b \in Hives /\ Rooted(b, b.SubKeyLists[t])
    BY <2>7, <2>8, StepHives
  <2>12. Picked(b, CmpSelectLeaf(b, t, Name), t, Name, Entries(S))
    BY <2>10, <2>11, SelectLeafFacts
  <2>13. ChooseLeaf(b, t, Name) = CmpSelectLeaf(b, t, Name)
    BY <2>7, <2>8 DEF ChooseLeaf
  <2>14. b.SubKeyCounts = h.SubKeyCounts
    BY <2>6, <2>7 DEF SameNode
  <2>15. Picked(h, CmpSelectLeaf(b, t, Name), t, Name, Entries(S))
    BY <2>7, <2>11, <2>12, <2>14, PickedAfter
  <2>16. QED
    BY <1>1, <1>5, <2>13, <2>15
<1>6. CASE ~fast /\ ~plain
  <2>1. CASE Rooted(h, c)
    <3>1. Picked(h, CmpSelectLeaf(h, t, Name), t, Name, Entries(S))
      BY <2>1, SelectLeafFacts
    <3>2. ChooseLeaf(h, t, Name) = CmpSelectLeaf(h, t, Name)
      BY <2>1 DEF ChooseLeaf, Rooted
    <3>3. QED
      BY <1>1, <1>6, <3>1, <3>2
  <2>2. CASE ~Rooted(h, c)
    <3>1. Len(L) < Limit(Sg) /\ L \in KeyLists(t) /\ Holds(h, c, L) /\ CellsOf(h, t) = {c}
      <4>1. Sg \in Forms /\ Len(L) \in Nat
        BY <1>3, <2>2
      <4>2. QED
        BY <1>3, <1>6, <2>2, <4>1, LimitsAssumption
           DEF Limit, Forms, CM_KEY_INDEX_LEAF, CM_KEY_HASH_LEAF, CM_KEY_FAST_LEAF
    <3>2. Step(h, h, t)
      BY StepReflexive
    <3> HIDE DEF L, c
    <3>3. Picked(h, ChooseLeaf(h, t, Name), t, Name, Range(L))
      BY <1>2, <3>1, <3>2, LeafPicks DEF c
    <3>4. QED
      BY <1>1, <1>3, <1>6, <2>2, <3>3
  <2>3. QED
    BY <2>1, <2>2
<1>7. QED
  BY <1>4, <1>5, <1>6

LEMMA RangeFinite ==
  ASSUME NEW X, NEW L \in Seq(X)
  PROVE  IsFiniteSet(Range(L))
<1>1. DOMAIN L = 1 .. Len(L) /\ Len(L) \in Nat
  BY LenProperties
<1>2. IsFiniteSet(DOMAIN L)
  BY <1>1, FS_Interval
<1>3. L \in Surjection(DOMAIN L, Range(L))
  <2>1. L = [i \in DOMAIN L |-> L[i]]
    BY <1>1, LenProperties
  <2>2. QED
    BY <2>1 DEF Surjection, Range
<1>4. QED
  BY <1>2, <1>3, FS_Surjection

LEMMA EntriesFinite ==
  ASSUME NEW t, NEW S \in Pages(t)
  PROVE  IsFiniteSet(Entries(S))
<1> DEFINE f == [i \in DOMAIN S |-> Range(S[i])]
           R == {Range(S[i]) : i \in DOMAIN S}
<1>1. /\ DOMAIN S = 1 .. Len(S) /\ Len(S) \in Nat
      /\ \A i \in DOMAIN S : S[i] \in KeyLists(t)
  BY PageFacts
<1>2. IsFiniteSet(DOMAIN S)
  BY <1>1, FS_Interval
<1>3. f \in Surjection(DOMAIN S, R)
  BY DEF Surjection
<1>4. IsFiniteSet(R)
  BY <1>2, <1>3, FS_Surjection
<1>5. \A i \in DOMAIN S : IsFiniteSet(Range(S[i]))
  BY <1>1, RangeFinite DEF KeyLists
<1>6. \A T \in R : IsFiniteSet(T)
  BY <1>5
<1> HIDE DEF f
<1>7. Entries(S) = UNION R
  BY DEF Entries
<1> HIDE DEF R
<1>8. QED
  BY <1>4, <1>6, <1>7, FS_UNION

\* The number of subkeys is that of the keys listed.
LEMMA GoodCount ==
  ASSUME NEW h \in Hives, NEW t \in Storages, Good(h, t)
  PROVE  IsFiniteSet(KeysOf(h, t)) /\ h.SubKeyCounts[t] = Cardinality(KeysOf(h, t))
<1>1. CASE h.SubKeyCounts[t] = 0
  <2>1. KeysOf(h, t) = {}
    BY <1>1, KeysOfFacts DEF Good
  <2>2. QED
    BY <1>1, <2>1, FS_EmptySet
<1>2. CASE h.SubKeyCounts[t] # 0
  <2>1. PICK C, S : Chained(h, t, C, S) /\ h.SubKeyCounts[t] = Cardinality(Entries(S))
    BY <1>2 DEF Good
  <2>2. KeysOf(h, t) = Entries(S) /\ S \in Pages(t)
    BY <2>1, ChainKeys DEF Chained
  <2>3. QED
    BY <2>1, <2>2, EntriesFinite
<1>3. QED
  BY <1>1, <1>2

\* A subkey has been added, or removed: the index is a good one of the keys K.
Becomes(h, g, t, K) ==
  /\ Step(h, g, t) /\ Good(g, t) /\ KeysOf(g, t) = K
  /\ g.SubKeyCounts[t] = Cardinality(K)

LEMMA PrepareFacts ==
  ASSUME NEW h \in Hives, NEW t \in Storages, NEW Name \in Names, Good(h, t)
  PROVE  Picked(h, ChooseLeaf(Prepare(h, t), t, Name), t, Name, KeysOf(h, t))
<1>1. CASE h.SubKeyCounts[t] = 0
  <2>1. CellsOf(h, t) = {} /\ KeysOf(h, t) = {}
    BY <1>1, KeysOfFacts DEF Good
  <2>2. QED
    BY <1>1, <2>1, PrepareFirst
<1>2. CASE h.SubKeyCounts[t] # 0
  <2>1. PICK C, S : Chained(h, t, C, S) /\ NoneEmpty(S)
    BY <1>2 DEF Good
  <2>2. QED
    BY <1>2, <2>1, ChainKeys, PrepareLeaf
<1>3. QED
  BY <1>1, <1>2

LEMMA AddFacts ==
  ASSUME NEW h \in Hives, NEW t \in Storages, NEW Name \in Names, Good(h, t),
         <<t, Name>> \notin KeysOf(h, t)
  PROVE  Becomes(h, CmpAddSubKey(h, <<t, Name>>), t, KeysOf(h, t) \cup {<<t, Name>>})
<1> DEFINE key == <<t, Name>>
           choice == ChooseLeaf(Prepare(h, t), t, Name)
           f == choice.hive
           g == EnterSubKey(choice, t, key)
           K == KeysOf(h, t)
<1>1. CmpAddSubKey(h, key) = g
  BY DEF CmpAddSubKey, HvGetCellType, NameOf
<1>2. Picked(h, choice, t, Name, K)
  BY PrepareFacts
<1>3. IsFiniteSet(K) /\ h.SubKeyCounts[t] = Cardinality(K)
  BY GoodCount
<1> HIDE DEF choice, K
<1>4. /\ Step(h, f, t) /\ f.SubKeyCounts = h.SubKeyCounts /\ f \in Hives
  BY <1>2, StepHives DEF Picked
<1>5. PICK C, S, i :
        /\ Chained(f, t, C, S) /\ Entries(S) = K
        /\ \A p \in DOMAIN S : p # i => S[p] # <<>>
        /\ Spot(S, i, Name) /\ Len(S[i]) < Limit(f.Cell[C[i]].Signature)
        /\ Rooted(f, f.SubKeyLists[t]) /\ t = "Stable" => f.SubKeyLists[t] \in f.Dirty
        /\ choice.Index = IF Rooted(f, f.SubKeyLists[t]) THEN i - 1 ELSE INVALID_INDEX
  BY <1>2 DEF Picked
<1>6. <<t, Name>> \notin Entries(S)
  BY <1>5 DEF K
<1>7. Entered(f, g, t, S, i, Name)
  <2>1. choice.hive = f
    OBVIOUS
  <2> HIDE DEF f
  <2>2. QED
    BY <1>4, <1>5, <1>6, <2>1, EnterFacts
<1> HIDE DEF f, g, key
<1>8. /\ Step(f, g, t) /\ g.SubKeyCounts[t] = f.SubKeyCounts[t] + 1 /\ Step(h, g, t)
  BY <1>4, <1>7, StepTransitive DEF Entered
<1>9. PICK C2, S2 : Chained(g, t, C2, S2) /\ Entries(S2) = K \cup {key} /\ NoneEmpty(S2)
  BY <1>5, <1>7 DEF Entered, key
<1>10. /\ Cardinality(K \cup {key}) = Cardinality(K) + 1 /\ Cardinality(K) \in Nat
  BY <1>3, FS_AddElement, FS_CardinalityType DEF K, key
<1>11. g.SubKeyCounts[t] = Cardinality(K \cup {key}) /\ g.SubKeyCounts[t] # 0
  BY <1>3, <1>4, <1>8, <1>10
<1>12. KeysOf(g, t) = K \cup {key}
  BY <1>9, ChainKeys
<1>13. Good(g, t)
  BY <1>9, <1>11 DEF Good
<1>14. QED
  BY <1>1, <1>8, <1>11, <1>12, <1>13 DEF Becomes, K, key

-----------------------------------------------------------------------------
(* Marking what leads to a subkey *)

\* Only marks have been added.
Marked(h, g) ==
  /\ g \in Hives /\ g.Version = h.Version /\ g.Cell = h.Cell
  /\ SameNode(h, g) /\ h.Dirty \subseteq g.Dirty

LEMMA MarkedFacts ==
  ASSUME NEW h \in Hives, NEW c \in DOMAIN h.Cell \cup {ParentKey}
  PROVE  /\ Marked(h, HvMarkCellDirty(h, c))
         /\ HvGetCellType(c) = "Stable" => c \in HvMarkCellDirty(h, c).Dirty
<1> DEFINE g == HvMarkCellDirty(h, c)
<1>1. /\ Step(h, g, "Stable") /\ SameNode(h, g) /\ g.Cell = h.Cell
      /\ HvGetCellType(c) = "Stable" => c \in g.Dirty
      /\ h.Dirty \subseteq g.Dirty
  BY MarkFacts
<1> HIDE DEF g
<1>2. Marked(h, g)
  BY <1>1 DEF Marked, Step
<1>3. QED
  BY <1>1, <1>2 DEF g

LEMMA MarkedStep ==
  ASSUME NEW h \in Hives, NEW g, NEW t, Marked(h, g)
  PROVE  Step(h, g, t)
<1>1. h.Dirty \subseteq g.Dirty /\ g.Cell = h.Cell /\ SameNode(h, g) /\ g \in Hives /\ g.Version = h.Version
  BY DEF Marked
<1>2. QED
  BY <1>1 DEF Step, SameNode

LEMMA MarkedTransitive ==
  ASSUME NEW h, NEW g, NEW k, Marked(h, g), Marked(g, k)
  PROVE  Marked(h, k)
BY DEF Marked, SameNode

LEMMA MarkedReflexive ==
  ASSUME NEW h \in Hives
  PROVE  Marked(h, h)
BY DEF Marked, SameNode

\* Marks change neither the index nor the searches.
LEMMA MarkedSame ==
  ASSUME NEW h, NEW g, NEW t, Marked(h, g)
  PROVE  /\ CellsOf(g, t) = CellsOf(h, t) /\ KeysOf(g, t) = KeysOf(h, t)
         /\ Good(h, t) => Good(g, t)
         /\ \A Name : LeafFor(g, t, Name) = LeafFor(h, t, Name)
         /\ g.SubKeyLists = h.SubKeyLists /\ g.SubKeyCounts = h.SubKeyCounts
<1>1. g.Cell = h.Cell /\ g.SubKeyLists = h.SubKeyLists /\ g.SubKeyCounts = h.SubKeyCounts
  BY DEF Marked, SameNode
<1>2. CellsOf(g, t) = CellsOf(h, t)
  BY <1>1 DEF CellsOf
<1>3. KeysOf(g, t) = KeysOf(h, t)
  <2>1. \A c : Rooted(g, c) <=> Rooted(h, c)
    BY <1>1 DEF Rooted
  <2>2. \A k : k \in KeysOf(g, t) <=> k \in KeysOf(h, t)
    BY <1>1, <1>2, <2>1, KeysOfFacts
  <2>3. QED
    BY <2>2
<1>4. \A C, S : Chained(h, t, C, S) => Chained(g, t, C, S)
  BY <1>1, SameChain
<1>5. Good(h, t) => Good(g, t)
  BY <1>1, <1>2, <1>4 DEF Good
<1>6. ASSUME NEW Name PROVE LeafFor(g, t, Name) = LeafFor(h, t, Name)
  <2>1. \A c : CmpFindSubKeyInRoot(g, c, Name) = CmpFindSubKeyInRoot(h, c, Name)
    BY <1>1 DEF CmpFindSubKeyInRoot
  <2>2. QED
    BY <1>1, <2>1 DEF LeafFor
<1>7. QED
  BY <1>1, <1>2, <1>3, <1>5, <1>6

\* The root and the leaf that lead to a name are dirty.
PathDirty(h, t, Name) ==
  t = "Stable" => h.SubKeyLists[t] \in h.Dirty /\ LeafFor(h, t, Name).SubKey \in h.Dirty

LEMMA MarkInStorageFacts ==
  ASSUME NEW h \in Hives, NEW t \in Storages, NEW Name \in Names, Good(h, t)
  PROVE  LET r == MarkInStorage(h, t, Name)
         IN  /\ Marked(h, r.hive)
             /\ r.Found <=> <<t, Name>> \in KeysOf(h, t)
             /\ r.Found \in BOOLEAN
             /\ r.Found => PathDirty(r.hive, t, Name)
<1> DEFINE r == MarkInStorage(h, t, Name)
           key == <<t, Name>>
<1>1. CASE h.SubKeyCounts[t] = 0
  <2>1. r = [Found |-> FALSE, hive |-> h]
    BY <1>1 DEF MarkInStorage
  <2>2. KeysOf(h, t) = {}
    BY <1>1, KeysOfFacts DEF Good
  <2>3. QED
    BY <2>1, <2>2, MarkedReflexive
<1>2. CASE h.SubKeyCounts[t] # 0
  <2>1. PICK C, S : Chained(h, t, C, S) /\ NoneEmpty(S)
    BY <1>2 DEF Good
  <2> DEFINE c == h.SubKeyLists[t]
             leaf == LeafFor(h, t, Name).SubKey
             i == LeafFor(h, t, Name).Index + 1
             h1 == IF leaf # HCELL_NIL /\ leaf # c THEN HvMarkCellDirty(h, c) ELSE h
             found == leaf # HCELL_NIL /\ CmpFindSubKeyInLeaf(h.Cell[leaf].List, Name).SubKey # HCELL_NIL
             h2 == IF found THEN HvMarkCellDirty(h1, leaf) ELSE h1
  <2>2. r.Found = found /\ r.hive = h2
    BY <1>2 DEF MarkInStorage
  <2>3. /\ i \in DOMAIN S /\ Spot(S, i, Name)
        /\ leaf = C[i] \/ (leaf = HCELL_NIL /\ key \notin Entries(S))
    BY <2>1, LeafForFacts
  <2>4. /\ C[i] # HCELL_NIL /\ C[i] \in CellsOf(h, t) /\ S[i] \in KeyLists(t)
        /\ h.Cell[C[i]].List = S[i] /\ S \in Pages(t) /\ c \in CellsOf(h, t)
    <3>1. h.Cell[C[i]].List = S[i] /\ S \in Pages(t) /\ c \in CellsOf(h, t)
      BY <2>1, <2>3 DEF Chained, Holds
    <3>2. QED
      BY <2>1, <2>3, <3>1, ChainFacts
  <2>5. \A d \in CellsOf(h, t) : d \in DOMAIN h.Cell /\ HvGetCellType(d) = t
    BY DEF CellsOf
  <2> HIDE DEF i, leaf, r, key
  <2>6. found <=> key \in KeysOf(h, t)
    <3>1. KeysOf(h, t) = Entries(S)
      BY <2>1, ChainKeys
    <3>2. CASE leaf = HCELL_NIL
      <4>1. ~found
        BY <3>2
      <4>2. QED
        BY <2>3, <2>4, <3>1, <3>2, <4>1
    <3>3. CASE leaf = C[i]
      <4>1. CmpFindSubKeyInLeaf(S[i], Name).SubKey = IF key \in Range(S[i]) THEN key ELSE HCELL_NIL
        BY <2>4, LeafFinds DEF key
      <4>2. key # HCELL_NIL
        BY StorageFacts DEF key, HCELL_NIL
      <4>3. found <=> key \in Range(S[i])
        BY <2>4, <3>3, <4>1, <4>2
      <4>4. key \in Entries(S) <=> key \in Range(S[i])
        BY <2>3, <2>4, SpotDecides DEF key
      <4>5. QED
        BY <3>1, <4>3, <4>4
    <3>4. QED
      BY <2>3, <3>2, <3>3
  <2>7. Marked(h, h1) /\ (t = "Stable" /\ leaf # HCELL_NIL /\ leaf # c => c \in h1.Dirty)
    <3>1. Marked(h, HvMarkCellDirty(h, c)) /\ (t = "Stable" => c \in HvMarkCellDirty(h, c).Dirty)
      BY <2>4, <2>5, MarkedFacts
    <3>2. QED
      BY <3>1, MarkedReflexive
  <2> HIDE DEF h1
  <2>8. Marked(h, h2) /\ (found => PathDirty(h2, t, Name))
    <3>1. CASE ~found
      BY <2>7, <3>1
    <3>2. CASE found
      <4>1. leaf = C[i] /\ leaf # HCELL_NIL
        BY <2>3, <3>2
      <4>2. h1 \in Hives /\ h1.Cell = h.Cell
        BY <2>7 DEF Marked
      <4>3. leaf \in DOMAIN h1.Cell /\ HvGetCellType(leaf) = t
        BY <2>4, <2>5, <4>1, <4>2
      <4> DEFINE m == HvMarkCellDirty(h1, leaf)
      <4>4. Marked(h1, m) /\ (t = "Stable" => leaf \in m.Dirty)
        BY <4>2, <4>3, MarkedFacts
      <4>5. h2 = m
        BY <3>2
      <4> HIDE DEF m, found, h2
      <4>6. Marked(h, m)
        BY <2>7, <4>4, MarkedTransitive
      <4>7. m.SubKeyLists[t] = c /\ LeafFor(m, t, Name).SubKey = leaf
        BY <4>6, MarkedSame DEF leaf
      <4>8. t = "Stable" => c \in m.Dirty
        BY <2>7, <4>1, <4>4 DEF Marked
      <4>9. QED
        BY <4>4, <4>5, <4>6, <4>7, <4>8 DEF PathDirty
    <3>3. QED
      BY <3>1, <3>2
  <2>9. QED
    BY <2>2, <2>6, <2>8 DEF r, key
<1>3. QED
  BY <1>1, <1>2

\* Before a subkey that a search finds is removed, all that leads to it is marked.
LEMMA MarkKeyFacts ==
  ASSUME NEW h \in Hives, NEW Name \in Names, \A u \in Storages : Good(h, u),
         NEW t \in Storages, CmpFindSubKeyByName(h, Name) = <<t, Name>>
  PROVE  /\ Marked(h, CmpMarkKeyDirty(h, <<t, Name>>))
         /\ PathDirty(CmpMarkKeyDirty(h, <<t, Name>>), t, Name)
         /\ ParentKey \in CmpMarkKeyDirty(h, <<t, Name>>).Dirty
         /\ <<t, Name>> \in KeysOf(h, t)
<1> DEFINE s == MarkInStorage(h, "Stable", Name)
           v == MarkInStorage(s.hive, "Volatile", Name)
           r == CmpMarkIndexDirty(h, Name)
           g == CmpMarkKeyDirty(h, <<t, Name>>)
<1>1. "Stable" \in Storages /\ "Volatile" \in Storages /\ (t = "Stable" \/ t = "Volatile")
  BY StorageFacts
<1>2. r = IF s.Found THEN s ELSE v
  BY StorageFacts DEF CmpMarkIndexDirty
<1>3. g = IF r.Found THEN HvMarkCellDirty(r.hive, ParentKey) ELSE r.hive
  BY DEF CmpMarkKeyDirty, NameOf
<1>4. /\ Marked(h, s.hive) /\ s.Found \in BOOLEAN
      /\ s.Found <=> <<"Stable", Name>> \in KeysOf(h, "Stable")
      /\ s.Found => PathDirty(s.hive, "Stable", Name)
  BY <1>1, MarkInStorageFacts
<1>5. s.hive \in Hives /\ Good(s.hive, "Volatile") /\ KeysOf(s.hive, "Volatile") = KeysOf(h, "Volatile")
  BY <1>1, <1>4, MarkedSame DEF Marked
<1>6. /\ Marked(s.hive, v.hive) /\ v.Found \in BOOLEAN
      /\ v.Found <=> <<"Volatile", Name>> \in KeysOf(h, "Volatile")
      /\ v.Found => PathDirty(v.hive, "Volatile", Name)
  BY <1>1, <1>5, MarkInStorageFacts
<1>7. /\ FindInStorage(h, "Stable", Name) =
           IF <<"Stable", Name>> \in KeysOf(h, "Stable") THEN <<"Stable", Name>> ELSE HCELL_NIL
      /\ FindInStorage(h, "Volatile", Name) =
           IF <<"Volatile", Name>> \in KeysOf(h, "Volatile") THEN <<"Volatile", Name>> ELSE HCELL_NIL
  BY <1>1, FindFacts
<1>8. CmpFindSubKeyByName(h, Name) =
        IF FindInStorage(h, "Stable", Name) # HCELL_NIL THEN FindInStorage(h, "Stable", Name)
        ELSE FindInStorage(h, "Volatile", Name)
  BY StorageFacts DEF CmpFindSubKeyByName
<1>9. <<t, Name>> # HCELL_NIL /\ <<"Stable", Name>> # HCELL_NIL /\ <<"Volatile", Name>> # HCELL_NIL
  BY <1>1 DEF HCELL_NIL
<1>10. /\ t = "Stable" => s.Found /\ <<t, Name>> \in KeysOf(h, t)
       /\ t = "Volatile" => ~s.Found /\ v.Found /\ <<t, Name>> \in KeysOf(h, t)
  <2>1. CASE s.Found
    <3>1. CmpFindSubKeyByName(h, Name) = <<"Stable", Name>>
      BY <1>4, <1>7, <1>8, <1>9, <2>1
    <3>2. t = "Stable"
      BY <3>1
    <3>3. QED
      BY <1>4, <2>1, <3>2
  <2>2. CASE ~s.Found
    <3>1. CmpFindSubKeyByName(h, Name) =
            IF <<"Volatile", Name>> \in KeysOf(h, "Volatile") THEN <<"Volatile", Name>> ELSE HCELL_NIL
      BY <1>4, <1>7, <1>8, <2>2
    <3>2. <<"Volatile", Name>> \in KeysOf(h, "Volatile") /\ t = "Volatile"
      BY <1>9, <3>1
    <3>3. QED
      BY <1>6, <2>2, <3>2
  <2>3. QED
    BY <2>1, <2>2
<1> HIDE DEF s, v, r
<1>11. /\ r.Found /\ Marked(h, r.hive) /\ PathDirty(r.hive, t, Name)
       /\ <<t, Name>> \in KeysOf(h, t)
  <2>1. CASE t = "Stable"
    BY <1>2, <1>4, <1>10, <2>1
  <2>2. CASE t = "Volatile"
    <3>1. Marked(h, v.hive)
      BY <1>4, <1>6, MarkedTransitive
    <3>2. QED
      BY <1>2, <1>6, <1>10, <2>2, <3>1
  <2>3. QED
    BY <1>1, <2>1, <2>2
<1> DEFINE m == HvMarkCellDirty(r.hive, ParentKey)
<1>12. Marked(r.hive, m) /\ ParentKey \in m.Dirty
  <2>1. r.hive \in Hives /\ HvGetCellType(ParentKey) = "Stable"
    BY <1>11 DEF Marked, HvGetCellType, ParentKey
  <2>2. QED
    BY <2>1, MarkedFacts
<1>13. g = m
  BY <1>3, <1>11
<1> HIDE DEF m, g
<1>14. Marked(h, m)
  BY <1>11, <1>12, MarkedTransitive
<1>15. PathDirty(m, t, Name)
  BY <1>11, <1>12, MarkedSame DEF PathDirty, Marked
<1>16. QED
  BY <1>11, <1>12, <1>13, <1>14, <1>15 DEF g

-----------------------------------------------------------------------------
(* Removing a subkey *)

LEMMA RemovedChain ==
  ASSUME NEW X, NEW C \in Seq(X), IsInjective(C), NEW i \in DOMAIN C
  PROVE  /\ RemoveAt(C, i) \in Seq(X) /\ Len(RemoveAt(C, i)) = Len(C) - 1
         /\ IsInjective(RemoveAt(C, i))
         /\ Range(RemoveAt(C, i)) = Range(C) \ {C[i]}
         /\ \A j \in 1 .. Len(C) - 1 : RemoveAt(C, i)[j] = IF j < i THEN C[j] ELSE C[j + 1]
<1> DEFINE D == RemoveAt(C, i)
           at(j) == IF j < i THEN j ELSE j + 1
           n == Len(C)
<1>1. /\ D \in Seq(X) /\ Len(D) = n - 1
      /\ \A j \in 1 .. n - 1 : D[j] = IF j < i THEN C[j] ELSE C[j + 1]
  BY RemoveAtFacts
<1>2. n \in Nat /\ DOMAIN C = 1 .. n /\ i \in 1 .. n
  BY LenProperties
<1> HIDE DEF D
<1>3. DOMAIN D = 1 .. n - 1
  BY <1>1, LenProperties
<1> HIDE DEF n
<1>4. \A j \in DOMAIN D : at(j) \in DOMAIN C \ {i} /\ D[j] = C[at(j)]
  BY <1>1, <1>2, <1>3
<1>5. \A j, k \in DOMAIN D : at(j) = at(k) => j = k
  BY <1>2, <1>3
<1>6. \A p \in DOMAIN C \ {i} : \E j \in DOMAIN D : at(j) = p
  <2> SUFFICES ASSUME NEW p \in DOMAIN C \ {i} PROVE \E j \in DOMAIN D : at(j) = p
    OBVIOUS
  <2>1. CASE p < i
    <3>1. p \in DOMAIN D /\ at(p) = p
      BY <1>2, <1>3, <2>1
    <3>2. QED
      BY <3>1
  <2>2. CASE p > i
    <3>1. p - 1 \in DOMAIN D /\ at(p - 1) = p
      BY <1>2, <1>3, <2>2
    <3>2. QED
      BY <3>1
  <2>3. QED
    BY <1>2, <2>1, <2>2
<1> HIDE DEF at
<1>7. IsInjective(D)
  <2>1. \A p, q \in DOMAIN C : C[p] = C[q] => p = q
    BY DEF IsInjective
  <2>2. QED
    BY <1>4, <1>5, <2>1 DEF IsInjective
<1>8. Range(D) = Range(C) \ {C[i]}
  <2>1. ASSUME NEW x \in Range(D) PROVE x \in Range(C) \ {C[i]}
    <3>1. PICK j \in DOMAIN D : x = D[j]
      BY DEF Range
    <3>2. at(j) \in DOMAIN C /\ at(j) # i /\ x = C[at(j)]
      BY <1>4, <3>1
    <3>3. QED
      BY <3>2 DEF Range, IsInjective
  <2>2. ASSUME NEW x \in Range(C) \ {C[i]} PROVE x \in Range(D)
    <3>1. PICK p \in DOMAIN C : x = C[p]
      BY <2>2 DEF Range
    <3>2. p \in DOMAIN C \ {i}
      BY <2>2, <3>1
    <3>3. PICK j \in DOMAIN D : at(j) = p
      BY <1>6, <3>2
    <3>4. D[j] = x
      BY <1>4, <3>1, <3>3
    <3>5. QED
      BY <3>4 DEF Range
  <2>3. QED
    BY <2>1, <2>2
<1>9. QED
  BY <1>1, <1>7, <1>8 DEF D, n

\* An index whose pages have entries is a good one.
LEMMA GoodChain ==
  ASSUME NEW g, NEW t \in Storages, NEW C, NEW S, Chained(g, t, C, S), NoneEmpty(S),
         g.SubKeyCounts[t] = Cardinality(Entries(S))
  PROVE  Good(g, t) /\ KeysOf(g, t) = Entries(S)
<1>1. S \in Pages(t) /\ Len(S) \in Nat \ {0} /\ DOMAIN S = 1 .. Len(S)
      /\ \A i \in DOMAIN S : S[i] \in KeyLists(t)
  BY ChainFacts DEF Chained
<1>2. 1 \in DOMAIN S /\ S[1] # <<>> /\ S[1] \in Seq({t} \X Names)
  BY <1>1 DEF NoneEmpty, KeyLists
<1>3. 1 \in DOMAIN S[1]
  <2>1. Len(S[1]) # 0 /\ Len(S[1]) \in Nat /\ DOMAIN S[1] = 1 .. Len(S[1])
    BY <1>2, EmptySeq, LenProperties
  <2>2. QED
    BY <2>1
<1>4. S[1][1] \in Entries(S)
  BY <1>2, <1>3, OthersFacts DEF Range
<1>5. Cardinality(Entries(S)) # 0
  BY <1>1, <1>4, EntriesFinite, FS_EmptySet
<1>6. QED
  BY <1>5, ChainKeys DEF Good

\* A shorter list is written to a leaf.
LEMMA ShortenFacts ==
  ASSUME NEW h \in Hives, NEW t \in Storages, NEW C, NEW S, Chained(h, t, C, S),
         NEW i \in DOMAIN S, NEW M \in KeyLists(t), Len(M) <= Len(S[i]), Put(S, i, M) \in Pages(t),
         t = "Stable" => C[i] \in h.Dirty
  PROVE  /\ Step(h, PutList(h, C[i], M), t) /\ SameNode(h, PutList(h, C[i], M))
         /\ Chained(PutList(h, C[i], M), t, C, Put(S, i, M))
<1> DEFINE g == PutList(h, C[i], M)
           T == Put(S, i, M)
<1>1. /\ Len(S) \in Nat \ {0} /\ DOMAIN S = 1 .. Len(S) /\ DOMAIN C = DOMAIN S
      /\ \A p \in DOMAIN S : /\ S[p] \in KeyLists(t) /\ C[p] \in CellsOf(h, t)
                             /\ ~Rooted(h, C[p])
  BY ChainFacts
<1>2. /\ S \in Pages(t) /\ h.SubKeyLists[t] \in CellsOf(h, t)
      /\ C \in Seq(Ids(t)) /\ Len(C) = Len(S) /\ IsInjective(C)
      /\ \A p \in DOMAIN S : Holds(h, C[p], S[p])
  BY DEF Chained
<1>3. /\ C[i] \in DOMAIN h.Cell /\ HvGetCellType(C[i]) = t /\ M \in Seq(Items)
      /\ h.Cell[C[i]].List = S[i] /\ Len(S[i]) <= Limit(h.Cell[C[i]].Signature)
  BY <1>1, <1>2, KeysAreItems DEF CellsOf, Holds
<1>4. Len(M) \in Nat /\ Len(S[i]) \in Nat
  BY <1>1, KeysAreItems
<1>5. Len(M) <= Capacity(h.Cell[C[i]])
  <2>1. h.Cell[C[i]] \in Indexes /\ Fits(h.Cell[C[i]])
    BY <1>3, HiveFacts
  <2>2. Capacity(h.Cell[C[i]]) \in Int /\ Len(S[i]) <= Capacity(h.Cell[C[i]])
    BY <1>3, <2>1, CapacityType DEF Fits
  <2>3. QED
    BY <1>4, <2>2
<1> DEFINE c == C[i]
<1>6. /\ Step(h, g, t) /\ SameNode(h, g) /\ DOMAIN g.Cell = DOMAIN h.Cell
      /\ g.Cell[c].Signature = h.Cell[c].Signature /\ g.Cell[c].List = M
      /\ \A d \in DOMAIN h.Cell \ {c} : g.Cell[d] = h.Cell[d]
  <2>1. c \in DOMAIN h.Cell /\ HvGetCellType(c) = t /\ (t = "Stable" => c \in h.Dirty)
        /\ M \in Seq(Items) /\ Len(M) <= Capacity(h.Cell[c])
    BY <1>3, <1>5
  <2> HIDE DEF c
  <2>2. QED
    BY <2>1, PutListFacts DEF c
<1> HIDE DEF g
<1>7. Len(M) <= Limit(h.Cell[c].Signature)
  <2>1. Limit(h.Cell[c].Signature) \in Nat
    BY LimitsAssumption DEF Limit
  <2>2. QED
    BY <1>3, <1>4, <2>1
<1>8. DOMAIN T = DOMAIN S /\ \A p \in DOMAIN S : T[p] = IF p = i THEN M ELSE S[p]
  BY DEF Put
<1>9. T # <<>> /\ Len(T) = Len(S) /\ T \in Pages(t)
  <2>1. DOMAIN T = 1 .. Len(T) /\ Len(T) \in Nat /\ T \in Pages(t)
    BY PageFacts
  <2> HIDE DEF T
  <2>2. Len(T) = Len(S)
    BY <1>1, <1>8, <2>1
  <2>3. QED
    BY <1>1, <2>1, <2>2
<1> HIDE DEF T
<1>10. ASSUME NEW p \in DOMAIN S
       PROVE  Holds(g, C[p], T[p]) /\ g.Cell[C[p]].Signature = h.Cell[C[p]].Signature
  <2>1. CASE p = i
    BY <1>2, <1>6, <1>7, <1>8, <2>1 DEF Holds
  <2>2. CASE p # i
    <3>1. C[p] # c /\ C[p] \in DOMAIN h.Cell
      BY <1>1, <1>2, <2>2 DEF IsInjective, CellsOf
    <3>2. QED
      BY <1>2, <1>6, <1>8, <2>2, <3>1 DEF Holds
  <2>3. QED
    BY <2>1, <2>2
<1>11. CellsOf(g, t) = CellsOf(h, t) /\ g.SubKeyLists = h.SubKeyLists
  BY <1>6 DEF CellsOf, SameNode
<1> DEFINE root == h.SubKeyLists[t]
<1>12. Rooted(h, root) => g.Cell[root] = h.Cell[root]
  BY <1>1, <1>2, <1>6 DEF CellsOf
<1>13. Rooted(g, root) <=> Rooted(h, root)
  <2>1. CASE root = c
    BY <1>6, <2>1 DEF Rooted
  <2>2. CASE root # c
    BY <1>2, <1>6, <2>2 DEF Rooted, CellsOf
  <2>3. QED
    BY <2>1, <2>2
<1>14. \/ /\ Rooted(h, root) /\ h.Cell[root].List = C
          /\ CellsOf(h, t) = Range(C) \cup {root}
          /\ \A p \in DOMAIN S : h.Cell[C[p]].Signature # CM_KEY_FAST_LEAF
       \/ ~Rooted(h, root) /\ C = <<root>> /\ CellsOf(h, t) = {root}
  BY DEF Chained
<1> HIDE DEF root
<1>15. \/ /\ Rooted(g, root) /\ g.Cell[root].List = C
          /\ CellsOf(g, t) = Range(C) \cup {root}
          /\ \A p \in DOMAIN S : g.Cell[C[p]].Signature # CM_KEY_FAST_LEAF
       \/ ~Rooted(g, root) /\ C = <<root>> /\ CellsOf(g, t) = {root}
  BY <1>10, <1>11, <1>12, <1>13, <1>14
<1>16. Chained(g, t, C, T)
  <2>1. g.SubKeyLists[t] = root
    BY <1>11 DEF root
  <2>2. root \in CellsOf(g, t)
    BY <1>2, <1>11 DEF root
  <2>3. \A p \in DOMAIN T : Holds(g, C[p], T[p])
    BY <1>8, <1>10
  <2>4. DOMAIN T = DOMAIN S /\ Len(C) = Len(T)
    BY <1>2, <1>8, <1>9
  <2>5. QED
    BY <1>2, <1>9, <1>15, <2>1, <2>2, <2>3, <2>4 DEF Chained
<1>17. QED
  BY <1>6, <1>16 DEF g, T

\* A leaf is freed, and taken out of the root.
LEMMA DropFacts ==
  ASSUME NEW h \in Hives, NEW t \in Storages, NEW C, NEW S, Chained(h, t, C, S),
         Rooted(h, h.SubKeyLists[t]), NEW i \in DOMAIN S, Len(S) > 1,
         t = "Stable" => h.SubKeyLists[t] \in h.Dirty
  PROVE  LET g == PutList(HvFreeCell(h, C[i]), h.SubKeyLists[t], RemoveAt(C, i))
         IN  /\ Step(h, g, t) /\ SameNode(h, g)
             /\ Chained(g, t, RemoveAt(C, i), RemoveAt(S, i))
<1> DEFINE root == h.SubKeyLists[t]
           leaf == C[i]
           D == RemoveAt(C, i)
           T == RemoveAt(S, i)
           k == HvFreeCell(h, leaf)
           g == PutList(k, root, D)
           n == Len(S)
           X == Ids(t)
           at(j) == IF j < i THEN j ELSE j + 1
<1>1. /\ n \in Nat \ {0} /\ DOMAIN S = 1 .. n /\ DOMAIN C = DOMAIN S
      /\ \A p \in DOMAIN S : C[p] \in X /\ C[p] \in CellsOf(h, t) /\ ~Rooted(h, C[p])
  BY ChainFacts
<1>2. /\ S \in Pages(t) /\ root \in CellsOf(h, t) /\ h.Cell[root].List = C
      /\ CellsOf(h, t) = Range(C) \cup {root} /\ C \in Seq(X) /\ Len(C) = n /\ IsInjective(C)
      /\ \A p \in DOMAIN S : h.Cell[C[p]].Signature # CM_KEY_FAST_LEAF /\ Holds(h, C[p], S[p])
  BY DEF Chained
<1>3. root # leaf /\ root \notin Range(C) /\ leaf \in Range(C)
      /\ leaf \in DOMAIN h.Cell /\ root \in DOMAIN h.Cell /\ HvGetCellType(leaf) = t /\ HvGetCellType(root) = t
  BY <1>1, <1>2 DEF Range, CellsOf
<1>4. /\ D \in Seq(X) /\ Len(D) = n - 1 /\ IsInjective(D) /\ Range(D) = Range(C) \ {leaf}
      /\ \A j \in 1 .. n - 1 : D[j] = IF j < i THEN C[j] ELSE C[j + 1]
  <2>1. i \in DOMAIN C
    BY <1>1
  <2> HIDE DEF X
  <2>2. QED
    BY <1>2, <2>1, RemovedChain
<1>5. /\ T \in Pages(t) /\ T \in Seq(KeyLists(t)) /\ Len(T) = n - 1
      /\ \A j \in 1 .. n - 1 : T[j] = IF j < i THEN S[j] ELSE S[j + 1]
  <2>1. S \in Seq(KeyLists(t))
    BY <1>2 DEF Pages
  <2> DEFINE Y == KeyLists(t)
  <2>2. S \in Seq(Y)
    BY <2>1
  <2> HIDE DEF Y
  <2>3. /\ T \in Seq(Y) /\ Len(T) = n - 1
        /\ \A j \in 1 .. n - 1 : T[j] = IF j < i THEN S[j] ELSE S[j + 1]
    BY <2>2, RemoveAtFacts
  <2>4. T \in Pages(t)
    BY <1>2, PagesDropped
  <2>5. QED
    BY <2>3, <2>4 DEF Y
<1> HIDE DEF root, leaf, D, T, n
<1>6. /\ Step(h, k, t) /\ k \in Hives /\ SameNode(h, k) /\ DOMAIN k.Cell = DOMAIN h.Cell \ {leaf}
      /\ \A d \in DOMAIN h.Cell \ {leaf} : k.Cell[d] = h.Cell[d]
      /\ k.Dirty = h.Dirty \ {leaf}
  BY <1>3, FreeFacts, StepHives
<1> HIDE DEF k
<1>7. D \in Seq(Items) /\ Len(D) <= Capacity(k.Cell[root])
  <2>1. X \subseteq Items
    BY DEF Items, Ids, Numbers
  <2>2. D \in Seq(Items)
    BY <1>4, <2>1
  <2>3. k.Cell[root] = h.Cell[root] /\ h.Cell[root] \in Indexes /\ Fits(h.Cell[root])
    BY <1>3, <1>6, HiveFacts
  <2>4. Capacity(h.Cell[root]) \in Int /\ n <= Capacity(h.Cell[root])
    BY <1>2, <2>3, CapacityType DEF Fits
  <2>5. QED
    BY <1>1, <1>4, <2>2, <2>3, <2>4
<1>8. /\ Step(k, g, t) /\ g \in Hives /\ SameNode(k, g) /\ DOMAIN g.Cell = DOMAIN k.Cell
      /\ g.Cell[root].Signature = k.Cell[root].Signature /\ g.Cell[root].List = D
      /\ \A d \in DOMAIN k.Cell \ {root} : g.Cell[d] = k.Cell[d]
  <2>1. root \in DOMAIN k.Cell
    BY <1>3, <1>6
  <2>2. t = "Stable" => root \in k.Dirty
    BY <1>3, <1>6 DEF root
  <2>3. QED
    BY <1>3, <1>6, <1>7, <2>1, <2>2, PutListFacts, StepHives
<1> HIDE DEF g
<1>9. Step(h, g, t) /\ SameNode(h, g)
  BY <1>6, <1>8, StepTransitive DEF SameNode
<1>10. CellsOf(g, t) = Range(D) \cup {root}
  <2>1. CellsOf(g, t) = CellsOf(h, t) \ {leaf}
    BY <1>6, <1>8 DEF CellsOf
  <2>2. QED
    BY <1>2, <1>3, <1>4, <2>1
<1>11. Rooted(g, root) /\ g.SubKeyLists[t] = root
  <2>1. Rooted(h, root) /\ h.SubKeyLists[t] = root
    BY DEF root
  <2>2. g.Cell[root].Signature = h.Cell[root].Signature
    BY <1>3, <1>6, <1>8
  <2>3. QED
    BY <1>9, <2>1, <2>2 DEF Rooted, SameNode
<1>12. ASSUME NEW p \in DOMAIN S \ {i}
       PROVE  Holds(g, C[p], S[p]) /\ g.Cell[C[p]].Signature # CM_KEY_FAST_LEAF
  <2>1. C[p] # leaf /\ C[p] # root /\ C[p] \in DOMAIN h.Cell
    BY <1>1, <1>2, <1>3 DEF IsInjective, Range, CellsOf, leaf
  <2>2. C[p] \in DOMAIN g.Cell /\ g.Cell[C[p]] = h.Cell[C[p]]
    BY <1>6, <1>8, <2>1
  <2>3. QED
    BY <1>2, <2>2 DEF Holds
<1>13. DOMAIN T = 1 .. n - 1
  BY <1>5, PageFacts
<1>14. ASSUME NEW j \in DOMAIN T
       PROVE  Holds(g, D[j], T[j]) /\ g.Cell[D[j]].Signature # CM_KEY_FAST_LEAF
  <2>1. j \in 1 .. n - 1
    BY <1>13
  <2>2. at(j) \in DOMAIN S \ {i} /\ (at(j) = j \/ at(j) = j + 1)
    BY <1>1, <2>1
  <2>3. D[j] = C[at(j)] /\ T[j] = S[at(j)]
    BY <1>4, <1>5, <2>1
  <2> HIDE DEF at
  <2>4. QED
    BY <1>12, <2>2, <2>3
<1>15. T # <<>> /\ Len(D) = Len(T)
  <2>1. Len(S) = n
    BY DEF n
  <2>2. n - 1 # 0
    BY <1>1, <2>1
  <2>3. Len(T) # 0
    BY <1>5, <2>2
  <2>4. T # <<>>
    BY <1>5, <2>3, EmptySeq
  <2>5. Len(D) = Len(T)
    BY <1>4, <1>5
  <2>6. QED
    BY <2>4, <2>5
<1>16. Chained(g, t, D, T)
  <2>1. root \in CellsOf(g, t)
    BY <1>10
  <2>2. QED
    BY <1>4, <1>5, <1>8, <1>10, <1>11, <1>14, <1>15, <2>1 DEF Chained
<1>17. QED
  BY <1>9, <1>16 DEF g, k, D, T, root, leaf

\* The entry that the search in the leaf yields is that of the key.
LEMMA EntryFound ==
  ASSUME NEW t \in Storages, NEW L \in KeyLists(t), NEW Name \in Names, <<t, Name>> \in Range(L)
  PROVE  LET j == CmpFindSubKeyInLeaf(L, Name).Index + 1
         IN  j \in DOMAIN L /\ L[j] = <<t, Name>>
<1> DEFINE r == CmpFindSubKeyInLeaf(L, Name)
<1>1. L # <<>> /\ L \in Seq({t} \X Names)
  BY DEF Range, KeyLists
<1>2. r.SubKey = <<t, Name>>
  BY LeafFinds
<1>3. /\ r.Index \in 0 .. Len(L) - 1
      /\ r.SubKey = IF NameOf(L[r.Index + 1]) = Name THEN L[r.Index + 1] ELSE HCELL_NIL
  BY <1>1, LeafSearch
<1>4. <<t, Name>> # HCELL_NIL
  BY StorageFacts DEF HCELL_NIL
<1>5. Len(L) \in Nat /\ DOMAIN L = 1 .. Len(L)
  BY <1>1, LenProperties
<1> HIDE DEF r
<1>6. L[r.Index + 1] = <<t, Name>>
  BY <1>2, <1>3, <1>4
<1> DEFINE x == r.Index
<1>7. x \in 0 .. Len(L) - 1
  BY <1>3
<1> HIDE DEF x
<1>8. x + 1 \in DOMAIN L
  BY <1>5, <1>7
<1>9. QED
  BY <1>6, <1>8 DEF x, r

\* What is left when the last subkey of a storage type goes.
LEMMA EmptiedFacts ==
  ASSUME NEW h \in Hives, NEW t \in Storages, NEW g, Step(h, g, t),
         CellsOf(g, t) = {}, g.SubKeyCounts[t] = 0
  PROVE  Becomes(h, WithList(g, t, HCELL_NIL), t, {})
<1> DEFINE k == WithList(g, t, HCELL_NIL)
<1>1. g \in Hives /\ HCELL_NIL \in Places
  BY DEF Step, Places
<1>2. Step(g, k, t) /\ k.Cell = g.Cell /\ k.SubKeyCounts = g.SubKeyCounts
  BY <1>1, ListFacts
<1> HIDE DEF k
<1>3. Step(h, k, t)
  BY <1>2, StepTransitive
<1>4. CellsOf(k, t) = {}
  BY <1>2 DEF CellsOf
<1>5. KeysOf(k, t) = {}
  BY <1>4, KeysOfFacts
<1>6. Good(k, t) /\ k.SubKeyCounts[t] = Cardinality({})
  BY <1>2, <1>4, FS_EmptySet DEF Good
<1>7. QED
  BY <1>3, <1>5, <1>6 DEF Becomes, k

LEMMA RemoveFacts ==
  ASSUME NEW h \in Hives, NEW t \in Storages, NEW Name \in Names, Good(h, t),
         <<t, Name>> \in KeysOf(h, t), PathDirty(h, t, Name)
  PROVE  Becomes(h, CmpRemoveSubKey(h, <<t, Name>>), t, KeysOf(h, t) \ {<<t, Name>>})
<1> DEFINE key == <<t, Name>>
           K == KeysOf(h, t)
           c == h.SubKeyLists[t]
           h1 == WithCount(h, t, h.SubKeyCounts[t] - 1)
           at == LeafFor(h, t, Name)
           leaf == at.SubKey
           i == at.Index + 1
<1>1. /\ IsFiniteSet(K) /\ h.SubKeyCounts[t] = Cardinality(K) /\ Cardinality(K) \in Nat
      /\ Cardinality(K) # 0
  <2>1. IsFiniteSet(K) /\ h.SubKeyCounts[t] = Cardinality(K)
    BY GoodCount
  <2>2. Cardinality(K) = 0 => K = {}
    BY <2>1, FS_EmptySet
  <2>3. QED
    BY <2>1, <2>2, FS_CardinalityType
<1>2. PICK C, S : Chained(h, t, C, S) /\ NoneEmpty(S)
  BY <1>1 DEF Good
<1>3. K = Entries(S)
  BY <1>2, ChainKeys
<1>4. /\ i \in DOMAIN S /\ Spot(S, i, Name) /\ leaf = C[i]
  BY <1>2, <1>3, LeafForFacts
<1>5. /\ S \in Pages(t) /\ c \in CellsOf(h, t) /\ Holds(h, C[i], S[i]) /\ h.Cell[C[i]].List = S[i]
      /\ Len(C) = Len(S)
      /\ Rooted(h, c) => h.Cell[c].List = C /\ CellsOf(h, t) = Range(C) \cup {c}
      /\ ~Rooted(h, c) => C = <<c>> /\ CellsOf(h, t) = {c}
  BY <1>2, <1>4 DEF Chained, Holds
<1>6. /\ Len(S) \in Nat \ {0} /\ DOMAIN S = 1 .. Len(S) /\ DOMAIN C = DOMAIN S
      /\ S[i] \in KeyLists(t) /\ C[i] \in CellsOf(h, t) /\ ~Rooted(h, C[i])
      /\ ~Rooted(h, c) => Len(S) = 1
  BY <1>2, <1>4, ChainFacts
<1>7. key \in Range(S[i])
  BY <1>3, <1>4, <1>5, SpotDecides
<1> DEFINE j == CmpFindSubKeyInLeaf(S[i], Name).Index + 1
<1>8. j \in DOMAIN S[i] /\ S[i][j] = key
  BY <1>6, <1>7, EntryFound
<1>9. /\ Step(h, h1, t) /\ h1 \in Hives /\ h1.Cell = h.Cell /\ h1.Dirty = h.Dirty
      /\ h1.SubKeyLists = h.SubKeyLists
      /\ h1.SubKeyCounts[t] = Cardinality(K) - 1 /\ Cardinality(K \ {key}) = Cardinality(K) - 1
  <2>1. h.SubKeyCounts[t] - 1 \in Nat
    BY <1>1
  <2>2. Cardinality(K \ {key}) = Cardinality(K) - 1
    BY <1>1, FS_RemoveElement
  <2>3. QED
    BY <1>1, <2>1, <2>2, CountFacts, StepHives
<1>10. CmpRemoveSubKey(h, key) =
         IF Len(S[i]) > 1 THEN PutList(h1, leaf, RemoveAt(S[i], j))
         ELSE IF Rooted(h, c) /\ Len(h.Cell[c].List) > 1
         THEN PutList(HvFreeCell(h1, leaf), c, RemoveAt(h.Cell[c].List, i))
         ELSE WithList(IF Rooted(h, c) THEN HvFreeCell(HvFreeCell(h1, leaf), c) ELSE HvFreeCell(h1, leaf),
                       t, HCELL_NIL)
  <2>1. h.Cell[leaf].List = S[i]
    BY <1>4, <1>5
  <2>2. CmpRemoveSubKey(h, key) =
         IF Len(h.Cell[leaf].List) > 1
         THEN PutList(h1, leaf, RemoveAt(h.Cell[leaf].List,
                                         CmpFindSubKeyInLeaf(h.Cell[leaf].List, Name).Index + 1))
         ELSE IF Rooted(h, c) /\ Len(h.Cell[c].List) > 1
         THEN PutList(HvFreeCell(h1, leaf), c, RemoveAt(h.Cell[c].List, i))
         ELSE WithList(IF Rooted(h, c) THEN HvFreeCell(HvFreeCell(h1, leaf), c) ELSE HvFreeCell(h1, leaf),
                       t, HCELL_NIL)
    BY DEF CmpRemoveSubKey, HvGetCellType, NameOf, Rooted, WithCount, WithList
  <2> HIDE DEF leaf, h1, i
  <2>3. QED
    BY <2>1, <2>2
<1>11. \A C2, S2 : Chained(h, t, C2, S2) => Chained(h1, t, C2, S2) /\ (Rooted(h1, c) <=> Rooted(h, c))
  BY <1>9, SameChain
<1>12. t = "Stable" => c \in h1.Dirty /\ C[i] \in h1.Dirty
  BY <1>4, <1>9 DEF PathDirty
<1>13. Chained(h1, t, C, S) /\ (Rooted(h1, c) <=> Rooted(h, c)) /\ h1.SubKeyLists[t] = c
  BY <1>2, <1>9, <1>11
<1> HIDE DEF h1, leaf, i, j, K, key, at
<1>14. Len(S[i]) \in Nat /\ Len(S[i]) # 0
  <2>1. Len(S[i]) \in Nat /\ S[i] \in Seq({t} \X Names)
    BY <1>6, KeysAreItems DEF KeyLists
  <2>2. DOMAIN S[i] = 1 .. Len(S[i])
    BY <2>1, LenProperties
  <2>3. QED
    BY <1>8, <2>1, <2>2
<1>15. CASE Len(S[i]) > 1
  <2> DEFINE M == RemoveAt(S[i], j)
             T == Put(S, i, M)
             g == PutList(h1, C[i], M)
  <2>1. T \in Pages(t) /\ Entries(T) = K \ {key}
    BY <1>3, <1>4, <1>5, <1>8, PagesTaken
  <2>2. M \in KeyLists(t) /\ Len(M) = Len(S[i]) - 1
    BY <1>6, <1>8, ListTaken
  <2> HIDE DEF M
  <2> DEFINE n == Len(S[i])
             l == Len(M)
  <2>3. l <= n /\ l # 0
    <3>1. n \in Nat /\ n > 1 /\ l = n - 1
      BY <1>14, <1>15, <2>2
    <3> HIDE DEF l, n
    <3>2. QED
      BY <3>1
  <2>4. Step(h1, g, t) /\ SameNode(h1, g) /\ Chained(g, t, C, T)
    BY <1>4, <1>9, <1>12, <1>13, <2>1, <2>2, <2>3, ShortenFacts
  <2>5. NoneEmpty(T)
    <3>1. DOMAIN T = DOMAIN S /\ \A p \in DOMAIN S : T[p] = IF p = i THEN M ELSE S[p]
      BY DEF Put
    <3>2. M # <<>>
      BY <2>3
    <3> HIDE DEF T
    <3>3. QED
      BY <1>2, <3>1, <3>2 DEF NoneEmpty
  <2> HIDE DEF T, g
  <2>6. g.SubKeyCounts[t] = Cardinality(Entries(T))
    BY <1>9, <2>1, <2>4 DEF SameNode
  <2>7. Good(g, t) /\ KeysOf(g, t) = Entries(T)
    BY <2>4, <2>5, <2>6, GoodChain
  <2>8. Step(h, g, t)
    BY <1>9, <2>4, StepTransitive
  <2>9. Becomes(h, g, t, K \ {key})
    BY <2>1, <2>6, <2>7, <2>8 DEF Becomes
  <2>10. CmpRemoveSubKey(h, key) = g
    BY <1>4, <1>10, <1>15 DEF g, M
  <2>11. QED
    BY <2>9, <2>10 DEF K, key
<1>16. ASSUME ~(Len(S[i]) > 1) PROVE Range(S[i]) = {key}
  <2>1. Len(S[i]) = 1 /\ S[i] \in Seq({t} \X Names)
    <3> DEFINE n == Len(S[i])
    <3>1. n \in Nat /\ n # 0 /\ ~(n > 1)
      BY <1>14, <1>16
    <3> HIDE DEF n
    <3>2. n = 1
      BY <3>1
    <3>3. S[i] \in Seq({t} \X Names)
      BY <1>6 DEF KeyLists
    <3>4. QED
      BY <3>2, <3>3 DEF n
  <2>2. DOMAIN S[i] = {1}
    BY <2>1, LenProperties
  <2>3. QED
    BY <1>8, <2>2 DEF Range
<1>17. CASE ~(Len(S[i]) > 1) /\ Rooted(h, c) /\ Len(C) > 1
  <2> DEFINE T == RemoveAt(S, i)
             D == RemoveAt(C, i)
             g == PutList(HvFreeCell(h1, C[i]), h1.SubKeyLists[t], D)
  <2>1. T \in Pages(t) /\ Entries(T) = K \ {key} /\ NoneEmpty(T)
    BY <1>2, <1>3, <1>4, <1>5, <1>16, <1>17, PagesDropped
  <2>2. Step(h1, g, t) /\ SameNode(h1, g) /\ Chained(g, t, D, T)
    BY <1>4, <1>5, <1>9, <1>12, <1>13, <1>17, DropFacts
  <2>3. CmpRemoveSubKey(h, key) = g
    BY <1>4, <1>5, <1>10, <1>13, <1>17
  <2> HIDE DEF T, g, D
  <2>4. g.SubKeyCounts[t] = Cardinality(Entries(T))
    BY <1>9, <2>1, <2>2 DEF SameNode
  <2>5. Good(g, t) /\ KeysOf(g, t) = Entries(T)
    BY <2>1, <2>2, <2>4, GoodChain
  <2>6. Step(h, g, t)
    BY <1>9, <2>2, StepTransitive
  <2>7. Becomes(h, g, t, K \ {key})
    BY <2>1, <2>4, <2>5, <2>6 DEF Becomes
  <2>8. QED
    BY <2>3, <2>7 DEF K, key
<1>18. CASE ~(Len(S[i]) > 1) /\ ~(Rooted(h, c) /\ Len(C) > 1)
  <2>1. Len(S) = 1 /\ i = 1
    BY <1>4, <1>5, <1>6, <1>18
  <2>2. K = {key}
    <3>1. Entries(S) = Range(S[1])
      BY <1>6, <2>1 DEF Entries
    <3>2. QED
      BY <1>3, <1>16, <1>18, <2>1, <3>1
  <2>3. K \ {key} = {} /\ h1.SubKeyCounts[t] = 0
    BY <1>9, <2>2, FS_EmptySet
  <2> DEFINE f == HvFreeCell(h1, leaf)
             e == HvFreeCell(f, c)
  <2>4. leaf \in DOMAIN h1.Cell /\ HvGetCellType(leaf) = t /\ c \in DOMAIN h1.Cell /\ HvGetCellType(c) = t
    BY <1>4, <1>5, <1>6, <1>9 DEF CellsOf
  <2>5. /\ Step(h1, f, t) /\ f \in Hives /\ SameNode(h1, f) /\ DOMAIN f.Cell = DOMAIN h1.Cell \ {leaf}
    BY <1>9, <2>4, FreeFacts, StepHives
  <2>6. Step(h, f, t) /\ f.SubKeyCounts[t] = 0
    BY <1>9, <2>3, <2>5, StepTransitive DEF SameNode
  <2>7. CellsOf(f, t) = CellsOf(h, t) \ {leaf}
    BY <1>9, <2>5 DEF CellsOf
  <2>8. CASE Rooted(h, c)
    <3>1. CellsOf(h, t) = {leaf, c} /\ c # leaf
      <4>1. Range(C) = {C[1]}
        BY <1>6, <2>1 DEF Range
      <4>2. QED
        BY <1>4, <1>5, <1>6, <2>1, <2>8, <4>1
    <3> HIDE DEF f
    <3>2. c \in DOMAIN f.Cell
      BY <2>4, <2>5, <3>1
    <3>3. Step(f, e, t) /\ SameNode(f, e) /\ DOMAIN e.Cell = DOMAIN f.Cell \ {c}
      BY <2>4, <2>5, <3>2, FreeFacts
    <3> HIDE DEF e
    <3>4. Step(h, e, t) /\ e.SubKeyCounts[t] = 0
      BY <2>6, <3>3, StepTransitive DEF SameNode
    <3>5. CellsOf(e, t) = {}
      <4>1. CellsOf(e, t) = CellsOf(f, t) \ {c}
        BY <3>3 DEF CellsOf
      <4>2. QED
        BY <2>7, <3>1, <4>1
    <3>6. Becomes(h, WithList(e, t, HCELL_NIL), t, {})
      BY <3>4, <3>5, EmptiedFacts
    <3>7. CmpRemoveSubKey(h, key) = WithList(e, t, HCELL_NIL)
      BY <1>5, <1>10, <1>18, <2>8 DEF e, f
    <3>8. QED
      BY <2>3, <3>6, <3>7 DEF K, key
  <2>9. CASE ~Rooted(h, c)
    <3>1. CellsOf(f, t) = {}
      <4>1. CellsOf(h, t) = {leaf}
        <5>1. C = <<c>> /\ CellsOf(h, t) = {c}
          BY <1>5, <2>9
        <5>2. C[1] = c
          BY <5>1
        <5>3. QED
          BY <1>4, <2>1, <5>1, <5>2
      <4>2. QED
        BY <2>7, <4>1
    <3> HIDE DEF f
    <3>2. Becomes(h, WithList(f, t, HCELL_NIL), t, {})
      BY <2>6, <3>1, EmptiedFacts
    <3>3. CmpRemoveSubKey(h, key) = WithList(f, t, HCELL_NIL)
      BY <1>10, <1>18, <2>9 DEF f
    <3>4. QED
      BY <2>3, <3>2, <3>3 DEF K, key
  <2>10. QED
    BY <2>8, <2>9
<1>19. QED
  BY <1>15, <1>17, <1>18

\* What the deletion of the subkey with a name makes of the hive.
LEMMA FreeKeyFacts ==
  ASSUME NEW h \in Hives, NEW Name \in Names, \A u \in Storages : Good(h, u),
         NEW t \in Storages, CmpFindSubKeyByName(h, Name) = <<t, Name>>
  PROVE  /\ Becomes(h, CmpFreeKeyByCell(h, <<t, Name>>), t, KeysOf(h, t) \ {<<t, Name>>})
         /\ <<t, Name>> \in KeysOf(h, t)
         /\ ParentKey \in CmpFreeKeyByCell(h, <<t, Name>>).Dirty
<1> DEFINE key == <<t, Name>>
           m == CmpMarkKeyDirty(h, key)
           g == CmpRemoveSubKey(m, key)
<1>1. /\ Marked(h, m) /\ PathDirty(m, t, Name) /\ ParentKey \in m.Dirty
      /\ key \in KeysOf(h, t)
  BY MarkKeyFacts
<1> HIDE DEF m, key
<1>2. m \in Hives /\ Step(h, m, t) /\ Good(m, t) /\ KeysOf(m, t) = KeysOf(h, t)
  BY <1>1, MarkedSame, MarkedStep DEF Marked
<1>3. Becomes(m, g, t, KeysOf(h, t) \ {key})
  BY <1>1, <1>2, RemoveFacts DEF key
<1> HIDE DEF g
<1>4. Step(h, g, t) /\ ParentKey \in g.Dirty
  <2>1. Step(m, g, t)
    BY <1>3 DEF Becomes
  <2>2. ParentKey \in g.Dirty
    BY <1>1, <2>1 DEF Step
  <2>3. QED
    BY <1>2, <2>1, <2>2, StepTransitive
<1>5. Becomes(h, g, t, KeysOf(h, t) \ {key})
  BY <1>3, <1>4 DEF Becomes
<1>6. CmpFreeKeyByCell(h, key) = g
  BY DEF CmpFreeKeyByCell, g, m
<1>7. QED
  BY <1>1, <1>4, <1>5, <1>6 DEF key

-----------------------------------------------------------------------------
(* The steps of the hive *)

\* Both storage types have a good index.
Sound(h) == h \in Hives /\ \A t \in Storages : Good(h, t)

\* What adding and removing have in common.
LEMMA BecomesFacts ==
  ASSUME NEW h, Sound(h), NEW t \in Storages, NEW g, NEW K, Becomes(h, g, t, K)
  PROVE  /\ Sound(g) /\ KeysOf(g, t) = K
         /\ \A u \in Storages \ {t} : KeysOf(g, u) = KeysOf(h, u)
<1>1. h \in Hives /\ Step(h, g, t) /\ Good(g, t) /\ g \in Hives
  BY StepHives DEF Sound, Becomes
<1>2. \A u \in Storages \ {t} : Good(g, u) /\ KeysOf(g, u) = KeysOf(h, u)
  BY <1>1, StepFrame DEF Sound
<1>3. QED
  BY <1>1, <1>2 DEF Sound, Becomes

\* A stable cell that is new or changed after the step is dirty.
CellsDirty(h, g) ==
  \A c \in DOMAIN g.Cell : /\ HvGetCellType(c) = "Stable"
                           /\ c \in DOMAIN h.Cell => g.Cell[c] # h.Cell[c]
                           => c \in g.Dirty

LEMMA StepDirty ==
  ASSUME NEW h, NEW g, NEW t, Step(h, g, t)
  PROVE  CellsDirty(h, g)
BY DEF Step, CellsDirty

LEMMA AddStep ==
  ASSUME Sound(hive), NEW key \in Subkeys, CmiAddSubKey(key)
  PROVE  \E t \in Storages, Name \in Names :
           /\ key = <<t, Name>>
           /\ \A u \in Storages : <<u, Name>> \notin KeysOf(hive, u)
           /\ Sound(hive') /\ KeysOf(hive', t) = KeysOf(hive, t) \cup {key}
           /\ \A u \in Storages \ {t} : KeysOf(hive', u) = KeysOf(hive, u)
           /\ CellsDirty(hive, hive') /\ ParentKey \in hive'.Dirty
<1>1. PICK t \in Storages, Name \in Names : key = <<t, Name>>
  BY SubkeysAssumption
<1> DEFINE k == HvMarkCellDirty(hive, ParentKey)
<1>2. NameOf(key) = Name
  BY <1>1 DEF NameOf
<1>3. CmpFindSubKeyByName(hive, Name) = HCELL_NIL /\ hive' = CmpAddSubKey(k, key)
  BY <1>2 DEF CmiAddSubKey
<1>4. \A u \in Storages : <<u, Name>> \notin KeysOf(hive, u)
  <2>1. \A u \in Storages :
          FindInStorage(hive, u, Name) = IF <<u, Name>> \in KeysOf(hive, u) THEN <<u, Name>> ELSE HCELL_NIL
    BY FindFacts DEF Sound
  <2>2. FindInStorage(hive, "Stable", Name) = HCELL_NIL /\ FindInStorage(hive, "Volatile", Name) = HCELL_NIL
    BY <1>3, StorageFacts DEF CmpFindSubKeyByName
  <2>3. \A u \in Storages : <<u, Name>> # HCELL_NIL
    BY StorageFacts DEF HCELL_NIL
  <2>4. QED
    BY <2>1, <2>2, <2>3, StorageFacts
<1>5. Marked(hive, k) /\ ParentKey \in k.Dirty
  BY MarkedFacts DEF Sound, HvGetCellType, ParentKey
<1> HIDE DEF k
<1>6. /\ k \in Hives /\ Good(k, t) /\ KeysOf(k, t) = KeysOf(hive, t) /\ Step(hive, k, t)
  BY <1>5, MarkedSame, MarkedStep DEF Sound, Marked
<1>7. Becomes(k, hive', t, KeysOf(hive, t) \cup {key})
  BY <1>1, <1>3, <1>4, <1>6, AddFacts
<1>8. Step(k, hive', t) /\ Step(hive, hive', t)
  BY <1>6, <1>7, StepTransitive DEF Becomes, Sound
<1>9. Becomes(hive, hive', t, KeysOf(hive, t) \cup {key})
  BY <1>7, <1>8 DEF Becomes
<1>10. ParentKey \in hive'.Dirty
  BY <1>5, <1>8 DEF Step
<1>11. /\ Sound(hive') /\ KeysOf(hive', t) = KeysOf(hive, t) \cup {key}
       /\ \A u \in Storages \ {t} : KeysOf(hive', u) = KeysOf(hive, u)
  BY <1>9, BecomesFacts
<1>12. CellsDirty(hive, hive')
  BY <1>8, StepDirty
<1>13. QED
  BY <1>1, <1>4, <1>10, <1>11, <1>12

LEMMA DeleteStep ==
  ASSUME Sound(hive), NEW Name \in Names, NTRegDeleteKeyW(Name)
  PROVE  \E t \in Storages :
           /\ <<t, Name>> \in KeysOf(hive, t)
           /\ Sound(hive') /\ KeysOf(hive', t) = KeysOf(hive, t) \ {<<t, Name>>}
           /\ \A u \in Storages \ {t} : KeysOf(hive', u) = KeysOf(hive, u)
           /\ CellsDirty(hive, hive') /\ ParentKey \in hive'.Dirty
<1> DEFINE key == CmpFindSubKeyByName(hive, Name)
<1>1. key # HCELL_NIL /\ hive' = CmpFreeKeyByCell(hive, key)
  BY DEF NTRegDeleteKeyW
<1>2. \E t \in Storages : key = <<t, Name>>
  <2>1. \A u \in Storages :
          FindInStorage(hive, u, Name) = IF <<u, Name>> \in KeysOf(hive, u) THEN <<u, Name>> ELSE HCELL_NIL
    BY FindFacts DEF Sound
  <2>2. \/ key = FindInStorage(hive, "Stable", Name)
        \/ key = FindInStorage(hive, "Volatile", Name)
    BY StorageFacts DEF CmpFindSubKeyByName
  <2>3. QED
    BY <1>1, <2>1, <2>2, StorageFacts
<1>3. PICK t \in Storages : key = <<t, Name>>
  BY <1>2
<1>4. /\ Becomes(hive, hive', t, KeysOf(hive, t) \ {<<t, Name>>})
      /\ <<t, Name>> \in KeysOf(hive, t)
      /\ ParentKey \in hive'.Dirty
  BY <1>1, <1>3, FreeKeyFacts DEF Sound
<1>5. /\ Sound(hive') /\ KeysOf(hive', t) = KeysOf(hive, t) \ {<<t, Name>>}
      /\ \A u \in Storages \ {t} : KeysOf(hive', u) = KeysOf(hive, u)
  BY <1>4, BecomesFacts
<1>6. CellsDirty(hive, hive')
  BY <1>4, StepDirty DEF Becomes
<1>7. QED
  BY <1>4, <1>5, <1>6

\* The node and the cells are the same, whatever is dirty.
LEMMA SyncStep ==
  ASSUME Sound(hive), HvSyncHive
  PROVE  /\ Sound(hive') /\ \A t \in Storages : KeysOf(hive', t) = KeysOf(hive, t)
         /\ CellsDirty(hive, hive')
         /\ hive'.SubKeyCounts = hive.SubKeyCounts /\ hive'.SubKeyLists = hive.SubKeyLists
<1> DEFINE g == [hive EXCEPT !.Dirty = {}]
<1>1. hive' = g /\ hive \in Hives
  BY DEF HvSyncHive, Sound
<1>2. /\ g.Cell = hive.Cell /\ g.SubKeyCounts = hive.SubKeyCounts
      /\ g.SubKeyLists = hive.SubKeyLists /\ g \in Hives
  BY <1>1 DEF Hives
<1> HIDE DEF g
<1>3. ASSUME NEW t \in Storages PROVE Good(g, t) /\ KeysOf(g, t) = KeysOf(hive, t)
  <2>1. CellsOf(g, t) = CellsOf(hive, t)
    BY <1>2 DEF CellsOf
  <2>2. \A c : Rooted(g, c) <=> Rooted(hive, c)
    BY <1>2 DEF Rooted
  <2>3. \A k : k \in KeysOf(g, t) <=> k \in KeysOf(hive, t)
    BY <1>2, <2>1, <2>2, KeysOfFacts
  <2>4. \A C, S : Chained(hive, t, C, S) => Chained(g, t, C, S)
    BY <1>2, SameChain
  <2>5. Good(hive, t)
    BY DEF Sound
  <2>6. Good(g, t)
    BY <1>2, <2>1, <2>4, <2>5 DEF Good
  <2>7. QED
    BY <2>3, <2>6
<1>4. QED
  BY <1>1, <1>2, <1>3 DEF Sound, CellsDirty

\* A load keeps the stable index, and leaves none for the volatile subkeys.
LEMMA LoadStep ==
  ASSUME Sound(hive), LoadHiveDataIntoRegistry
  PROVE  /\ Sound(hive') /\ KeysOf(hive', "Stable") = KeysOf(hive, "Stable")
         /\ KeysOf(hive', "Volatile") = {}
         /\ CellsDirty(hive, hive')
         /\ \/ hive'.SubKeyCounts = hive.SubKeyCounts /\ hive'.SubKeyLists = hive.SubKeyLists
            \/ ParentKey \in hive'.Dirty
<1> DEFINE D == {c \in DOMAIN hive.Cell : HvGetCellType(c) = "Stable"}
           C == Restrict(hive.Cell, D)
           k == [hive EXCEPT !.Cell = C]
           p == IF hive.Version >= 4 THEN CMP_VOLATILE_LIST_UNINTIALIZED ELSE HCELL_NIL
           g == WithList(WithCount(HvMarkCellDirty(k, ParentKey), "Volatile", 0), "Volatile", p)
<1>1. hive \in Hives /\ hive.Dirty = {} /\ hive' = CmpPurgeVolatiles(k)
  BY DEF Sound, LoadHiveDataIntoRegistry
<1>2. "Stable" \in Storages /\ "Volatile" \in Storages
  BY StorageFacts
<1>3. /\ DOMAIN C = D /\ C = [d \in DOMAIN C |-> C[d]] /\ \A d \in D : C[d] = hive.Cell[d]
  BY DEF Restrict
<1> HIDE DEF C
<1>4. C \in Heaps /\ IsFiniteSet(DOMAIN C)
  <2>1. \A d \in DOMAIN C : C[d] \in Indexes /\ Fits(C[d])
    BY <1>1, <1>3, HiveFacts
  <2>2. DOMAIN C \subseteq CellIds
    BY <1>1, <1>3, HiveFacts
  <2>3. IsFiniteSet(DOMAIN hive.Cell)
    BY <1>1, HiveFacts
  <2>4. QED
    BY <1>3, <2>1, <2>2, <2>3, HeapFacts, FS_Subset
<1>5. /\ k \in Hives /\ k.Cell = C /\ k.Version = hive.Version /\ k.Dirty = {}
      /\ k.SubKeyCounts = hive.SubKeyCounts /\ k.SubKeyLists = hive.SubKeyLists
  BY <1>1, <1>4 DEF Hives
<1>6. hive' = IF k.SubKeyCounts["Volatile"] = 0 THEN k ELSE g
  <2>1. k.Version = hive.Version
    BY <1>5
  <2> HIDE DEF k
  <2>2. QED
    BY <1>1, <2>1 DEF CmpPurgeVolatiles, WithList, WithCount
<1> HIDE DEF k
<1>7. /\ g \in Hives /\ g.Cell = C /\ ParentKey \in g.Dirty
      /\ g.SubKeyCounts["Volatile"] = 0
      /\ g.SubKeyCounts["Stable"] = hive.SubKeyCounts["Stable"]
      /\ g.SubKeyLists["Stable"] = hive.SubKeyLists["Stable"]
  <2> DEFINE m == HvMarkCellDirty(k, ParentKey)
             n == WithCount(m, "Volatile", 0)
  <2>1. Marked(k, m) /\ ParentKey \in m.Dirty
    BY <1>5, MarkedFacts DEF HvGetCellType, ParentKey
  <2> HIDE DEF m
  <2>2. m \in Hives /\ m.Cell = C /\ m.SubKeyCounts = hive.SubKeyCounts /\ m.SubKeyLists = hive.SubKeyLists
    BY <1>5, <2>1 DEF Marked, SameNode
  <2>3. /\ Step(m, n, "Volatile") /\ n \in Hives /\ n.Cell = m.Cell /\ n.Dirty = m.Dirty
        /\ n.SubKeyLists = m.SubKeyLists /\ n.SubKeyCounts["Volatile"] = 0
    BY <1>2, <2>2, CountFacts, StepHives
  <2> HIDE DEF n
  <2>4. p \in Places
    BY DEF Places
  <2> HIDE DEF p
  <2>5. /\ Step(n, WithList(n, "Volatile", p), "Volatile")
        /\ WithList(n, "Volatile", p).Cell = n.Cell /\ WithList(n, "Volatile", p).Dirty = n.Dirty
        /\ WithList(n, "Volatile", p).SubKeyCounts = n.SubKeyCounts
    BY <1>2, <2>3, <2>4, ListFacts
  <2>6. g = WithList(n, "Volatile", p)
    BY DEF m, n
  <2> HIDE DEF g
  <2>7. Step(n, g, "Volatile") /\ g.Cell = n.Cell /\ g.Dirty = n.Dirty /\ g.SubKeyCounts = n.SubKeyCounts
    BY <2>5, <2>6
  <2>8. "Stable" \in Storages \ {"Volatile"}
    BY <1>2
  <2>9. QED
    BY <2>1, <2>2, <2>3, <2>7, <2>8 DEF Step
<1> HIDE DEF g
<1>8. /\ hive' \in Hives /\ hive'.Cell = C
      /\ hive'.SubKeyCounts["Volatile"] = 0
      /\ hive'.SubKeyCounts["Stable"] = hive.SubKeyCounts["Stable"]
      /\ hive'.SubKeyLists["Stable"] = hive.SubKeyLists["Stable"]
      /\ \/ hive'.SubKeyCounts = hive.SubKeyCounts /\ hive'.SubKeyLists = hive.SubKeyLists
         \/ ParentKey \in hive'.Dirty
  BY <1>5, <1>6, <1>7
<1>9. CellsOf(hive', "Stable") = CellsOf(hive, "Stable") /\ CellsOf(hive', "Volatile") = {}
  BY <1>3, <1>8 DEF CellsOf
<1>10. \A c \in CellsOf(hive, "Stable") : hive'.Cell[c] = hive.Cell[c]
  BY <1>3, <1>8 DEF CellsOf
<1>11. KeysOf(hive', "Volatile") = {} /\ KeysOf(hive', "Stable") = KeysOf(hive, "Stable")
  <2>1. KeysOf(hive', "Volatile") = {}
    BY <1>9, KeysOfFacts
  <2>2. \A x : x \in KeysOf(hive', "Stable") <=> x \in KeysOf(hive, "Stable")
    BY <1>9, <1>10, KeysOfFacts DEF Rooted
  <2>3. QED
    BY <2>1, <2>2
<1>12. Good(hive', "Volatile")
  BY <1>8, <1>9 DEF Good
<1>13. Good(hive', "Stable")
  <2>1. Good(hive, "Stable")
    BY <1>2 DEF Sound
  <2>2. \A L, S : Chained(hive, "Stable", L, S) => Chained(hive', "Stable", L, S)
    BY <1>8, <1>9, <1>10, KeptChain
  <2>3. QED
    BY <1>8, <1>9, <2>1, <2>2 DEF Good
<1>14. CellsDirty(hive, hive')
  BY <1>3, <1>8 DEF CellsDirty
<1>15. QED
  BY <1>8, <1>11, <1>12, <1>13, <1>14, StorageFacts DEF Sound

-----------------------------------------------------------------------------
(* The invariant *)

Invariant == Sound(hive)

LEMMA InitSound ==
  ASSUME Init
  PROVE  Invariant /\ \A t \in Storages : KeysOf(hive, t) = {}
<1>1. PICK v \in Versions :
        hive = [Version |-> v, Cell |-> <<>>, Dirty |-> {},
                SubKeyCounts |-> [t \in Storages |-> 0],
                SubKeyLists |-> [t \in Storages |-> HCELL_NIL]]
  BY DEF Init
<1> DEFINE C == <<>>
<1>2. DOMAIN C = {} /\ C = [d \in DOMAIN C |-> C[d]]
  OBVIOUS
<1>3. hive.Cell = C
  BY <1>1
<1> HIDE DEF C
<1>4. C \in Heaps /\ IsFiniteSet(DOMAIN C)
  BY <1>2, HeapFacts, FS_EmptySet
<1>5. hive \in Hives /\ \A t \in Storages : hive.SubKeyCounts[t] = 0
  <2>1. \A t \in Storages : HCELL_NIL \in Places
    BY DEF Places
  <2>2. /\ hive = [Version |-> v, Cell |-> C, Dirty |-> {},
                   SubKeyCounts |-> [t \in Storages |-> 0],
                   SubKeyLists |-> [t \in Storages |-> HCELL_NIL]]
    BY <1>1, <1>3
  <2>3. [t \in Storages |-> HCELL_NIL] \in [Storages -> Places]
    BY <2>1
  <2>4. QED
    BY <1>4, <2>2, <2>3 DEF Hives
<1>6. \A t \in Storages : CellsOf(hive, t) = {}
  BY <1>2, <1>3 DEF CellsOf
<1>7. \A t \in Storages : KeysOf(hive, t) = {}
  BY <1>6, KeysOfFacts
<1>8. QED
  BY <1>5, <1>6, <1>7 DEF Invariant, Sound, Good

LEMMA NextSound ==
  ASSUME Invariant, [Next]_hive
  PROVE  Invariant'
<1>1. ASSUME NEW key \in Subkeys, CmiAddSubKey(key) PROVE Sound(hive')
  BY <1>1, AddStep DEF Invariant
<1>2. ASSUME NEW Name \in Names, NTRegDeleteKeyW(Name) PROVE Sound(hive')
  BY <1>2, DeleteStep DEF Invariant
<1>3. ASSUME HvSyncHive PROVE Sound(hive')
  BY <1>3, SyncStep DEF Invariant
<1>4. ASSUME LoadHiveDataIntoRegistry PROVE Sound(hive')
  BY <1>4, LoadStep DEF Invariant
<1>5. CASE UNCHANGED hive
  BY <1>5 DEF Invariant
<1>6. CASE Next
  BY <1>1, <1>2, <1>3, <1>4, <1>6 DEF Next, Invariant
<1>7. QED
  BY <1>5, <1>6

\* Both indexes are good ones in every state: roots and leaves chain up, with names in
\* order and counted, through every addition, split, removal, flush and load.
THEOREM Soundness == Spec => []Invariant
<1>1. Init => Invariant
  BY InitSound
<1>2. Invariant /\ [Next]_hive => Invariant'
  BY NextSound
<1>3. QED
  BY <1>1, <1>2, PTL DEF Spec

-----------------------------------------------------------------------------
(* What the invariant says of a hive *)

\* A cell belongs to the index of its storage type.
LEMMA CellIsOf ==
  ASSUME NEW h \in Hives, NEW c \in DOMAIN h.Cell
  PROVE  HvGetCellType(c) \in Storages /\ c \in CellsOf(h, HvGetCellType(c))
<1>1. c \in Storages \X Numbers
  BY HiveFacts DEF CellIds
<1>2. QED
  BY <1>1 DEF HvGetCellType, CellsOf

\* A leaf is one of the chain of its storage type.
LEMMA LeafIsChained ==
  ASSUME NEW h, Sound(h), NEW c \in Leaves(h)
  PROVE  \E t \in Storages : \E L \in KeyLists(t) : Holds(h, c, L)
<1>1. c \in DOMAIN h.Cell /\ ~Rooted(h, c) /\ h \in Hives
  BY DEF Leaves, Rooted, Sound
<1>2. PICK t \in Storages : c \in CellsOf(h, t)
  BY <1>1, CellIsOf
<1>3. h.SubKeyCounts[t] # 0
  BY <1>2 DEF Sound, Good
<1>4. PICK C, S : Chained(h, t, C, S)
  BY <1>3 DEF Sound, Good
<1>5. PICK i \in DOMAIN S : c = C[i] /\ S[i] \in KeyLists(t)
  BY <1>1, <1>2, <1>4, ChainFacts
<1>6. Holds(h, c, S[i])
  BY <1>4, <1>5 DEF Chained
<1>7. QED
  BY <1>5, <1>6

LEMMA SoundTypes ==
  ASSUME Invariant
  PROVE  TypeOK
<1>1. hive \in Hives
  BY DEF Invariant, Sound
<1>2. /\ hive.Version \in Versions /\ hive.SubKeyCounts \in [Storages -> Nat]
      /\ hive.Dirty \subseteq DOMAIN hive.Cell \cup {ParentKey}
  BY <1>1, HiveFacts
<1>3. ASSUME NEW c \in Leaves(hive)
      PROVE  /\ hive.Cell[c].Signature \in {CM_KEY_FAST_LEAF, CM_KEY_HASH_LEAF, CM_KEY_INDEX_LEAF}
             /\ Range(hive.Cell[c].List) \subseteq Storages \X Names
             /\ Len(hive.Cell[c].List) <=
                  IF hive.Cell[c].Signature = CM_KEY_FAST_LEAF
                  THEN CmpMaxFastIndexPerHblock ELSE CmpMaxIndexPerHblock
  <2>0. PICK t \in Storages : \E L \in KeyLists(t) : Holds(hive, c, L)
    BY LeafIsChained DEF Invariant
  <2>1. PICK L \in KeyLists(t) : Holds(hive, c, L)
    BY <2>0
  <2>2. Range(L) \subseteq Storages \X Names
    BY KeyFacts DEF Range, KeyLists
  <2>3. QED
    BY <2>1, <2>2 DEF Holds, Forms, Limit
<1>4. QED
  BY <1>2, <1>3 DEF TypeOK

LEMMA SoundFits ==
  ASSUME Invariant
  PROVE  EntriesFit
BY HiveFacts DEF Invariant, Sound, EntriesFit, Fits

LEMMA SoundKeepsCells ==
  ASSUME Invariant
  PROVE  NoCellLost
<1> SUFFICES ASSUME NEW t \in Storages
             PROVE  LET c     == hive.SubKeyLists[t]
                        cells == {d \in DOMAIN hive.Cell : HvGetCellType(d) = t}
                    IN  IF hive.SubKeyCounts[t] = 0 THEN cells = {}
                        ELSE /\ c \in cells
                             /\ hive.Cell[c].List # <<>>
                             /\ IF hive.Cell[c].Signature = CM_KEY_INDEX_ROOT
                                THEN /\ IsInjective(hive.Cell[c].List)
                                     /\ Range(hive.Cell[c].List) = cells \ {c}
                                     /\ \A d \in cells \ {c} : hive.Cell[d].List # <<>>
                                ELSE cells = {c}
  BY DEF NoCellLost
<1> DEFINE c == hive.SubKeyLists[t]
           cells == CellsOf(hive, t)
<1>1. cells = {d \in DOMAIN hive.Cell : HvGetCellType(d) = t}
  BY DEF CellsOf
<1>2. hive.SubKeyCounts[t] = 0 => cells = {}
  BY DEF Invariant, Sound, Good
<1>3. ASSUME hive.SubKeyCounts[t] # 0
      PROVE  /\ c \in cells
             /\ hive.Cell[c].List # <<>>
             /\ IF Rooted(hive, c)
                THEN /\ IsInjective(hive.Cell[c].List)
                     /\ Range(hive.Cell[c].List) = cells \ {c}
                     /\ \A d \in cells \ {c} : hive.Cell[d].List # <<>>
                ELSE cells = {c}
  <2>1. PICK C, S : Chained(hive, t, C, S) /\ NoneEmpty(S)
    BY <1>3 DEF Invariant, Sound, Good
  <2>2. /\ Len(S) \in Nat \ {0} /\ DOMAIN S = 1 .. Len(S) /\ DOMAIN C = DOMAIN S
        /\ \A i \in DOMAIN S : C[i] \in cells /\ ~Rooted(hive, C[i]) /\ hive.Cell[C[i]].List = S[i]
        /\ \A d \in cells : ~Rooted(hive, d) => \E i \in DOMAIN S : d = C[i]
    <3>1. \A i \in DOMAIN S : hive.Cell[C[i]].List = S[i]
      BY <2>1 DEF Chained, Holds
    <3>2. QED
      BY <2>1, <3>1, ChainFacts
  <2>3. \A i \in DOMAIN S : S[i] # <<>>
    BY <2>1 DEF NoneEmpty
  <2>4. 1 \in DOMAIN S
    BY <2>2
  <2>5. CASE Rooted(hive, c)
    <3>1. /\ c \in cells /\ hive.Cell[c].List = C /\ IsInjective(C)
          /\ cells = Range(C) \cup {c}
      BY <2>1, <2>5 DEF Chained
    <3>2. C # <<>>
      BY <2>2, <2>4
    <3>3. \A d \in Range(C) : \E i \in DOMAIN S : d = C[i]
      BY <2>2 DEF Range
    <3>4. c \notin Range(C)
      BY <2>2, <2>5, <3>3
    <3>5. \A d \in cells \ {c} : hive.Cell[d].List # <<>>
      BY <2>2, <2>3, <3>1, <3>3
    <3>6. QED
      BY <2>5, <3>1, <3>2, <3>4, <3>5
  <2>6. CASE ~Rooted(hive, c)
    <3>1. c \in cells /\ C = <<c>> /\ cells = {c}
      BY <2>1, <2>6 DEF Chained
    <3>2. C[1] = c
      BY <3>1
    <3>3. hive.Cell[c].List # <<>>
      BY <2>2, <2>3, <2>4, <3>2
    <3>4. QED
      BY <2>6, <3>1, <3>3
  <2>7. QED
    BY <2>5, <2>6
<1>4. QED
  BY <1>1, <1>2, <1>3 DEF Rooted

\* The keys are those of both storage types.
LEMMA KeysFacts ==
  ASSUME NEW h \in Hives
  PROVE  \A k : k \in Keys(h) <=> \E t \in Storages : k \in KeysOf(h, t)
<1>1. ASSUME NEW k \in Keys(h) PROVE \E t \in Storages : k \in KeysOf(h, t)
  <2>1. PICK c \in DOMAIN h.Cell : ~Rooted(h, c) /\ k \in Range(h.Cell[c].List)
    BY <1>1 DEF Keys, Leaves, Rooted
  <2>2. PICK t \in Storages : c \in CellsOf(h, t)
    BY CellIsOf
  <2>3. QED
    BY <2>1, <2>2, KeysOfFacts
<1>2. ASSUME NEW t \in Storages, NEW k \in KeysOf(h, t) PROVE k \in Keys(h)
  <2>1. PICK c \in CellsOf(h, t) : ~Rooted(h, c) /\ k \in Range(h.Cell[c].List)
    BY KeysOfFacts
  <2>2. c \in DOMAIN h.Cell
    BY DEF CellsOf
  <2>3. QED
    BY <2>1, <2>2 DEF Keys, Leaves, Rooted
<1>3. QED
  BY <1>1, <1>2

\* The subkeys of a storage type are in that storage type.
LEMMA KeysTyped ==
  ASSUME NEW h, Sound(h), NEW t \in Storages, NEW k \in KeysOf(h, t)
  PROVE  \E n \in Names : k = <<t, n>> /\ NameOf(k) = n
<1>1. PICK c \in CellsOf(h, t) : ~Rooted(h, c) /\ k \in Range(h.Cell[c].List)
  BY KeysOfFacts
<1>2. PICK C, S : Chained(h, t, C, S)
  <2>1. h.SubKeyCounts[t] # 0
    BY <1>1 DEF Sound, Good
  <2>2. QED
    BY <2>1 DEF Sound, Good
<1>3. PICK i \in DOMAIN S : c = C[i] /\ S[i] \in KeyLists(t)
  BY <1>1, <1>2, ChainFacts
<1>4. k \in Range(S[i])
  BY <1>1, <1>2, <1>3 DEF Chained, Holds
<1>5. S[i] \in Seq({t} \X Names)
  BY <1>3 DEF KeyLists
<1>6. PICK p \in DOMAIN S[i] : k = S[i][p]
  BY <1>4 DEF Range
<1>7. QED
  BY <1>5, <1>6, KeyFacts

LEMMA SoundFindsNames ==
  ASSUME Invariant
  PROVE  FoundByName
<1> SUFFICES ASSUME NEW n \in Names
             PROVE  LET key == CmpFindSubKeyByName(hive, n)
                    IN  IF \E k \in Keys(hive) : NameOf(k) = n
                        THEN key \in Keys(hive) /\ NameOf(key) = n
                        ELSE key = HCELL_NIL
  BY DEF FoundByName
<1> DEFINE key == CmpFindSubKeyByName(hive, n)
           F(u) == FindInStorage(hive, u, n)
           K(u) == KeysOf(hive, u)
<1>1. Sound(hive) /\ hive \in Hives
  BY DEF Invariant, Sound
<1>2. Storages = {"Stable", "Volatile"}
  BY StorageFacts
<1>3. \A u \in Storages : F(u) = IF <<u, n>> \in K(u) THEN <<u, n>> ELSE HCELL_NIL
  BY <1>1, FindFacts DEF Sound
<1>4. \A u \in Storages : <<u, n>> # HCELL_NIL /\ NameOf(<<u, n>>) = n
  BY <1>2 DEF HCELL_NIL, NameOf
<1>5. key = IF F("Stable") # HCELL_NIL THEN F("Stable") ELSE F("Volatile")
  BY StorageFacts DEF CmpFindSubKeyByName
<1>6. \A k : k \in Keys(hive) <=> \E u \in Storages : k \in K(u)
  BY <1>1, KeysFacts
<1>7. \A u \in Storages : \A k \in K(u) : NameOf(k) = n => k = <<u, n>>
  BY <1>1, KeysTyped
<1> HIDE DEF key, F, K
<1>8. CASE \E k \in Keys(hive) : NameOf(k) = n
  <2>1. \E u \in Storages : <<u, n>> \in K(u)
    BY <1>6, <1>7, <1>8
  <2>2. \E u \in Storages : key = <<u, n>> /\ <<u, n>> \in K(u)
    BY <1>2, <1>3, <1>4, <1>5, <2>1
  <2>3. key \in Keys(hive) /\ NameOf(key) = n
    BY <1>4, <1>6, <2>2
  <2>4. QED
    BY <1>8, <2>3 DEF key
<1>9. CASE ~ \E k \in Keys(hive) : NameOf(k) = n
  <2>1. \A u \in Storages : <<u, n>> \notin K(u)
    BY <1>4, <1>6, <1>9
  <2>2. key = HCELL_NIL
    BY <1>2, <1>3, <1>5, <2>1
  <2>3. QED
    BY <1>9, <2>2 DEF key
<1>10. QED
  BY <1>8, <1>9

-----------------------------------------------------------------------------
(* Theorems *)

\* TypeOK: the fields have their types, and no leaf outgrows the limit of its form,
\* whichever of splitting, conversion and rooting the additions go through.
THEOREM TypeCorrect == Spec => []TypeOK
BY Soundness, SoundTypes, PTL

\* EntriesFit: CmpAddToLeaf and CmpSplitLeaf never write behind the end of a cell.
THEOREM NothingOverflows == Spec => []EntriesFit
BY Soundness, SoundFits, PTL

\* NoCellLost: the node of the key and its roots name every index cell once, and none
\* that has been freed.
THEOREM NothingLost == Spec => []NoCellLost
BY Soundness, SoundKeepsCells, PTL

\* FoundByName: CmpFindSubKeyByName finds a subkey by its name, and only then.
THEOREM NamesAreFound == Spec => []FoundByName
BY Soundness, SoundFindsNames, PTL

LEMMA StepsAreDirty ==
  ASSUME Invariant, [Next]_hive
  PROVE  /\ CellsDirty(hive, hive')
         /\ \/ hive'.SubKeyCounts # hive.SubKeyCounts
            \/ hive'.SubKeyLists # hive.SubKeyLists
            => ParentKey \in hive'.Dirty
<1> DEFINE D == /\ CellsDirty(hive, hive')
                /\ \/ hive'.SubKeyCounts # hive.SubKeyCounts
                   \/ hive'.SubKeyLists # hive.SubKeyLists
                   => ParentKey \in hive'.Dirty
<1>0. Sound(hive)
  BY DEF Invariant
<1>1. ASSUME NEW key \in Subkeys, CmiAddSubKey(key) PROVE D
  BY <1>0, <1>1, AddStep
<1>2. ASSUME NEW Name \in Names, NTRegDeleteKeyW(Name) PROVE D
  BY <1>0, <1>2, DeleteStep
<1>3. ASSUME HvSyncHive PROVE D
  BY <1>0, <1>3, SyncStep
<1>4. ASSUME LoadHiveDataIntoRegistry PROVE D
  BY <1>0, <1>4, LoadStep
<1>5. ASSUME UNCHANGED hive PROVE D
  BY <1>5 DEF CellsDirty
<1> HIDE DEF D
<1>6. ASSUME Next PROVE D
  BY <1>1, <1>2, <1>3, <1>4, <1>6 DEF Next
<1>7. QED
  BY <1>5, <1>6 DEF D

\* ChangesAreDirty: what an operation adds or changes in the stable store, it marks
\* dirty, also where CmpRemoveSubKey leaves that to CmpMarkIndexDirty.
THEOREM DirtMarked == Spec => ChangesAreDirty
<1> DEFINE A == /\ \A c \in DOMAIN hive'.Cell :
                     /\ HvGetCellType(c) = "Stable"
                     /\ c \in DOMAIN hive.Cell => hive'.Cell[c] # hive.Cell[c]
                     => c \in hive'.Dirty
                /\ \/ hive'.SubKeyCounts # hive.SubKeyCounts
                   \/ hive'.SubKeyLists # hive.SubKeyLists
                   => ParentKey \in hive'.Dirty
<1>1. Invariant /\ [Next]_hive => A
  BY StepsAreDirty DEF CellsDirty
<1> HIDE DEF A
<1>2. Invariant /\ [Next]_hive => [A]_hive
  BY <1>1
<1>3. Spec => [][A]_hive
  BY <1>2, Soundness, PTL DEF Spec
<1>4. QED
  BY <1>3 DEF ChangesAreDirty, A

-----------------------------------------------------------------------------
(* The set of subkeys *)

LEMMA SetAdds ==
  ASSUME Invariant, NEW key \in Subkeys, CmiAddSubKey(key)
  PROVE  Set!Next
<1>1. Sound(hive) /\ Sound(hive') /\ hive \in Hives /\ hive' \in Hives
  BY AddStep DEF Invariant, Sound
<1>2. PICK t \in Storages, Name \in Names :
        /\ key = <<t, Name>>
        /\ \A u \in Storages : <<u, Name>> \notin KeysOf(hive, u)
        /\ KeysOf(hive', t) = KeysOf(hive, t) \cup {key}
        /\ \A u \in Storages \ {t} : KeysOf(hive', u) = KeysOf(hive, u)
  BY <1>1, AddStep
<1>3. Keys(hive') = Keys(hive) \cup {key}
  <2>1. \A k : k \in Keys(hive') <=> \E u \in Storages : k \in KeysOf(hive', u)
    BY <1>1, KeysFacts
  <2>2. \A k : k \in Keys(hive) <=> \E u \in Storages : k \in KeysOf(hive, u)
    BY <1>1, KeysFacts
  <2>3. QED
    BY <1>2, <2>1, <2>2
<1>4. {k \in Keys(hive) : k[2] = key[2]} = {}
  <2> SUFFICES ASSUME NEW k \in Keys(hive), k[2] = key[2] PROVE FALSE
    OBVIOUS
  <2>1. PICK u \in Storages : k \in KeysOf(hive, u)
    BY <1>1, KeysFacts
  <2>2. PICK n \in Names : k = <<u, n>>
    BY <1>1, <2>1, KeysTyped
  <2>3. n = Name
    BY <1>2, <2>2
  <2>4. QED
    BY <1>2, <2>1, <2>2, <2>3
<1>5. key \in Storages \X Names
  BY <1>2
<1>6. QED
  BY <1>3, <1>4, <1>5 DEF Set!Next, Set!Create, Set!Named

LEMMA SetDeletes ==
  ASSUME Invariant, NEW Name \in Names, NTRegDeleteKeyW(Name)
  PROVE  Set!Next
<1>1. Sound(hive) /\ Sound(hive') /\ hive \in Hives /\ hive' \in Hives
  BY DeleteStep DEF Invariant, Sound
<1>2. PICK t \in Storages :
        /\ <<t, Name>> \in KeysOf(hive, t)
        /\ KeysOf(hive', t) = KeysOf(hive, t) \ {<<t, Name>>}
        /\ \A u \in Storages \ {t} : KeysOf(hive', u) = KeysOf(hive, u)
  BY <1>1, DeleteStep
<1>3. \A u \in Storages \ {t} : <<t, Name>> \notin KeysOf(hive, u)
  <2> SUFFICES ASSUME NEW u \in Storages \ {t}, <<t, Name>> \in KeysOf(hive, u) PROVE FALSE
    OBVIOUS
  <2>1. PICK n \in Names : <<t, Name>> = <<u, n>>
    BY <1>1, KeysTyped
  <2>2. QED
    BY <2>1
<1>4. Keys(hive') = Keys(hive) \ {<<t, Name>>} /\ <<t, Name>> \in Keys(hive)
  <2>1. \A k : k \in Keys(hive') <=> \E u \in Storages : k \in KeysOf(hive', u)
    BY <1>1, KeysFacts
  <2>2. \A k : k \in Keys(hive) <=> \E u \in Storages : k \in KeysOf(hive, u)
    BY <1>1, KeysFacts
  <2>3. QED
    BY <1>2, <1>3, <2>1, <2>2
<1>5. QED
  BY <1>4 DEF Set!Next, Set!Delete

LEMMA SetReloads ==
  ASSUME Invariant, LoadHiveDataIntoRegistry
  PROVE  Set!Next
<1>1. Sound(hive) /\ Sound(hive') /\ hive \in Hives /\ hive' \in Hives
  BY LoadStep DEF Invariant, Sound
<1>2. /\ KeysOf(hive', "Stable") = KeysOf(hive, "Stable")
      /\ KeysOf(hive', "Volatile") = {}
  BY <1>1, LoadStep
<1>3. \A u \in Storages : \A k \in KeysOf(hive, u) : k[1] = u
  BY <1>1, KeysTyped
<1>4. Keys(hive') = {k \in Keys(hive) : k[1] = "Stable"}
  <2>1. \A k : k \in Keys(hive') <=> \E u \in Storages : k \in KeysOf(hive', u)
    BY <1>1, KeysFacts
  <2>2. \A k : k \in Keys(hive) <=> \E u \in Storages : k \in KeysOf(hive, u)
    BY <1>1, KeysFacts
  <2>3. Storages = {"Stable", "Volatile"}
    BY StorageFacts
  <2>4. QED
    BY <1>2, <1>3, <2>1, <2>2, <2>3
<1>5. QED
  BY <1>4 DEF Set!Next, Set!Reload

LEMMA SetSyncs ==
  ASSUME Invariant, HvSyncHive
  PROVE  Keys(hive') = Keys(hive)
<1>1. /\ hive \in Hives /\ hive' \in Hives
      /\ \A t \in Storages : KeysOf(hive', t) = KeysOf(hive, t)
  BY SyncStep DEF Invariant, Sound
<1>2. \A k : k \in Keys(hive') <=> k \in Keys(hive)
  BY <1>1, KeysFacts
<1>3. QED
  BY <1>2

\* SetSpec: the index behaves as the set of subkeys of SubkeySet.  A key that is added
\* has a new name, in both storage types, a key that is deleted was there, and a load
\* drops the volatile ones.
THEOREM IndexIsSet == Spec => SetSpec
<1>1. Init => Set!Init
  <2> SUFFICES ASSUME Init PROVE Keys(hive) = {}
    BY DEF Set!Init
  <2>1. hive \in Hives /\ \A t \in Storages : KeysOf(hive, t) = {}
    BY InitSound DEF Invariant, Sound
  <2>2. QED
    BY <2>1, KeysFacts
<1>2. Invariant /\ [Next]_hive => [Set!Next]_(Keys(hive))
  <2> SUFFICES ASSUME Invariant, [Next]_hive PROVE [Set!Next]_(Keys(hive))
    OBVIOUS
  <2>1. ASSUME NEW key \in Subkeys, CmiAddSubKey(key) PROVE Set!Next
    BY <2>1, SetAdds
  <2>2. ASSUME NEW Name \in Names, NTRegDeleteKeyW(Name) PROVE Set!Next
    BY <2>2, SetDeletes
  <2>3. ASSUME HvSyncHive PROVE Keys(hive') = Keys(hive)
    BY <2>3, SetSyncs
  <2>4. ASSUME LoadHiveDataIntoRegistry PROVE Set!Next
    BY <2>4, SetReloads
  <2>5. CASE UNCHANGED hive
    BY <2>5
  <2>6. CASE Next
    BY <2>1, <2>2, <2>3, <2>4, <2>6 DEF Next
  <2>7. QED
    BY <2>5, <2>6
<1>3. Spec => Set!Spec
  BY <1>1, <1>2, Soundness, PTL DEF Spec, Set!Spec
<1>4. QED
  BY <1>3 DEF SetSpec

-----------------------------------------------------------------------------
(* Counting subkeys *)

\* The subkeys on some of the pages, and how many there are.
Part(S, I)  == UNION {Range(S[i]) : i \in I}
Total(S, I) == Cardinality(Part(S, I))

\* The number of the first subkey on page i.
Start(S, i) == Total(S, 1 .. i - 1)

LEMMA ListCount ==
  ASSUME NEW t \in Storages, NEW L \in KeyLists(t)
  PROVE  IsFiniteSet(Range(L)) /\ Cardinality(Range(L)) = Len(L)
<1>1. L \in Seq({t} \X Names) /\ Strict(L)
  BY DEF KeyLists
<1>2. /\ Len(L) \in Nat /\ DOMAIN L = 1 .. Len(L)
      /\ \A p \in DOMAIN L : NameOf(L[p]) \in Nat
  BY <1>1, KeyFacts
<1>3. L = [p \in DOMAIN L |-> L[p]]
  BY <1>1, LenProperties
<1>4. ASSUME NEW p \in DOMAIN L, NEW q \in DOMAIN L, L[p] = L[q] PROVE p = q
  <2>1. p < q => NameOf(L[p]) < NameOf(L[q])
    BY <1>1 DEF Strict
  <2>2. q < p => NameOf(L[q]) < NameOf(L[p])
    BY <1>1 DEF Strict
  <2>3. NameOf(L[p]) = NameOf(L[q]) /\ NameOf(L[p]) \in Nat
    BY <1>2, <1>4
  <2>4. QED
    BY <1>2, <2>1, <2>2, <2>3
<1>5. L \in Bijection(DOMAIN L, Range(L))
  BY <1>3, <1>4 DEF Bijection, Injection, Surjection, IsInjective, Range
<1>6. IsFiniteSet(DOMAIN L) /\ Cardinality(DOMAIN L) = Len(L)
  <2> DEFINE n == Len(L)
  <2>1. IsFiniteSet(1 .. n) /\ Cardinality(1 .. n) = IF 1 > n THEN 0 ELSE n - 1 + 1
    BY <1>2, FS_Interval
  <2> HIDE DEF n
  <2>2. Cardinality(1 .. n) = n
    BY <1>2, <2>1 DEF n
  <2>3. QED
    BY <1>2, <2>1, <2>2 DEF n
<1>7. ExistsBijection(DOMAIN L, Range(L))
  BY <1>5 DEF ExistsBijection
<1>8. QED
  BY <1>6, <1>7, FS_Bijection

LEMMA SomePages ==
  ASSUME NEW S, NEW I
  PROVE  \A k : k \in Part(S, I) <=> \E p \in I : k \in Range(S[p])
BY DEF Part

\* One page less has as many subkeys less as it lists.
LEMMA TotalTaken ==
  ASSUME NEW t \in Storages, NEW S \in Pages(t), NEW I \in SUBSET DOMAIN S
  PROVE  /\ IsFiniteSet(Part(S, I)) /\ Total(S, I) \in Nat
         /\ \A j \in I : Total(S, I) = Total(S, I \ {j}) + Len(S[j])
<1>1. ASSUME NEW J \in SUBSET DOMAIN S PROVE IsFiniteSet(Part(S, J)) /\ Total(S, J) \in Nat
  <2>1. IsFiniteSet(Entries(S))
    BY EntriesFinite
  <2>2. Part(S, J) \subseteq Entries(S)
    BY SomePages, OthersFacts
  <2>3. IsFiniteSet(Part(S, J))
    BY <2>1, <2>2, FS_Subset
  <2>4. QED
    BY <2>3, FS_CardinalityType DEF Total
<1>2. ASSUME NEW j \in I PROVE Total(S, I) = Total(S, I \ {j}) + Len(S[j])
  <2>1. j \in DOMAIN S /\ S[j] \in KeyLists(t)
    BY PageFacts
  <2>2. IsFiniteSet(Range(S[j])) /\ Cardinality(Range(S[j])) = Len(S[j])
    BY <2>1, ListCount
  <2>3. \A k : k \in Part(S, I) <=> k \in Part(S, I \ {j}) \cup Range(S[j])
    BY SomePages
  <2>4. Part(S, I \ {j}) \cap Range(S[j]) = {}
    <3> SUFFICES ASSUME NEW k \in Part(S, I \ {j}), k \in Range(S[j]) PROVE FALSE
      OBVIOUS
    <3>1. PICK p \in I \ {j} : k \in Range(S[p])
      BY SomePages
    <3>2. QED
      BY <2>1, <3>1, PagesDisjoint
  <2> DEFINE A == Part(S, I \ {j})
             B == Range(S[j])
  <2>5. IsFiniteSet(A) /\ Cardinality(A) \in Nat
    BY <1>1 DEF Total
  <2>6. IsFiniteSet(B) /\ Cardinality(B) \in Nat
    BY <2>2, FS_CardinalityType
  <2>7. Part(S, I) = A \cup B
    BY <2>3
  <2>8. A \cap B = {}
    BY <2>4
  <2> HIDE DEF A, B
  <2>9. Cardinality(A \cup B) = Cardinality(A) + Cardinality(B) - Cardinality(A \cap B)
    BY <2>5, <2>6, FS_Union
  <2>10. Cardinality(A \cap B) = 0
    BY <2>8, FS_EmptySet
  <2>11. Cardinality(A \cup B) = Cardinality(A) + Cardinality(B)
    BY <2>5, <2>6, <2>9, <2>10
  <2>12. QED
    BY <2>2, <2>7, <2>11 DEF Total, A, B
<1>3. QED
  BY <1>1, <1>2

LEMMA StartFacts ==
  ASSUME NEW t \in Storages, NEW S \in Pages(t)
  PROVE  /\ Start(S, 1) = 0 /\ Start(S, Len(S) + 1) = Cardinality(Entries(S))
         /\ \A i \in 1 .. Len(S) + 1 : Start(S, i) \in Nat
         /\ \A i \in 1 .. Len(S) : Start(S, i + 1) = Start(S, i) + Len(S[i])
         /\ \A i, j \in 1 .. Len(S) + 1 : i <= j => Start(S, i) <= Start(S, j)
<1>1. Len(S) \in Nat /\ DOMAIN S = 1 .. Len(S)
  BY PageFacts
<1> DEFINE n == Len(S)
<1>2. Start(S, 1) = 0
  <2>1. 1 .. 1 - 1 = {}
    OBVIOUS
  <2>2. Part(S, 1 .. 1 - 1) = {}
    BY <2>1, SomePages
  <2>3. QED
    BY <2>2, FS_EmptySet DEF Start, Total
<1>3. Start(S, n + 1) = Cardinality(Entries(S))
  <2>1. 1 .. (n + 1) - 1 = DOMAIN S
    BY <1>1
  <2>2. Part(S, DOMAIN S) = Entries(S)
    BY DEF Part, Entries
  <2>3. QED
    BY <2>1, <2>2 DEF Start, Total
<1>4. \A i \in 1 .. n + 1 : 1 .. i - 1 \in SUBSET DOMAIN S
  BY <1>1
<1>5. \A i \in 1 .. n + 1 : Start(S, i) \in Nat
  BY <1>4, TotalTaken DEF Start
<1>6. ASSUME NEW i \in 1 .. n PROVE Start(S, i + 1) = Start(S, i) + Len(S[i])
  <2>1. /\ 1 .. (i + 1) - 1 \in SUBSET DOMAIN S /\ i \in 1 .. (i + 1) - 1
        /\ (1 .. (i + 1) - 1) \ {i} = 1 .. i - 1
    BY <1>1
  <2>2. Total(S, 1 .. (i + 1) - 1) = Total(S, (1 .. (i + 1) - 1) \ {i}) + Len(S[i])
    BY <2>1, TotalTaken
  <2>3. QED
    BY <2>1, <2>2 DEF Start
<1>7. ASSUME NEW i \in 1 .. n + 1, NEW j \in 1 .. n + 1, i <= j
      PROVE  Start(S, i) <= Start(S, j)
  <2>1. \A p \in 1 .. i - 1 : p \in 1 .. j - 1
    BY <1>1, <1>7
  <2>2. Part(S, 1 .. i - 1) \subseteq Part(S, 1 .. j - 1)
    BY <2>1, SomePages
  <2>3. IsFiniteSet(Part(S, 1 .. j - 1))
    BY <1>4, TotalTaken
  <2>4. QED
    BY <2>2, <2>3, FS_Subset DEF Start, Total
<1>8. QED
  BY <1>2, <1>3, <1>5, <1>6, <1>7

-----------------------------------------------------------------------------
(* The subkey with a number *)

\* The subkey with the number m is on page i.
On(S, m, i) == i \in DOMAIN S /\ Start(S, i) <= m /\ m < Start(S, i + 1)

Numbered(S, m) ==
  IF \E i \in DOMAIN S : On(S, m, i)
  THEN LET i == CHOOSE i \in DOMAIN S : On(S, m, i) IN S[i][m - Start(S, i) + 1]
  ELSE HCELL_NIL

\* A number below the last is on one page.
LEMMA OnFacts ==
  ASSUME NEW t \in Storages, NEW S \in Pages(t), NEW m \in Nat
  PROVE  /\ m < Cardinality(Entries(S)) <=> \E i \in DOMAIN S : On(S, m, i)
         /\ \A i, j \in DOMAIN S : On(S, m, i) /\ On(S, m, j) => i = j
<1> DEFINE n == Len(S)
           c == Cardinality(Entries(S))
           At(i) == Start(S, i)
           Beyond == {i \in 1 .. n : m < At(i + 1)}
<1>1. n \in Nat /\ DOMAIN S = 1 .. n
  BY PageFacts
<1>2. /\ At(1) = 0 /\ At(n + 1) = c
      /\ \A i \in 1 .. n + 1 : At(i) \in Nat
      /\ \A i, j \in 1 .. n + 1 : i <= j => At(i) <= At(j)
  BY StartFacts
<1>3. \A i : On(S, m, i) <=> i \in 1 .. n /\ At(i) <= m /\ m < At(i + 1)
  BY <1>1 DEF On
<1> HIDE DEF n, c, At
<1>4. ASSUME m < c PROVE \E i \in 1 .. n : At(i) <= m /\ m < At(i + 1)
  <2>1. n # 0
    BY <1>2, <1>4
  <2>2. n \in Beyond
    BY <1>1, <1>2, <1>4, <2>1
  <2>3. Beyond \in SUBSET Nat /\ Beyond # {}
    <3>1. \A i \in Beyond : i \in 1 .. n
      OBVIOUS
    <3>2. \A i \in 1 .. n : i \in Nat
      BY <1>1
    <3> HIDE DEF Beyond
    <3>3. QED
      BY <2>2, <3>1, <3>2
  <2> DEFINE i == Min(Beyond)
  <2>4. i \in Beyond /\ \A j \in Beyond : i <= j
    BY <2>3, MinFacts
  <2> HIDE DEF i
  <2>5. i \in 1 .. n /\ m < At(i + 1)
    BY <2>4
  <2>6. CASE i = 1
    BY <1>2, <2>5, <2>6
  <2>7. CASE i # 1
    <3>1. i - 1 \in 1 .. n /\ (i - 1) + 1 = i /\ i \in 1 .. n + 1 /\ ~(i <= i - 1)
      BY <1>1, <2>5, <2>7
    <3>2. ~(m < At(i))
      BY <2>4, <3>1
    <3>3. At(i) <= m
      BY <1>2, <3>1, <3>2
    <3>4. QED
      BY <2>5, <3>3
  <2>8. QED
    BY <2>6, <2>7
<1>5. ASSUME NEW i \in 1 .. n, At(i) <= m, m < At(i + 1) PROVE m < c
  <2>1. i + 1 \in 1 .. n + 1 /\ n + 1 \in 1 .. n + 1 /\ i + 1 <= n + 1
    BY <1>1
  <2>2. At(i + 1) <= c /\ At(i + 1) \in Nat /\ c \in Nat
    BY <1>2, <2>1
  <2>3. QED
    BY <1>5, <2>2
<1>6. ASSUME NEW i \in 1 .. n, NEW j \in 1 .. n, m < At(i + 1), At(j) <= m PROVE ~(i < j)
  <2>1. i < j => i + 1 <= j /\ i + 1 \in 1 .. n + 1 /\ j \in 1 .. n + 1
    BY <1>1
  <2>2. i < j => At(i + 1) <= At(j) /\ At(i + 1) \in Nat /\ At(j) \in Nat
    BY <1>2, <2>1
  <2>3. QED
    BY <1>6, <2>2
<1>7. m < c <=> \E i \in DOMAIN S : On(S, m, i)
  BY <1>1, <1>3, <1>4, <1>5
<1>8. ASSUME NEW i \in DOMAIN S, NEW j \in DOMAIN S, On(S, m, i), On(S, m, j) PROVE i = j
  <2>1. i \in 1 .. n /\ j \in 1 .. n /\ ~(i < j) /\ ~(j < i)
    BY <1>3, <1>6, <1>8
  <2>2. QED
    BY <1>1, <2>1
<1>9. QED
  BY <1>7, <1>8 DEF c

LEMMA NumberedOn ==
  ASSUME NEW t \in Storages, NEW S \in Pages(t), NEW m \in Nat, NEW i, On(S, m, i)
  PROVE  /\ Numbered(S, m) = S[i][m - Start(S, i) + 1]
         /\ m - Start(S, i) + 1 \in DOMAIN S[i]
<1>1. i \in DOMAIN S
  BY DEF On
<1>2. Numbered(S, m) = S[i][m - Start(S, i) + 1]
  <2> DEFINE j == CHOOSE j \in DOMAIN S : On(S, m, j)
  <2>1. j \in DOMAIN S /\ On(S, m, j)
    BY <1>1
  <2>2. j = i
    BY <1>1, <2>1, OnFacts
  <2>3. Numbered(S, m) = S[j][m - Start(S, j) + 1]
    BY <1>1 DEF Numbered
  <2>4. QED
    BY <2>2, <2>3
<1>3. m - Start(S, i) + 1 \in DOMAIN S[i]
  <2>1. i \in 1 .. Len(S) /\ S[i] \in KeyLists(t) /\ Len(S) \in Nat
    BY <1>1, PageFacts
  <2>2. Len(S[i]) \in Nat /\ DOMAIN S[i] = 1 .. Len(S[i])
    BY <2>1, KeyFacts DEF KeyLists
  <2> DEFINE a == Start(S, i)
             l == Len(S[i])
  <2>3. i \in 1 .. Len(S) + 1
    BY <2>1
  <2>4. a \in Nat /\ Start(S, i + 1) = a + l
    BY <2>1, <2>3, StartFacts
  <2>5. a <= m /\ m < a + l
    BY <2>4 DEF On
  <2> HIDE DEF a, l
  <2>6. m - a + 1 \in 1 .. l
    BY <2>2, <2>4, <2>5 DEF l
  <2>7. QED
    BY <2>2, <2>6 DEF a, l
<1>4. QED
  BY <1>2, <1>3

\* The numbers follow the order of the names, and all subkeys have one.
LEMMA NumberedFacts ==
  ASSUME NEW t \in Storages, NEW S \in Pages(t)
  PROVE  LET c == Cardinality(Entries(S))
         IN  /\ \A m \in 0 .. c - 1 : Numbered(S, m) \in Entries(S)
             /\ \A m, n \in 0 .. c - 1 : m < n => NameOf(Numbered(S, m)) < NameOf(Numbered(S, n))
             /\ \A k \in Entries(S) : \E m \in 0 .. c - 1 : Numbered(S, m) = k
<1> DEFINE c == Cardinality(Entries(S))
<1>0. Ordered(S) /\ Len(S) \in Nat /\ DOMAIN S = 1 .. Len(S)
  BY PageFacts DEF Pages
<1>1. c \in Nat
  BY EntriesFinite, FS_CardinalityType
<1>2. ASSUME NEW m \in 0 .. c - 1
      PROVE  \E i \in DOMAIN S : /\ On(S, m, i) /\ S[i] \in KeyLists(t)
                                 /\ Numbered(S, m) = S[i][m - Start(S, i) + 1]
                                 /\ m - Start(S, i) + 1 \in DOMAIN S[i]
  <2>1. m \in Nat /\ m < c
    BY <1>1
  <2>2. PICK i \in DOMAIN S : On(S, m, i)
    BY <2>1, OnFacts
  <2>3. QED
    BY <2>1, <2>2, NumberedOn, PageFacts
<1>3. ASSUME NEW m \in 0 .. c - 1 PROVE Numbered(S, m) \in Entries(S)
  <2>1. PICK i \in DOMAIN S : /\ Numbered(S, m) = S[i][m - Start(S, i) + 1]
                              /\ m - Start(S, i) + 1 \in DOMAIN S[i]
    BY <1>2
  <2>2. Numbered(S, m) \in Range(S[i])
    BY <2>1 DEF Range
  <2>3. QED
    BY <2>2, OthersFacts
<1>4. ASSUME NEW m \in 0 .. c - 1, NEW n \in 0 .. c - 1, m < n
      PROVE  NameOf(Numbered(S, m)) < NameOf(Numbered(S, n))
  <2>1. PICK i \in DOMAIN S : /\ On(S, m, i) /\ S[i] \in KeyLists(t)
                              /\ Numbered(S, m) = S[i][m - Start(S, i) + 1]
                              /\ m - Start(S, i) + 1 \in DOMAIN S[i]
    BY <1>2
  <2>2. PICK j \in DOMAIN S : /\ On(S, n, j)
                              /\ Numbered(S, n) = S[j][n - Start(S, j) + 1]
                              /\ n - Start(S, j) + 1 \in DOMAIN S[j]
    BY <1>2
  <2>3. ~(j < i)
    <3>1. j < i => j + 1 <= i /\ j + 1 \in 1 .. Len(S) + 1 /\ i \in 1 .. Len(S) + 1
      BY <1>0
    <3>2. j < i => Start(S, j + 1) <= Start(S, i) /\ Start(S, i) \in Nat /\ Start(S, j + 1) \in Nat
      BY <3>1, StartFacts
    <3>3. Start(S, i) <= m /\ n < Start(S, j + 1)
      BY <2>1, <2>2 DEF On
    <3>4. m \in Nat /\ n \in Nat
      BY <1>1
    <3>5. QED
      BY <1>4, <3>2, <3>3, <3>4
  <2>4. CASE i = j
    <3> DEFINE p == m - Start(S, i) + 1
               q == n - Start(S, i) + 1
    <3>1. Start(S, i) \in Nat
      <4>1. i \in 1 .. Len(S) + 1
        BY <1>0
      <4>2. QED
        BY <4>1, StartFacts
    <3>2. p < q
      BY <1>1, <1>4, <3>1
    <3>3. p \in DOMAIN S[i] /\ q \in DOMAIN S[i]
      BY <2>1, <2>2, <2>4
    <3>4. Numbered(S, m) = S[i][p] /\ Numbered(S, n) = S[i][q]
      BY <2>1, <2>2, <2>4
    <3> HIDE DEF p, q
    <3>5. Strict(S[i])
      BY <2>1 DEF KeyLists
    <3>6. QED
      BY <3>2, <3>3, <3>4, <3>5 DEF Strict
  <2>5. CASE i # j
    <3>1. i < j
      BY <1>0, <2>3, <2>5
    <3>2. Apart(S[i], S[j])
      BY <1>0, <3>1 DEF Ordered
    <3>3. QED
      BY <2>1, <2>2, <3>2 DEF Apart
  <2>6. QED
    BY <2>4, <2>5
<1>5. ASSUME NEW k \in Entries(S) PROVE \E m \in 0 .. c - 1 : Numbered(S, m) = k
  <2>1. PICK i \in DOMAIN S : k \in Range(S[i])
    BY OthersFacts
  <2>2. PICK p \in DOMAIN S[i] : k = S[i][p]
    BY <2>1 DEF Range
  <2>3. i \in 1 .. Len(S) /\ i \in 1 .. Len(S) + 1 /\ S[i] \in KeyLists(t)
    BY <1>0, PageFacts
  <2>4. Len(S[i]) \in Nat /\ DOMAIN S[i] = 1 .. Len(S[i])
    BY <2>3, KeyFacts DEF KeyLists
  <2> DEFINE a == Start(S, i)
             l == Len(S[i])
             m == a + p - 1
  <2>5. a \in Nat /\ Start(S, i + 1) = a + l
    BY <2>3, StartFacts
  <2>6. p \in 1 .. l /\ l \in Nat
    BY <2>4
  <2> HIDE DEF l
  <2>7. m \in Nat /\ a <= m /\ m < a + l /\ m - a + 1 = p
    <3> HIDE DEF a
    <3>1. QED
      BY <2>5, <2>6
  <2> HIDE DEF m
  <2>8. On(S, m, i)
    BY <2>5, <2>7 DEF On
  <2> HIDE DEF a
  <2>9. Numbered(S, m) = k
    BY <2>2, <2>7, <2>8, NumberedOn DEF a
  <2>10. m < c
    BY <2>7, <2>8, OnFacts
  <2>11. m \in 0 .. c - 1
    BY <1>1, <2>7, <2>10
  <2>12. QED
    BY <2>9, <2>11
<1>6. QED
  BY <1>3, <1>4, <1>5

-----------------------------------------------------------------------------
(* The walk over the leaves *)

\* What is left of a number in a leaf: its subkey has this number in all.
Here(S, at) == Start(S, at.Leaf) + at.Number

LEMMA WalkStep ==
  ASSUME NEW t \in Storages, NEW S \in Pages(t), NEW i \in DOMAIN S, NEW n \in Nat
  PROVE  /\ n < Len(S[i]) => Numbered(S, Start(S, i) + n) = S[i][n + 1]
         /\ ~(n < Len(S[i])) => /\ n - Len(S[i]) \in 0 .. n
                                /\ Start(S, i + 1) + (n - Len(S[i])) = Start(S, i) + n
         /\ ~(n < Len(S[i])) /\ ~(i < Len(S)) => Numbered(S, Start(S, i) + n) = HCELL_NIL
<1>1. Len(S) \in Nat /\ DOMAIN S = 1 .. Len(S) /\ S[i] \in KeyLists(t)
  BY PageFacts
<1>2. Len(S[i]) \in Nat
  BY <1>1, KeyFacts DEF KeyLists
<1>3. i \in 1 .. Len(S) /\ i \in 1 .. Len(S) + 1
  BY <1>1
<1> DEFINE a == Start(S, i)
           l == Len(S[i])
           m == a + n
<1>4. a \in Nat /\ l \in Nat /\ Start(S, i + 1) = a + l
  BY <1>2, <1>3, StartFacts
<1> HIDE DEF a, l
<1>5. m \in Nat
  BY <1>4
<1>6. ASSUME n < l PROVE Numbered(S, m) = S[i][n + 1]
  <2>1. a <= m /\ m < a + l /\ m - a + 1 = n + 1
    BY <1>4, <1>6
  <2>2. On(S, m, i)
    BY <1>4, <2>1 DEF On, a
  <2>3. QED
    BY <1>5, <2>1, <2>2, NumberedOn DEF a
<1>7. ASSUME ~(n < l) PROVE n - l \in 0 .. n /\ Start(S, i + 1) + (n - l) = m
  BY <1>4, <1>7
<1>8. ASSUME ~(n < l), ~(i < Len(S)) PROVE Numbered(S, m) = HCELL_NIL
  <2>1. i + 1 = Len(S) + 1
    BY <1>1, <1>8
  <2>2. Cardinality(Entries(S)) = a + l
    BY <1>4, <2>1, StartFacts
  <2>3. ~(m < a + l)
    BY <1>4, <1>8
  <2>4. ~ \E j \in DOMAIN S : On(S, m, j)
    BY <1>5, <2>2, <2>3, OnFacts
  <2>5. QED
    BY <2>4 DEF Numbered
<1>9. QED
  BY <1>6, <1>7, <1>8 DEF a, l

\* A walk that goes from leaf to leaf as NumberInLeaves does.
Walks(S, Number, f) ==
  \A at \in [Leaf : DOMAIN S, Number : 0 .. Number] :
    f[at] = IF at.Number < Len(S[at.Leaf]) THEN S[at.Leaf][at.Number + 1]
            ELSE IF at.Leaf < Len(S)
            THEN f[[Leaf |-> at.Leaf + 1, Number |-> at.Number - Len(S[at.Leaf])]]
            ELSE HCELL_NIL

\* There is one: that which looks up what Numbered says.
LEMMA WalkExists ==
  ASSUME NEW t \in Storages, NEW S \in Pages(t), NEW Number \in Nat
  PROVE  \E f : f = [at \in [Leaf : DOMAIN S, Number : 0 .. Number] |->
                       IF at.Number < Len(S[at.Leaf]) THEN S[at.Leaf][at.Number + 1]
                       ELSE IF at.Leaf < Len(S)
                       THEN f[[Leaf |-> at.Leaf + 1, Number |-> at.Number - Len(S[at.Leaf])]]
                       ELSE HCELL_NIL]
<1> DEFINE D == [Leaf : DOMAIN S, Number : 0 .. Number]
           f == [at \in D |-> Numbered(S, Here(S, at))]
           After(at) == [Leaf |-> at.Leaf + 1, Number |-> at.Number - Len(S[at.Leaf])]
           Body(at) == IF at.Number < Len(S[at.Leaf]) THEN S[at.Leaf][at.Number + 1]
                       ELSE IF at.Leaf < Len(S) THEN f[After(at)] ELSE HCELL_NIL
<1>1. Len(S) \in Nat /\ DOMAIN S = 1 .. Len(S)
  BY PageFacts
<1>2. ASSUME NEW at \in D PROVE f[at] = Body(at)
  <2> DEFINE i == at.Leaf
             n == at.Number
  <2>1. i \in DOMAIN S /\ n \in Nat /\ n \in 0 .. Number
    OBVIOUS
  <2>2. f[at] = Numbered(S, Start(S, i) + n)
    BY DEF Here
  <2>3. CASE n < Len(S[i])
    BY <2>1, <2>2, <2>3, WalkStep
  <2>4. CASE ~(n < Len(S[i])) /\ ~(i < Len(S))
    BY <2>1, <2>2, <2>4, WalkStep
  <2>5. CASE ~(n < Len(S[i])) /\ i < Len(S)
    <3>1. n - Len(S[i]) \in 0 .. n /\ Start(S, i + 1) + (n - Len(S[i])) = Start(S, i) + n
      BY <2>1, <2>5, WalkStep
    <3> DEFINE next == After(at)
    <3>2. i + 1 \in DOMAIN S
      BY <1>1, <2>1, <2>5
    <3>3. n - Len(S[i]) \in 0 .. Number
      BY <2>1, <3>1
    <3>4. next \in D /\ next.Leaf = i + 1 /\ next.Number = n - Len(S[i])
      BY <3>2, <3>3
    <3> HIDE DEF next
    <3>5. f[next] = Numbered(S, Start(S, i) + n)
      BY <3>1, <3>4 DEF Here
    <3>6. QED
      BY <2>2, <2>5, <3>5 DEF next
  <2>6. QED
    BY <2>3, <2>4, <2>5
<1>3. f = [at \in D |-> f[at]]
  OBVIOUS
<1> HIDE DEF f
<1>4. f = [at \in D |-> Body(at)]
  BY <1>2, <1>3, Zenon
<1>5. QED
  BY <1>4

\* Every one finds what Numbered says.
LEMMA WalkFinds ==
  ASSUME NEW t \in Storages, NEW S \in Pages(t), NEW Number \in Nat, NEW f, Walks(S, Number, f)
  PROVE  \A i \in DOMAIN S, n \in 0 .. Number :
           f[[Leaf |-> i, Number |-> n]] = Numbered(S, Start(S, i) + n)
<1> DEFINE At(i, n) == [Leaf |-> i, Number |-> n]
           Right(i) == \A n \in 0 .. Number : f[At(i, n)] = Numbered(S, Start(S, i) + n)
           Bad == {k \in 0 .. Len(S) - 1 : ~Right(Len(S) - k)}
<1>1. Len(S) \in Nat /\ DOMAIN S = 1 .. Len(S)
  BY PageFacts
<1>2. ASSUME NEW i \in DOMAIN S, i < Len(S) => Right(i + 1) PROVE Right(i)
  <2> SUFFICES ASSUME NEW n \in 0 .. Number
               PROVE  f[At(i, n)] = Numbered(S, Start(S, i) + n)
    OBVIOUS
  <2>1. /\ At(i, n) \in [Leaf : DOMAIN S, Number : 0 .. Number]
        /\ At(i, n).Leaf = i /\ At(i, n).Number = n /\ n \in Nat
    OBVIOUS
  <2>2. f[At(i, n)] = IF n < Len(S[i]) THEN S[i][n + 1]
                      ELSE IF i < Len(S) THEN f[At(i + 1, n - Len(S[i]))] ELSE HCELL_NIL
    BY <2>1 DEF Walks
  <2>3. CASE n < Len(S[i])
    BY <2>1, <2>2, <2>3, WalkStep
  <2>4. CASE ~(n < Len(S[i])) /\ ~(i < Len(S))
    BY <2>1, <2>2, <2>4, WalkStep
  <2>5. CASE ~(n < Len(S[i])) /\ i < Len(S)
    <3>1. n - Len(S[i]) \in 0 .. n /\ Start(S, i + 1) + (n - Len(S[i])) = Start(S, i) + n
      BY <2>1, <2>5, WalkStep
    <3>2. n - Len(S[i]) \in 0 .. Number
      BY <3>1
    <3>3. f[At(i + 1, n - Len(S[i]))] = Numbered(S, Start(S, i + 1) + (n - Len(S[i])))
      BY <1>2, <2>5, <3>2
    <3>4. QED
      BY <2>2, <2>5, <3>1, <3>3
  <2>6. QED
    BY <2>3, <2>4, <2>5
<1> HIDE DEF Right
<1>3. Bad = {}
  <2> SUFFICES ASSUME Bad # {} PROVE FALSE
    OBVIOUS
  <2>1. Bad \in SUBSET Nat
    BY <1>1
  <2> DEFINE k == Min(Bad)
  <2>2. k \in Bad /\ \A j \in Bad : k <= j
    BY <2>1, MinFacts
  <2> HIDE DEF k
  <2>3. k \in 0 .. Len(S) - 1 /\ ~Right(Len(S) - k)
    BY <2>2
  <2> DEFINE i == Len(S) - k
  <2>4. i \in DOMAIN S /\ (i < Len(S) => k - 1 \in 0 .. Len(S) - 1 /\ Len(S) - (k - 1) = i + 1)
    BY <1>1, <2>3
  <2>5. ~(k <= k - 1)
    BY <1>1, <2>3
  <2>6. i < Len(S) => Right(i + 1)
    <3>1. k - 1 \notin Bad
      BY <2>2, <2>5
    <3> HIDE DEF i
    <3>2. QED
      BY <2>4, <3>1
  <2>7. Right(i)
    BY <1>2, <2>4, <2>6
  <2>8. QED
    BY <2>3, <2>7
<1>4. ASSUME NEW i \in DOMAIN S PROVE Right(i)
  <2>1. Len(S) - i \in 0 .. Len(S) - 1 /\ Len(S) - (Len(S) - i) = i
    BY <1>1
  <2>2. Len(S) - i \notin Bad
    BY <1>3
  <2>3. QED
    BY <2>1, <2>2
<1>5. QED
  BY <1>4 DEF Right

LEMMA WalkFacts ==
  ASSUME NEW t \in Storages, NEW S \in Pages(t), S # <<>>, NEW Number \in Nat
  PROVE  NumberInLeaves(S, Number) = Numbered(S, Number)
<1> DEFINE Is(f) == f = [at \in [Leaf : DOMAIN S, Number : 0 .. Number] |->
                           IF at.Number < Len(S[at.Leaf]) THEN S[at.Leaf][at.Number + 1]
                           ELSE IF at.Leaf < Len(S)
                           THEN f[[Leaf |-> at.Leaf + 1, Number |-> at.Number - Len(S[at.Leaf])]]
                           ELSE HCELL_NIL]
           w == CHOOSE f : Is(f)
<1>1. NumberInLeaves(S, Number) = w[[Leaf |-> 1, Number |-> Number]]
  BY DEF NumberInLeaves
<1>2. \E f : Is(f)
  BY WalkExists
<1>3. Is(w)
  BY <1>2
<1> HIDE DEF w
<1>4. Walks(S, Number, w)
  BY <1>3 DEF Walks
<1>5. 1 \in DOMAIN S
  BY PageFacts, EmptySeq DEF Pages
<1>6. w[[Leaf |-> 1, Number |-> Number]] = Numbered(S, Start(S, 1) + Number)
  BY <1>4, <1>5, WalkFinds
<1>7. Start(S, 1) + Number = Number
  BY StartFacts
<1>8. QED
  BY <1>1, <1>6, <1>7

\* The subkey with a number in the index of a storage type.
NumberIn(h, t, n) == CmpDoFindSubKeyByNumber(h, h.SubKeyLists[t], n)

\* One storage type: the numbers follow the names, and all its subkeys have one.
LEMMA NumberFacts ==
  ASSUME NEW h \in Hives, NEW t \in Storages, Good(h, t)
  PROVE  LET c == h.SubKeyCounts[t]
         IN  /\ c \in Nat
             /\ \A m \in 0 .. c - 1 : NumberIn(h, t, m) \in KeysOf(h, t)
             /\ \A m, n \in 0 .. c - 1 :
                  m < n => NameOf(NumberIn(h, t, m)) < NameOf(NumberIn(h, t, n))
             /\ \A k \in KeysOf(h, t) : \E m \in 0 .. c - 1 : NumberIn(h, t, m) = k
<1>0. h.SubKeyCounts[t] \in Nat
  BY HiveFacts
<1>1. CASE h.SubKeyCounts[t] = 0
  <2>1. KeysOf(h, t) = {}
    BY <1>1, KeysOfFacts DEF Good
  <2>2. 0 .. 0 - 1 = {}
    OBVIOUS
  <2>3. QED
    BY <1>1, <2>1, <2>2
<1>2. CASE h.SubKeyCounts[t] # 0
  <2> DEFINE c == h.SubKeyCounts[t]
             l == h.SubKeyLists[t]
  <2>1. PICK C, S : Chained(h, t, C, S) /\ c = Cardinality(Entries(S))
    BY <1>2 DEF Good
  <2>2. KeysOf(h, t) = Entries(S) /\ S \in Pages(t) /\ S # <<>>
    BY <2>1, ChainKeys DEF Chained
  <2>3. /\ DOMAIN S = 1 .. Len(S) /\ Len(S) \in Nat /\ DOMAIN C = DOMAIN S
        /\ \A i \in DOMAIN S : h.Cell[C[i]].List = S[i] /\ S[i] \in KeyLists(t)
        /\ ~Rooted(h, l) => Len(S) = 1
    <3>1. \A i \in DOMAIN S : h.Cell[C[i]].List = S[i]
      BY <2>1 DEF Chained, Holds
    <3>2. QED
      BY <2>1, <3>1, ChainFacts
  <2>4. ASSUME NEW n \in 0 .. c - 1 PROVE NumberIn(h, t, n) = Numbered(S, n)
    <3>0. n \in Nat /\ n < c
      BY <1>0
    <3>1. CASE Rooted(h, l)
      <4>1. h.Cell[l].List = C
        BY <2>1, <3>1 DEF Chained
      <4> DEFINE Lists == [i \in DOMAIN C |-> h.Cell[C[i]].List]
      <4>2. NumberIn(h, t, n) = NumberInLeaves(Lists, n)
        BY <3>1, <4>1 DEF NumberIn, CmpDoFindSubKeyByNumber, Rooted
      <4>3. S = [i \in DOMAIN S |-> S[i]]
        BY <2>2, LenProperties DEF Pages
      <4>4. Lists = S
        BY <2>3, <4>3
      <4> HIDE DEF Lists
      <4>5. QED
        BY <2>2, <3>0, <4>2, <4>4, WalkFacts
    <3>2. CASE ~Rooted(h, l)
      <4>1. Len(S) = 1 /\ 1 \in DOMAIN S /\ C = <<l>>
        BY <2>1, <2>3, <3>2 DEF Chained
      <4>2. h.Cell[l].List = S[1] /\ NumberIn(h, t, n) = h.Cell[l].List[n + 1]
        <5>1. C[1] = l
          BY <4>1
        <5>2. QED
          BY <2>3, <3>2, <4>1, <5>1 DEF NumberIn, CmpDoFindSubKeyByNumber, Rooted
      <4>3. Start(S, 1) = 0
        BY <2>2, StartFacts
      <4>4. PICK i \in DOMAIN S : On(S, n, i)
        BY <2>1, <2>2, <3>0, OnFacts
      <4>5. i = 1
        BY <2>3, <4>1
      <4>6. Numbered(S, n) = S[1][n - 0 + 1]
        BY <2>2, <3>0, <4>3, <4>4, <4>5, NumberedOn
      <4>7. n - 0 + 1 = n + 1
        BY <3>0
      <4>8. QED
        BY <4>2, <4>6, <4>7
    <3>3. QED
      BY <3>1, <3>2
  <2> HIDE DEF c
  <2>5. /\ \A m \in 0 .. c - 1 : Numbered(S, m) \in Entries(S)
        /\ \A m, n \in 0 .. c - 1 : m < n => NameOf(Numbered(S, m)) < NameOf(Numbered(S, n))
        /\ \A k \in Entries(S) : \E m \in 0 .. c - 1 : Numbered(S, m) = k
    BY <2>1, <2>2, NumberedFacts
  <2>6. /\ \A m \in 0 .. c - 1 : NumberIn(h, t, m) \in KeysOf(h, t)
        /\ \A m, n \in 0 .. c - 1 :
             m < n => NameOf(NumberIn(h, t, m)) < NameOf(NumberIn(h, t, n))
        /\ \A k \in KeysOf(h, t) : \E m \in 0 .. c - 1 : NumberIn(h, t, m) = k
    BY <2>2, <2>4, <2>5
  <2>7. QED
    BY <1>0, <2>6 DEF c
<1>3. QED
  BY <1>1, <1>2

\* Both storage types: the volatile numbers follow the stable ones.
LEMMA SoundFindsNumbers ==
  ASSUME Invariant
  PROVE  FoundByNumber
<1> DEFINE a == hive.SubKeyCounts["Stable"]
           b == hive.SubKeyCounts["Volatile"]
           F(n) == CmpFindSubKeyByNumber(hive, n)
           X(n) == NumberIn(hive, "Stable", n)
           Y(n) == NumberIn(hive, "Volatile", n)
           P == KeysOf(hive, "Stable")
           Q == KeysOf(hive, "Volatile")
           key == [n \in 0 .. (a + b) - 1 |-> F(n)]
<1>1. Sound(hive) /\ hive \in Hives
  BY DEF Invariant, Sound
<1>2. "Stable" \in Storages /\ "Volatile" \in Storages /\ Storages = {"Stable", "Volatile"}
  BY StorageFacts
<1>3. /\ a \in Nat
      /\ \A m \in 0 .. a - 1 : X(m) \in P
      /\ \A m, n \in 0 .. a - 1 : m < n => NameOf(X(m)) < NameOf(X(n))
      /\ \A k \in P : \E m \in 0 .. a - 1 : X(m) = k
  BY <1>1, <1>2, NumberFacts DEF Sound
<1>4. /\ b \in Nat
      /\ \A m \in 0 .. b - 1 : Y(m) \in Q
      /\ \A m, n \in 0 .. b - 1 : m < n => NameOf(Y(m)) < NameOf(Y(n))
      /\ \A k \in Q : \E m \in 0 .. b - 1 : Y(m) = k
  BY <1>1, <1>2, NumberFacts DEF Sound
<1>5. \A n : F(n) = IF n < a THEN X(n) ELSE IF n - a < b THEN Y(n - a) ELSE HCELL_NIL
  BY DEF CmpFindSubKeyByNumber, NumberIn
<1>6. /\ \A k \in P : NameOf(k) \in Nat /\ k[1] = "Stable"
      /\ \A k \in Q : NameOf(k) \in Nat /\ k[1] = "Volatile"
  BY <1>1, <1>2, KeysTyped, NamesAssumption
<1>7. Keys(hive) = P \cup Q
  <2>1. \A k : k \in Keys(hive) <=> k \in P \cup Q
    BY <1>1, <1>2, KeysFacts
  <2>2. QED
    BY <2>1
<1>8. KeyCount(hive) = a + b
  BY DEF KeyCount
<1> HIDE DEF a, b, F, X, Y, P, Q
<1>9. \A n \in 0 .. (a + b) - 1 :
        \/ n \in 0 .. a - 1 /\ F(n) = X(n) /\ F(n) \in P
        \/ n - a \in 0 .. b - 1 /\ F(n) = Y(n - a) /\ F(n) \in Q
  <2> SUFFICES ASSUME NEW n \in 0 .. (a + b) - 1
               PROVE  \/ n \in 0 .. a - 1 /\ F(n) = X(n) /\ F(n) \in P
                      \/ n - a \in 0 .. b - 1 /\ F(n) = Y(n - a) /\ F(n) \in Q
    OBVIOUS
  <2>1. a \in Nat /\ b \in Nat
    BY <1>3, <1>4
  <2>2. CASE n < a
    <3>1. n \in 0 .. a - 1
      BY <2>1, <2>2
    <3>2. QED
      BY <1>3, <1>5, <2>2, <3>1
  <2>3. CASE ~(n < a)
    <3>1. n - a \in 0 .. b - 1 /\ n - a < b
      BY <2>1, <2>3
    <3>2. QED
      BY <1>4, <1>5, <2>3, <3>1
  <2>4. QED
    BY <2>2, <2>3
<1>10. IsInjective(key)
  <2> SUFFICES ASSUME NEW m \in 0 .. (a + b) - 1, NEW n \in 0 .. (a + b) - 1, F(m) = F(n)
               PROVE  m = n
    BY DEF IsInjective
  <2>0. a \in Nat /\ b \in Nat /\ m \in Int /\ n \in Int
    BY <1>3, <1>4
  <2>1. CASE m \in 0 .. a - 1 /\ F(m) = X(m) /\ F(m) \in P
    <3>1. F(n) \notin Q
      BY <1>6, <2>1
    <3>2. n \in 0 .. a - 1 /\ F(n) = X(n)
      BY <1>9, <3>1
    <3>3. NameOf(X(m)) = NameOf(X(n)) /\ NameOf(X(m)) \in Nat
      BY <1>6, <2>1, <3>2
    <3>4. ~(m < n) /\ ~(n < m)
      BY <1>3, <2>1, <3>2, <3>3
    <3>5. QED
      BY <2>0, <3>4
  <2>2. CASE m - a \in 0 .. b - 1 /\ F(m) = Y(m - a) /\ F(m) \in Q
    <3>1. F(n) \notin P
      BY <1>6, <2>2
    <3>2. n - a \in 0 .. b - 1 /\ F(n) = Y(n - a)
      BY <1>9, <3>1
    <3>3. NameOf(Y(m - a)) = NameOf(Y(n - a)) /\ NameOf(Y(m - a)) \in Nat
      BY <1>6, <2>2, <3>2
    <3>4. ~(m - a < n - a) /\ ~(n - a < m - a)
      BY <1>4, <2>2, <3>2, <3>3
    <3>5. QED
      BY <2>0, <3>4
  <2>3. QED
    BY <1>9, <2>1, <2>2
<1>11. Range(key) = P \cup Q
  <2>1. ASSUME NEW k \in Range(key) PROVE k \in P \cup Q
    <3>1. PICK n \in 0 .. (a + b) - 1 : k = F(n)
      BY <2>1 DEF Range
    <3>2. QED
      BY <1>9, <3>1
  <2>2. ASSUME NEW k \in P PROVE k \in Range(key)
    <3>1. PICK m \in 0 .. a - 1 : X(m) = k
      BY <1>3
    <3>2. m \in 0 .. (a + b) - 1 /\ m < a
      BY <1>3, <1>4
    <3>3. F(m) = k
      BY <1>5, <3>1, <3>2
    <3>4. QED
      BY <3>2, <3>3 DEF Range
  <2>3. ASSUME NEW k \in Q PROVE k \in Range(key)
    <3>1. PICK m \in 0 .. b - 1 : Y(m) = k
      BY <1>4
    <3> DEFINE n == a + m
    <3>2. n \in 0 .. (a + b) - 1 /\ ~(n < a) /\ n - a = m /\ n - a < b
      BY <1>3, <1>4
    <3> HIDE DEF n
    <3>3. F(n) = k
      BY <1>5, <3>1, <3>2
    <3>4. QED
      BY <3>2, <3>3 DEF Range
  <2>4. QED
    BY <2>1, <2>2, <2>3
<1>12. F(a + b) = HCELL_NIL
  <2>1. ~(a + b < a) /\ ~((a + b) - a < b)
    BY <1>3, <1>4
  <2>2. QED
    BY <1>5, <2>1
<1>13. QED
  BY <1>7, <1>8, <1>10, <1>11, <1>12 DEF FoundByNumber, F

-----------------------------------------------------------------------------
(* The check of a loaded hive *)

LEMMA MaxFacts ==
  ASSUME NEW n \in Nat, NEW T \in SUBSET (1 .. n), T # {}
  PROVE  Max(T) \in T
<1> DEFINE R == {n - x : x \in T}
           m == Min(R)
<1>1. R \in SUBSET Nat /\ R # {}
  <2>1. \A x \in T : n - x \in Nat
    OBVIOUS
  <2>2. PICK x \in T : TRUE
    OBVIOUS
  <2>3. n - x \in R
    OBVIOUS
  <2>4. \A y \in R : y \in Nat
    BY <2>1
  <2> HIDE DEF R
  <2>5. QED
    BY <2>3, <2>4
<1>2. m \in R /\ \A y \in R : m <= y
  BY <1>1, MinFacts
<1> HIDE DEF m
<1>3. PICK x \in T : m = n - x
  BY <1>2
<1>4. \A y \in T : x >= y
  <2> SUFFICES ASSUME NEW y \in T PROVE x >= y
    OBVIOUS
  <2>1. n - y \in R
    OBVIOUS
  <2>2. m <= n - y
    BY <1>2, <2>1
  <2>3. x \in 1 .. n /\ y \in 1 .. n
    OBVIOUS
  <2>4. QED
    BY <1>3, <2>2, <2>3
<1>5. QED
  BY <1>4 DEF Max

LEMMA MaxOfPrefix ==
  ASSUME NEW n \in Nat \ {0}
  PROVE  Max(1 .. n) = n
<1>1. 1 .. n \in SUBSET (1 .. n) /\ 1 .. n # {} /\ n \in 1 .. n
  OBVIOUS
<1>2. \E x \in 1 .. n : \A y \in 1 .. n : x >= y
  BY <1>1
<1>3. Max(1 .. n) \in 1 .. n /\ \A y \in 1 .. n : Max(1 .. n) >= y
  BY <1>2 DEF Max
<1>4. Max(1 .. n) >= n
  BY <1>1, <1>3
<1>5. QED
  BY <1>3, <1>4

\* A function that adds the lengths of lists up as a fold does.
Sums(S, f) ==
  f = [s \in SUBSET DOMAIN S |-> IF s = {} THEN 0 ELSE f[s \ {Max(s)}] + Len(S[Max(s)])]

LEMMA SumExists ==
  ASSUME NEW t \in Storages, NEW S \in Pages(t)
  PROVE  \E f : Sums(S, f)
<1> DEFINE f == [s \in SUBSET DOMAIN S |-> Total(S, s)]
<1>1. Len(S) \in Nat /\ DOMAIN S = 1 .. Len(S)
  BY PageFacts
<1>2. ASSUME NEW s \in SUBSET DOMAIN S
      PROVE  f[s] = IF s = {} THEN 0 ELSE f[s \ {Max(s)}] + Len(S[Max(s)])
  <2>1. CASE s = {}
    <3>1. Part(S, s) = {}
      BY <2>1, SomePages
    <3>2. QED
      BY <2>1, <3>1, FS_EmptySet DEF Total
  <2>2. CASE s # {}
    <3>1. Max(s) \in s
      BY <1>1, <2>2, MaxFacts
    <3>2. Total(S, s) = Total(S, s \ {Max(s)}) + Len(S[Max(s)])
      BY <3>1, TotalTaken
    <3>3. s \ {Max(s)} \in SUBSET DOMAIN S
      OBVIOUS
    <3>4. QED
      BY <2>2, <3>2, <3>3
  <2>3. QED
    BY <2>1, <2>2
<1>3. f = [s \in SUBSET DOMAIN S |-> f[s]]
  OBVIOUS
<1> HIDE DEF f
<1>4. Sums(S, f)
  BY <1>2, <1>3, Zenon DEF Sums
<1>5. QED
  BY <1>4

LEMMA SumFacts ==
  ASSUME NEW t \in Storages, NEW S \in Pages(t), NEW f, Sums(S, f)
  PROVE  f[DOMAIN S] = Cardinality(Entries(S))
<1> DEFINE Bad == {m \in 0 .. Len(S) : f[1 .. m] # Start(S, m + 1)}
<1>1. Len(S) \in Nat /\ DOMAIN S = 1 .. Len(S)
  BY PageFacts
<1>2. Bad = {}
  <2> SUFFICES ASSUME Bad # {} PROVE FALSE
    OBVIOUS
  <2>1. Bad \in SUBSET Nat
    BY <1>1
  <2> DEFINE m == Min(Bad)
  <2>2. m \in Bad /\ \A j \in Bad : m <= j
    BY <2>1, MinFacts
  <2> HIDE DEF m
  <2>3. m \in 0 .. Len(S) /\ f[1 .. m] # Start(S, m + 1)
    BY <2>2
  <2>4. 1 .. m \in SUBSET DOMAIN S
    BY <1>1, <2>3
  <2>5. f[1 .. m] = IF 1 .. m = {} THEN 0 ELSE f[(1 .. m) \ {Max(1 .. m)}] + Len(S[Max(1 .. m)])
    BY <2>4 DEF Sums
  <2>6. CASE m = 0
    <3>1. 1 .. m = {} /\ m + 1 = 1
      BY <2>6
    <3>2. Start(S, 1) = 0
      BY StartFacts
    <3>3. QED
      BY <2>3, <2>5, <3>1, <3>2
  <2>7. CASE m # 0
    <3>1. /\ m \in Nat \ {0} /\ 1 .. m # {} /\ m \in 1 .. Len(S) /\ m - 1 \in 0 .. Len(S)
          /\ (m - 1) + 1 = m /\ ~(m <= m - 1) /\ (1 .. m) \ {m} = 1 .. m - 1
      BY <1>1, <2>3, <2>7
    <3>2. Max(1 .. m) = m
      BY <3>1, MaxOfPrefix
    <3>3. f[1 .. m - 1] = Start(S, m)
      BY <2>2, <3>1
    <3>4. Start(S, m + 1) = Start(S, m) + Len(S[m])
      BY <3>1, StartFacts
    <3>5. QED
      BY <2>3, <2>5, <3>1, <3>2, <3>3, <3>4
  <2>8. QED
    BY <2>6, <2>7
<1>3. Len(S) \in 0 .. Len(S)
  BY <1>1
<1>4. f[DOMAIN S] = Start(S, Len(S) + 1)
  BY <1>1, <1>2, <1>3
<1>5. QED
  BY <1>4, StartFacts

\* The check adds up the entries of the leaves.
LEMMA FoldCounts ==
  ASSUME NEW h, NEW t \in Storages, NEW S \in Pages(t), NEW C, DOMAIN C = DOMAIN S,
         \A i \in DOMAIN S : h.Cell[C[i]].List = S[i]
  PROVE  LET LeafCount(n, leaf) == n + Len(h.Cell[leaf].List)
         IN  FoldLeft(LeafCount, 0, C) = Cardinality(Entries(S))
<1> DEFINE LeafCount(n, leaf) == n + Len(h.Cell[leaf].List)
           Is(f) == f = [s \in SUBSET DOMAIN C |->
                           IF s = {} THEN 0 ELSE LeafCount(f[s \ {Max(s)}], C[Max(s)])]
           w == CHOOSE f : Is(f)
<1>1. FoldLeft(LeafCount, 0, C) = w[DOMAIN C]
  BY DEF FoldLeft, MapThenFoldSet
<1>2. ASSUME NEW f PROVE Is(f) <=> Sums(S, f)
  <2>1. Len(S) \in Nat /\ DOMAIN S = 1 .. Len(S)
    BY PageFacts
  <2>2. \A s \in SUBSET DOMAIN S : s # {} => Max(s) \in DOMAIN S
    BY <2>1, MaxFacts
  <2>3. \A s \in SUBSET DOMAIN S : s # {} => h.Cell[C[Max(s)]].List = S[Max(s)]
    BY <2>2
  <2>4. [s \in SUBSET DOMAIN C |-> IF s = {} THEN 0 ELSE LeafCount(f[s \ {Max(s)}], C[Max(s)])]
          = [s \in SUBSET DOMAIN S |-> IF s = {} THEN 0 ELSE f[s \ {Max(s)}] + Len(S[Max(s)])]
    BY <2>3
  <2>5. QED
    BY <2>4 DEF Sums
<1>3. \E f : Is(f)
  BY <1>2, SumExists
<1>4. Is(w)
  BY <1>3
<1> HIDE DEF w
<1>5. Sums(S, w)
  BY <1>2, <1>4
<1>6. w[DOMAIN S] = Cardinality(Entries(S))
  BY <1>5, SumFacts
<1>7. QED
  BY <1>1, <1>6

LEMMA SoundIsValid ==
  ASSUME Invariant
  PROVE  CmpValidateSubKeyList(hive)
<1> DEFINE c == hive.SubKeyLists["Stable"]
           LeafCount(n, leaf) == n + Len(hive.Cell[leaf].List)
<1>1. "Stable" \in Storages /\ Sound(hive) /\ hive \in Hives
  BY StorageFacts DEF Invariant, Sound
<1> SUFFICES ASSUME hive.SubKeyCounts["Stable"] > 0
             PROVE  /\ c \in DOMAIN hive.Cell
                    /\ IF Rooted(hive, c)
                       THEN /\ \A i \in DOMAIN hive.Cell[c].List :
                                 /\ hive.Cell[c].List[i] \in DOMAIN hive.Cell
                                 /\ ~Rooted(hive, hive.Cell[c].List[i])
                            /\ hive.SubKeyCounts["Stable"] = FoldLeft(LeafCount, 0, hive.Cell[c].List)
                       ELSE hive.SubKeyCounts["Stable"] = Len(hive.Cell[c].List)
  BY DEF CmpValidateSubKeyList, Rooted
<1>2. hive.SubKeyCounts["Stable"] # 0
  BY <1>1, HiveFacts
<1>3. PICK C, S : /\ Chained(hive, "Stable", C, S)
                  /\ hive.SubKeyCounts["Stable"] = Cardinality(Entries(S))
  BY <1>1, <1>2 DEF Sound, Good
<1>4. /\ DOMAIN C = DOMAIN S /\ S \in Pages("Stable") /\ DOMAIN S = 1 .. Len(S)
      /\ \A i \in DOMAIN S : /\ C[i] \in CellsOf(hive, "Stable") /\ ~Rooted(hive, C[i])
                             /\ hive.Cell[C[i]].List = S[i] /\ S[i] \in KeyLists("Stable")
      /\ ~Rooted(hive, c) => Len(S) = 1
  <2>1. S \in Pages("Stable") /\ \A i \in DOMAIN S : hive.Cell[C[i]].List = S[i]
    BY <1>3 DEF Chained, Holds
  <2>2. QED
    BY <1>3, <2>1, ChainFacts
<1>5. c \in DOMAIN hive.Cell
  BY <1>3 DEF Chained, CellsOf
<1>6. CASE Rooted(hive, c)
  <2>1. hive.Cell[c].List = C
    BY <1>3, <1>6 DEF Chained
  <2>2. \A i \in DOMAIN C : C[i] \in DOMAIN hive.Cell /\ ~Rooted(hive, C[i])
    BY <1>4 DEF CellsOf
  <2>3. FoldLeft(LeafCount, 0, C) = Cardinality(Entries(S))
    BY <1>1, <1>4, FoldCounts
  <2>4. QED
    BY <1>3, <1>5, <1>6, <2>1, <2>2, <2>3
<1>7. CASE ~Rooted(hive, c)
  <2>1. C = <<c>> /\ Len(S) = 1 /\ 1 \in DOMAIN S
    BY <1>3, <1>4, <1>7 DEF Chained
  <2>2. C[1] = c
    BY <2>1
  <2>3. hive.Cell[c].List = S[1] /\ S[1] \in KeyLists("Stable")
    BY <1>4, <2>1, <2>2
  <2>4. Cardinality(Entries(S)) = Len(S[1])
    <3>0. \A i \in DOMAIN S : i = 1
      <4>1. DOMAIN S = 1 .. 1
        BY <1>4, <2>1
      <4> HIDE DEF c
      <4>2. QED
        BY <4>1
    <3>1. \A k : k \in Entries(S) <=> k \in Range(S[1])
      BY <2>1, <3>0, OthersFacts
    <3>2. Entries(S) = Range(S[1])
      BY <3>1
    <3>3. QED
      BY <1>1, <2>3, <3>2, ListCount
  <2>5. QED
    BY <1>3, <1>5, <1>7, <2>3, <2>4
<1>8. QED
  BY <1>6, <1>7

LEMMA SoundIsOrdered ==
  ASSUME Invariant
  PROVE  CmpValidateLexicalOrder(hive)
<1> DEFINE a == hive.SubKeyCounts["Stable"]
           F(n) == CmpFindSubKeyByNumber(hive, n)
           X(n) == NumberIn(hive, "Stable", n)
<1> SUFFICES ASSUME NEW n \in 1 .. a - 1 PROVE NameOf(F(n - 1)) < NameOf(F(n))
  BY DEF CmpValidateLexicalOrder
<1>1. "Stable" \in Storages /\ hive \in Hives /\ Good(hive, "Stable")
  BY StorageFacts DEF Invariant, Sound
<1>2. /\ a \in Nat
      /\ \A m, k \in 0 .. a - 1 : m < k => NameOf(X(m)) < NameOf(X(k))
  BY <1>1, NumberFacts
<1>3. \A m : m < a => F(m) = X(m)
  BY DEF CmpFindSubKeyByNumber, NumberIn
<1> HIDE DEF a, F, X
<1>4. n - 1 \in 0 .. a - 1 /\ n \in 0 .. a - 1 /\ n - 1 < n /\ n - 1 < a /\ n < a
  BY <1>2
<1>5. QED
  BY <1>2, <1>3, <1>4

\* FoundByNumber: counting up from 0, as NTRegEnumKey is used, CmpFindSubKeyByNumber
\* yields every subkey of both storage types once, and nothing behind the last.
THEOREM NumbersAreFound == Spec => []FoundByNumber
BY Soundness, SoundFindsNumbers, PTL

\* LoadAccepts: CmpValidateSubKeyList and CmpValidateLexicalOrder accept every index
\* that the program builds.
THEOREM LoadSucceeds == Spec => []LoadAccepts
<1>1. Invariant => LoadAccepts
  BY SoundIsValid, SoundIsOrdered DEF LoadAccepts
<1>2. QED
  BY <1>1, Soundness, PTL
=============================================================================
