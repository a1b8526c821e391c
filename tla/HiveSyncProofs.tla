--------------------------- MODULE HiveSyncProofs ---------------------------
(***************************************************************************)
(* Proofs about saving and loading, for all hives, bounds and failures.    *)
(* In order:                                                               *)
(*   - files: what writes, and the outcomes of a crash, make of them;      *)
(*   - the invariant: types, calls, the progress of a save, and what the   *)
(*     primary file holds between and during saves;                        *)
(*   - the operations of HvpWriteHive, HvpWriteLog and HvSyncHive, and     *)
(*     how far a save has come after each of them;                         *)
(*   - one lemma for each action;                                          *)
(*   - the theorems, the last of them the refinement of DurableHive.       *)
(***************************************************************************)
EXTENDS HiveSync, SequenceTheorems, FiniteSetTheorems, WellFoundedInduction, TLAPS

\* The largest number of a non-empty set of bounded natural numbers.
LEMMA MaxFacts ==
  ASSUME NEW n \in Nat, NEW T \in SUBSET (1 .. n), T # {}
  PROVE  Max(T) \in T /\ \A i \in T : i <= Max(T)
<1> DEFINE R == OpToRel(<, Nat)
           U == {n - i : i \in T}
<1>1. IsWellFoundedOn(R, Nat)
  BY NatLessThanWellFounded
<1>2. R = {ss \in Nat \X Nat : ss[1] < ss[2]}
  BY Zenon DEF OpToRel
<1> HIDE DEF R
<1>3. U \subseteq Nat /\ U # {}
  <2>1. \A i \in T : n - i \in Nat
    OBVIOUS
  <2>2. QED
    BY <2>1
<1>4. PICK x \in U : \A y \in U : <<y, x>> \notin R
  BY <1>1, <1>3, WFMin
<1>5. \A y \in U : x <= y
  <2> SUFFICES ASSUME NEW y \in U, ~(x <= y) PROVE <<y, x>> \in R
    BY <1>4
  <2>1. x \in Nat /\ y \in Nat /\ y < x
    BY <1>3
  <2>2. <<y, x>> \in Nat \X Nat /\ <<y, x>>[1] = y /\ <<y, x>>[2] = x
    BY <2>1
  <2>3. QED
    BY <2>1, <2>2, <1>2
<1>6. PICK m \in T : x = n - m
  OBVIOUS
<1>7. ASSUME NEW i \in T PROVE i <= m
  <2>1. n - i \in U
    OBVIOUS
  <2>2. n - m <= n - i
    BY <1>5, <1>6, <2>1
  <2>3. n \in Int /\ m \in Int /\ i \in Int
    OBVIOUS
  <2> HIDE DEF U
  <2>4. QED
    BY <2>2, <2>3
<1>8. QED
  BY <1>7 DEF Max

-----------------------------------------------------------------------------
(* Files *)

\* No write leaves a file as it is.
LEMMA WrittenNothing ==
  ASSUME NEW f, f = [p \in Places |-> f[p]]
  PROVE  Written(f, << >>) = f
BY DEF Written, WritesAt

\* Making the writes a and then the writes b is making the writes of both.
LEMMA WrittenConcat ==
  ASSUME NEW f, NEW S, NEW a \in Seq(S), NEW b \in Seq(S)
  PROVE  Written(f, a \o b) = Written(Written(f, a), b)
<1> DEFINE c == a \o b
<1>1. /\ c \in Seq(S) /\ Len(c) = Len(a) + Len(b)
      /\ \A i \in 1 .. Len(a) + Len(b) : c[i] = IF i <= Len(a) THEN a[i] ELSE b[i - Len(a)]
  BY ConcatProperties
<1>2. /\ Len(a) \in Nat /\ Len(b) \in Nat
      /\ DOMAIN a = 1 .. Len(a) /\ DOMAIN b = 1 .. Len(b) /\ DOMAIN c = 1 .. Len(a) + Len(b)
  BY <1>1, LenProperties
<1> HIDE DEF c
<1> SUFFICES Written(f, c) = Written(Written(f, a), b)
  BY DEF c
<1>3. ASSUME NEW p, WritesAt(b, p) # {}
      PROVE  WritesAt(c, p) # {} /\ c[Max(WritesAt(c, p))].value = b[Max(WritesAt(b, p))].value
  <2> DEFINE m == Max(WritesAt(b, p))
             n == Max(WritesAt(c, p))
  <2>1. WritesAt(b, p) \subseteq 1 .. Len(b) /\ WritesAt(c, p) \subseteq 1 .. Len(a) + Len(b)
    BY <1>2 DEF WritesAt
  <2>2. m \in WritesAt(b, p) /\ \A i \in WritesAt(b, p) : i <= m
    BY <1>2, <1>3, <2>1, MaxFacts
  <2> HIDE DEF m
  <2>3. Len(a) + m \in WritesAt(c, p) /\ c[Len(a) + m] = b[m]
    BY <1>1, <1>2, <2>1, <2>2 DEF WritesAt
  <2>4. n \in WritesAt(c, p) /\ \A i \in WritesAt(c, p) : i <= n
    <3>1. Len(a) + Len(b) \in Nat
      BY <1>2
    <3>2. QED
      BY <3>1, <2>1, <2>3, MaxFacts
  <2> HIDE DEF n
  <2>5. n - Len(a) \in WritesAt(b, p)
    <3>1. /\ n \in 1 .. Len(a) + Len(b) /\ m \in 1 .. Len(b) /\ Len(a) + m <= n
          /\ c[n].place = p
      BY <1>2, <2>1, <2>2, <2>3, <2>4 DEF WritesAt
    <3>2. n - Len(a) \in 1 .. Len(b) /\ c[n] = b[n - Len(a)]
      BY <1>1, <1>2, <3>1
    <3>3. QED
      BY <1>2, <3>1, <3>2 DEF WritesAt
  <2>6. n = Len(a) + m
    BY <1>2, <2>1, <2>2, <2>3, <2>4, <2>5
  <2>7. QED
    BY <2>3, <2>6 DEF m, n
<1>4. ASSUME NEW p, WritesAt(b, p) = {}
      PROVE  /\ WritesAt(c, p) = WritesAt(a, p)
             /\ WritesAt(a, p) # {} => c[Max(WritesAt(a, p))] = a[Max(WritesAt(a, p))]
  <2>1. WritesAt(c, p) = WritesAt(a, p)
    <3>1. \A i \in DOMAIN a : i \in DOMAIN c /\ c[i] = a[i]
      BY <1>1, <1>2
    <3>2. ASSUME NEW i \in DOMAIN c, c[i].place = p PROVE i \in DOMAIN a
      <4> SUFFICES ASSUME i > Len(a) PROVE FALSE
        BY <1>2
      <4>1. i - Len(a) \in DOMAIN b /\ c[i] = b[i - Len(a)]
        BY <1>1, <1>2
      <4>2. QED
        BY <1>4, <3>2, <4>1 DEF WritesAt
    <3>3. QED
      BY <3>1, <3>2 DEF WritesAt
  <2>2. ASSUME WritesAt(a, p) # {}
        PROVE  c[Max(WritesAt(a, p))] = a[Max(WritesAt(a, p))]
    <3>1. WritesAt(a, p) \subseteq 1 .. Len(a)
      BY <1>2 DEF WritesAt
    <3>2. Max(WritesAt(a, p)) \in 1 .. Len(a)
      BY <1>2, <2>2, <3>1, MaxFacts
    <3>3. QED
      BY <1>1, <1>2, <3>2
  <2>3. QED
    BY <2>1, <2>2
<1>5. QED
  BY <1>3, <1>4 DEF Written
\* One more write changes one place.
LEMMA WrittenOne ==
  ASSUME NEW f, NEW w
  PROVE  Written(f, <<w>>) = [p \in DOMAIN f |-> IF p = w.place THEN w.value ELSE f[p]]
<1>1. DOMAIN <<w>> = 1 .. 1 /\ <<w>>[1] = w
  OBVIOUS
<1>2. ASSUME NEW p, p # w.place PROVE WritesAt(<<w>>, p) = {}
  BY <1>1, <1>2 DEF WritesAt
<1>3. ASSUME NEW p, p = w.place PROVE WritesAt(<<w>>, p) # {} /\ <<w>>[Max(WritesAt(<<w>>, p))] = w
  <2>1. 1 \in WritesAt(<<w>>, p) /\ WritesAt(<<w>>, p) \subseteq 1 .. 1
    BY <1>1, <1>3 DEF WritesAt
  <2>2. Max(WritesAt(<<w>>, p)) \in 1 .. 1
    BY <2>1, MaxFacts
  <2>3. QED
    BY <1>1, <2>1, <2>2
<1>4. QED
  BY <1>2, <1>3 DEF Written

(***************************************************************************)
(* What the writes of both a and b may leave of a file is what those of a  *)
(* may leave of it, or what those of b may leave once a has been made.     *)
(***************************************************************************)
LEMMA OutcomesConcat ==
  ASSUME NEW f, NEW S, NEW a \in Seq(S), NEW b \in Seq(S)
  PROVE  Outcomes(f, a \o b) \subseteq Outcomes(f, a) \cup Outcomes(Written(f, a), b)
<1> DEFINE c == a \o b
<1>1. /\ c \in Seq(S) /\ Len(c) = Len(a) + Len(b)
      /\ \A i \in 1 .. Len(a) + Len(b) : c[i] = IF i <= Len(a) THEN a[i] ELSE b[i - Len(a)]
  BY ConcatProperties
<1>2. Len(a) \in Nat /\ Len(b) \in Nat
  BY LenProperties
<1>3. ASSUME NEW n \in 0 .. Len(a)
      PROVE  SubSeq(c, 1, n) = SubSeq(a, 1, n)
  <2>1. \A i \in 1 .. n : c[i] = a[i]
    BY <1>1, <1>2
  <2>2. QED
    BY <2>1, <1>1, <1>2
<1>4. ASSUME NEW n \in 0 .. Len(b)
      PROVE  SubSeq(c, 1, Len(a) + n) = a \o SubSeq(b, 1, n) /\ SubSeq(b, 1, n) \in Seq(S)
  <2> DEFINE l == SubSeq(c, 1, Len(a) + n)
             t == SubSeq(b, 1, n)
             r == a \o t
  <2>1. \A i \in 1 .. Len(a) + n : c[i] \in S
    BY <1>1, <1>2, ElementOfSeq
  <2>2. l \in Seq(S) /\ Len(l) = Len(a) + n /\ \A i \in 1 .. Len(a) + n : l[i] = c[i]
    <3>1. Len(a) + n \in Int /\ 1 \in Int
      BY <1>2
    <3> HIDE DEF c
    <3>2. /\ l \in Seq(S)
          /\ Len(l) = IF 1 <= Len(a) + n THEN Len(a) + n - 1 + 1 ELSE 0
          /\ \A i \in 1 .. Len(a) + n - 1 + 1 : l[i] = c[1 + i - 1]
      BY <2>1, <3>1, SubSeqProperties
    <3>3. QED
      BY <1>2, <3>2
  <2>3. \A i \in 1 .. n : b[i] \in S
    BY <1>2, ElementOfSeq
  <2>4. t \in Seq(S) /\ Len(t) = n /\ \A i \in 1 .. n : t[i] = b[i]
    <3>1. /\ t \in Seq(S)
          /\ Len(t) = IF 1 <= n THEN n - 1 + 1 ELSE 0
          /\ \A i \in 1 .. n - 1 + 1 : t[i] = b[1 + i - 1]
      BY <2>3, SubSeqProperties
    <3>2. QED
      BY <3>1
  <2> HIDE DEF t, c
  <2>5. r \in Seq(S) /\ Len(r) = Len(a) + n
        /\ \A i \in 1 .. Len(a) + n : r[i] = IF i <= Len(a) THEN a[i] ELSE t[i - Len(a)]
    BY <2>4, ConcatProperties
  <2>6. \A i \in 1 .. Len(a) + n : l[i] = r[i]
    BY <1>1, <1>2, <2>2, <2>4, <2>5
  <2> HIDE DEF l, r
  <2>7. l = r
    BY <2>2, <2>5, <2>6, SeqEqual
  <2>8. QED
    BY <2>4, <2>7 DEF l, r, t
<1> HIDE DEF c
<1> DEFINE g == Written(f, a)
<1>5. ASSUME NEW n \in 0 .. Len(c)
      PROVE  Written(f, SubSeq(c, 1, n)) \in Outcomes(f, a) \cup Outcomes(g, b)
  <2>1. CASE n <= Len(a)
    <3>1. n \in 0 .. Len(a)
      BY <1>1, <1>2, <2>1
    <3>2. QED
      BY <1>3, <3>1 DEF Outcomes
  <2>2. CASE n > Len(a)
    <3> DEFINE k == n - Len(a)
    <3>1. k \in 0 .. Len(b) /\ n = Len(a) + k
      BY <1>1, <1>2, <2>2
    <3> HIDE DEF k
    <3>2. Written(f, SubSeq(c, 1, n)) = Written(g, SubSeq(b, 1, k))
      <4> DEFINE t == SubSeq(b, 1, k)
      <4>1. SubSeq(c, 1, n) = a \o t /\ t \in Seq(S)
        BY <1>4, <3>1
      <4> HIDE DEF t
      <4>2. Written(f, a \o t) = Written(g, t)
        BY <4>1, WrittenConcat
      <4>3. QED
        BY <4>1, <4>2 DEF t
    <3>3. QED
      BY <3>1, <3>2 DEF Outcomes
  <2>3. QED
    BY <1>1, <1>2, <2>1, <2>2
<1>6. ASSUME NEW n \in 1 .. Len(c), Tearable(c[n])
      PROVE  Written(f, Append(SubSeq(c, 1, n - 1), TornWrite(c[n])))
               \in Outcomes(f, a) \cup Outcomes(g, b)
  <2>1. CASE n <= Len(a)
    <3>1. n \in 1 .. Len(a) /\ n - 1 \in 0 .. Len(a) /\ c[n] = a[n]
      BY <1>1, <1>2, <2>1
    <3>2. QED
      BY <1>3, <1>6, <3>1 DEF Outcomes
  <2>2. CASE n > Len(a)
    <3> DEFINE k == n - Len(a)
               t == SubSeq(b, 1, k - 1)
               w == TornWrite(c[n])
    <3>1. k \in 1 .. Len(b) /\ k - 1 \in 0 .. Len(b) /\ n - 1 = Len(a) + (k - 1) /\ c[n] = b[k]
      BY <1>1, <1>2, <2>2
    <3>2. SubSeq(c, 1, n - 1) = a \o t /\ t \in Seq(S)
      BY <1>4, <3>1
    <3> HIDE DEF t, w
    <3> DEFINE T == S \cup {w}
    <3>3. a \in Seq(T) /\ t \in Seq(T) /\ w \in T
      BY <3>2, SeqMonotonic
    <3> HIDE DEF T
    <3>4. Append(a \o t, w) = a \o Append(t, w) /\ Append(t, w) \in Seq(T)
      <4>1. a \o t \in Seq(T) /\ <<w>> \in Seq(T)
        BY <3>3, ConcatProperties
      <4>2. Append(a \o t, w) = (a \o t) \o <<w>> /\ Append(t, w) = t \o <<w>>
        BY <3>3, <4>1, AppendIsConcat
      <4>3. (a \o t) \o <<w>> = a \o (t \o <<w>>)
        BY <3>3, <4>1, ConcatAssociative
      <4>4. QED
        BY <3>3, <4>2, <4>3, AppendProperties
    <3>5. Written(f, Append(SubSeq(c, 1, n - 1), w)) = Written(g, Append(t, w))
      <4> DEFINE u == Append(t, w)
      <4>1. u \in Seq(T) /\ Append(SubSeq(c, 1, n - 1), w) = a \o u
        BY <3>2, <3>4
      <4> HIDE DEF u
      <4>2. Written(f, a \o u) = Written(g, u)
        BY <3>3, <4>1, WrittenConcat
      <4>3. QED
        BY <4>1, <4>2 DEF u
    <3> HIDE DEF k
    <3>6. Written(g, Append(SubSeq(b, 1, k - 1), TornWrite(b[k]))) \in Outcomes(g, b)
      BY <1>6, <3>1 DEF Outcomes
    <3>7. QED
      BY <3>1, <3>5, <3>6 DEF t, w
  <2>3. QED
    BY <1>1, <1>2, <2>1, <2>2
<1>7. QED
  BY <1>5, <1>6 DEF Outcomes, c

\* A write that is pending may leave nothing, all or, when it is torn, a part.
LEMMA OutcomesOne ==
  ASSUME NEW f, f = [q \in Places |-> f[q]], NEW w, NEW p \in Outcomes(f, <<w>>)
  PROVE  \/ p = f
         \/ p = Written(f, <<w>>)
         \/ Tearable(w) /\ p = Written(f, <<TornWrite(w)>>)
<1>1. Len(<<w>>) = 1 /\ <<w>>[1] = w /\ SubSeq(<<w>>, 1, 0) = << >> /\ SubSeq(<<w>>, 1, 1) = <<w>>
  <2>1. <<w>> \in Seq({w}) /\ Len(<<w>>) = 1 /\ <<w>>[1] = w
    OBVIOUS
  <2>2. SubSeq(<<w>>, 1, 0) = << >>
    BY SubSeqEmpty
  <2>3. SubSeq(<<w>>, 1, Len(<<w>>)) = <<w>>
    BY <2>1, SubSeqFull
  <2>4. QED
    BY <2>1, <2>2, <2>3
<1>2. Append(<< >>, TornWrite(w)) = <<TornWrite(w)>>
  OBVIOUS
<1>3. Written(f, << >>) = f
  BY WrittenNothing
<1>4. ASSUME NEW n \in 0 .. 1, p = Written(f, SubSeq(<<w>>, 1, n))
      PROVE  p = f \/ p = Written(f, <<w>>)
  <2>1. n = 0 \/ n = 1
    OBVIOUS
  <2>2. QED
    BY <1>1, <1>3, <1>4, <2>1
<1>5. ASSUME NEW n \in 1 .. 1, Tearable(<<w>>[n]),
             p = Written(f, Append(SubSeq(<<w>>, 1, n - 1), TornWrite(<<w>>[n])))
      PROVE  Tearable(w) /\ p = Written(f, <<TornWrite(w)>>)
  <2>1. n = 1 /\ n - 1 = 0
    OBVIOUS
  <2>2. QED
    BY <1>1, <1>2, <1>5, <2>1
<1>6. QED
  BY <1>1, <1>4, <1>5 DEF Outcomes

\* Without a pending write the file is as it is.
LEMMA OutcomesNothing ==
  ASSUME NEW f, f = [p \in Places |-> f[p]]
  PROVE  Outcomes(f, << >>) = {f}
<1>1. Len(<< >>) = 0 /\ SubSeq(<< >>, 1, 0) = << >>
  BY SubSeqEmpty
<1>2. 0 .. 0 = {0} /\ 1 .. 0 = {}
  OBVIOUS
<1>3. Written(f, << >>) = f
  BY WrittenNothing
<1>4. {m \in 1 .. Len(<< >>) : Tearable(<< >>[m])} = {}
  BY <1>1, <1>2
<1>5. {Written(f, SubSeq(<< >>, 1, n)) : n \in 0 .. Len(<< >>)} = {f}
  <2>1. 0 .. Len(<< >>) = {0}
    BY <1>1, <1>2
  <2>2. \A n \in {0} : Written(f, SubSeq(<< >>, 1, n)) = f
    BY <1>1, <1>3
  <2>3. QED
    BY <2>1, <2>2
<1>6. QED
  BY <1>4, <1>5 DEF Outcomes

\* The order of numbers lists each of them once.
LEMMA AscendingFacts ==
  ASSUME NEW S \in SUBSET Nat, IsFiniteSet(S)
  PROVE  /\ Cardinality(S) \in Nat
         /\ Ascending(S) \in [1 .. Cardinality(S) -> S]
         /\ \A n \in S : \E i \in 1 .. Cardinality(S) : Ascending(S)[i] = n
         /\ \A i, j \in 1 .. Cardinality(S) : Ascending(S)[i] = Ascending(S)[j] => i = j
<1> DEFINE N == Cardinality(S)
           rank(n) == Cardinality(Below(S, n))
           f == [n \in S |-> rank(n) + 1]
<1>1. N \in Nat
  BY FS_CardinalityType
<1>2. ASSUME NEW n \in S
      PROVE  rank(n) \in Nat /\ rank(n) < N /\ IsFiniteSet(Below(S, n))
  <2>1. Below(S, n) \in SUBSET S /\ n \notin Below(S, n)
    BY DEF Below
  <2>2. IsFiniteSet(Below(S, n)) /\ rank(n) <= N /\ (N = rank(n) => S = Below(S, n))
    BY <2>1, FS_Subset
  <2>3. rank(n) \in Nat
    BY <2>2, FS_CardinalityType
  <2>4. QED
    BY <1>1, <2>1, <2>2, <2>3
<1>3. ASSUME NEW n \in S, NEW m \in S, m < n
      PROVE  rank(m) < rank(n)
  <2>1. Below(S, m) \in SUBSET Below(S, n) /\ m \in Below(S, n) /\ m \notin Below(S, m)
    <3>1. ASSUME NEW k \in S, k < m PROVE k < n
      BY <1>3, <3>1
    <3>2. ~(m < m)
      OBVIOUS
    <3>3. QED
      BY <1>3, <3>1, <3>2 DEF Below
  <2>2. rank(m) <= rank(n) /\ (rank(n) = rank(m) => Below(S, n) = Below(S, m))
    BY <1>2, <2>1, FS_Subset
  <2>3. QED
    BY <1>2, <2>1, <2>2
<1>4. f \in [S -> 1 .. N]
  BY <1>1, <1>2
<1>5. ASSUME NEW n \in S, NEW m \in S, rank(n) = rank(m)
      PROVE  n = m
  <2>1. ~(n < m) /\ ~(m < n)
    BY <1>2, <1>3, <1>5
  <2>2. QED
    BY <2>1
<1>6. f \in Injection(S, 1 .. N)
  BY <1>2, <1>4, <1>5 DEF Injection, IsInjective
<1>7. IsFiniteSet(1 .. N) /\ Cardinality(1 .. N) = N
  BY <1>1, FS_Interval
<1>8. f \in Surjection(S, 1 .. N)
  BY <1>6, <1>7, FS_Injection
<1>9. ASSUME NEW i \in 1 .. N PROVE \E n \in S : rank(n) = i - 1
  <2>1. PICK n \in S : f[n] = i
    BY <1>8 DEF Surjection
  <2>2. rank(n) + 1 = i
    BY <2>1
  <2>3. QED
    BY <1>1, <1>2, <2>2
<1>10. \A i \in 1 .. N : Ascending(S)[i] \in S /\ rank(Ascending(S)[i]) = i - 1
  BY <1>1, <1>9 DEF Ascending
<1>11. ASSUME NEW n \in S PROVE \E i \in 1 .. N : Ascending(S)[i] = n
  <2>1. rank(n) + 1 \in 1 .. N
    BY <1>1, <1>2
  <2>2. rank(Ascending(S)[rank(n) + 1]) = rank(n)
    BY <1>2, <1>10, <2>1
  <2>3. Ascending(S)[rank(n) + 1] = n
    BY <1>5, <1>10, <2>1, <2>2
  <2>4. QED
    BY <2>1, <2>3
<1>12. \A i, j \in 1 .. N : Ascending(S)[i] = Ascending(S)[j] => i = j
  BY <1>1, <1>10
<1>13. Ascending(S) \in [1 .. N -> S]
  BY <1>10 DEF Ascending
<1>14. QED
  BY <1>1, <1>11, <1>12, <1>13
-----------------------------------------------------------------------------
(* The invariant: types *)

\* The headers of a log stay below the bound on the numbers that saves start from.
HeaderOK(file, hd) ==
  /\ hd \in HeaderType \cup {None, Torn}
  /\ file = "LOG" => hd \in {None, Torn} \/ hd.Sequence1 <= MaxSequence

\* What may be written to a file, and what it may hold.
WritesTo(file) ==
  [place : {HEADER}, value : {hd \in HeaderType \cup {None, Torn} : HeaderOK(file, hd)}]
  \cup [place : {BITMAP}, value : {None} \cup SUBSET Blocks]
  \cup [place : {Block(i) : i \in Blocks}, value : Contents \cup {None, Torn}]

FileIn(file, f) == f = [p \in Places |-> f[p]] /\ FileOK(f) /\ HeaderOK(file, f[HEADER])

Operation ==
  UNION {[op : {"write", "flush", "error"}, file : {f}, writes : Seq(WritesTo(f)),
          Sequence1 : Sequences, Sequence2 : Sequences,
          fails : {"return", "ignore", "Fallback", "Corrupt", "IoFailed"}] : f \in Files}

CallNames ==
  {"none", "HvSyncHive", "HvWriteHive", "HvWriteAlternateHive", "RecoverHeader", "RecoverData",
   "ReplayData", "Fallback", "HvSyncHiveFromRecover"}

Types ==
  /\ fileType \in FileTypes
  /\ status \in {"Down", "Loading", "Up", "Corrupt", "IoFailed"}
  /\ hive \in [Data : Images, Dirty : SUBSET Blocks, Sequence1 : Sequences, Sequence2 : Sequences]
  /\ hive.Dirty \subseteq DOMAIN hive.Data
  /\ call \in [name : CallNames, base : HeaderType \cup {None, Torn}, steps : Seq(Operation)]
  /\ DOMAIN disk = Files /\ \A f \in Files : FileIn(f, disk[f])
  /\ DOMAIN pending = Files /\ \A f \in Files : pending[f] \in Seq(WritesTo(f))
  /\ changes \in Contents
  /\ promised \in Images /\ attempts \subseteq Images

-----------------------------------------------------------------------------
(* The invariant: calls *)

RecoveryCalls == {"RecoverHeader", "RecoverData", "ReplayData", "Fallback"}
Replaying == call.name \in RecoveryCalls
SavesPrimary == call.name \in {"HvSyncHive", "HvWriteHive", "HvSyncHiveFromRecover"}

AtPrimary(o) == o.file = "PRIMARY"
HasError(st) == st # << >> /\ Head(st).op = "error"

\* Which files the operations st of the call "name" use, and what it does if one fails.
StepsOK(name, st) ==
  \A i \in DOMAIN st :
    LET o == st[i]
    IN  /\ CASE name \in RecoveryCalls ->
               o.fails \in {"Fallback", "Corrupt"} /\ (o.op # "error" => AtPrimary(o))
             [] name = "HvSyncHiveFromRecover" ->
               /\ o.fails \in {"IoFailed", "ignore"} /\ o.op # "error"
               /\ o.fails = "ignore" => \A j \in DOMAIN st : j >= i => ~AtPrimary(st[j])
             [] OTHER -> o.fails = "return" /\ o.op # "error"
        /\ name = "HvWriteHive" => AtPrimary(o)
        /\ name = "HvWriteAlternateHive" => ~AtPrimary(o)

\* Which calls there are in which state, and what they do about a failure.
CallsOK ==
  /\ status = "Up" =>
       call.name \in {"none", "HvSyncHive", "HvWriteHive", "HvWriteAlternateHive"}
  /\ status = "Up" \/ SavesPrimary => hive.Data # << >>
  /\ status = "Loading" => Log
  /\ status = "Loading" => Replaying \/ call.name = "HvSyncHiveFromRecover"
  /\ status \notin {"Up", "Loading"} => call = NoCall
  /\ call.name = "none" => call = NoCall
  /\ status = "Down" => \A f \in Files : pending[f] = << >>
  /\ StepsOK(call.name, call.steps)
  /\ call.name \in {"HvSyncHive", "HvWriteHive"} => hive.Data \in attempts

\* The headers from which a hive is recovered.
BasesOK ==
  /\ call.name = "RecoverData" =>
       call.base \in HeaderType /\ call.base.Sequence1 # call.base.Sequence2
  /\ call.name = "RecoverHeader" =>
       RecoveredHeader(View("LOG")) # None \/ HasError(call.steps)
  /\ call.name \in {"ReplayData", "Fallback"} =>
       \/ call.base \in HeaderType /\ call.base.Sequence1 <= MaxSequence
       \/ call.name = "Fallback" /\ HasError(call.steps)

-----------------------------------------------------------------------------
(* The invariant: the primary file during a save *)

PrimaryHeader(d, s1, s2) == Header(s1, s2, "PRIMARY", Len(d))

\* The five stages of HvpWriteHive: header, blocks, flush, header, flush.
Stage(o) ==
  IF o.op = "flush" THEN IF o.Sequence1 = o.Sequence2 THEN 5 ELSE 3
  ELSE IF o.writes[1].place # HEADER THEN 2
  ELSE IF o.Sequence1 = o.Sequence2 THEN 4 ELSE 1

WritesBlock(o, d, b) == o.writes = <<At(Block(b), d[b])>>

\* An operation that writes the blocks bs of the image d, from the sequence number s on.
PlannedOp(o, d, bs, s) ==
  /\ o.Sequence1 = s + 1
  /\ Stage(o) = 1 => o.op = "write" /\ o.writes = <<At(HEADER, PrimaryHeader(d, s + 1, s))>>
  /\ Stage(o) = 2 => o.op = "write" /\ o.Sequence2 = s /\ \E b \in bs : WritesBlock(o, d, b)
  /\ Stage(o) \in {3, 5} => o.writes = << >>
  /\ Stage(o) = 4 => o.op = "write" /\ o.writes = <<At(HEADER, PrimaryHeader(d, s + 1, s + 1))>>

\* Is there still an operation on the primary file in one of the stages?
Remains(st, stages) == \E i \in DOMAIN st : AtPrimary(st[i]) /\ Stage(st[i]) \in stages

\* What remains of a save.
Planned(st, d, bs, s) ==
  /\ \A i \in DOMAIN st : AtPrimary(st[i]) => PlannedOp(st[i], d, bs, s)
  /\ \A i, j \in DOMAIN st :
       i < j /\ AtPrimary(st[i]) /\ AtPrimary(st[j]) =>
         \/ Stage(st[i]) < Stage(st[j])
         \/ Stage(st[i]) = 2 /\ Stage(st[j]) = 2
  /\ Remains(st, {1, 2, 3}) => Remains(st, {4})
  /\ Remains(st, {1, 2, 3, 4}) => Remains(st, {5})

\* What has been done of it: v is the primary file as it is read.
Done(st, d, s, v) ==
  /\ ~Remains(st, {1}) /\ Remains(st, {2, 3, 4}) => v[HEADER] = PrimaryHeader(d, s + 1, s)
  /\ \A b \in DOMAIN d :
       \/ v[Block(b)] = d[b]
       \/ \E i \in DOMAIN st : AtPrimary(st[i]) /\ Stage(st[i]) = 2 /\ WritesBlock(st[i], d, b)
  /\ ~Remains(st, {1, 2, 3, 4}) => v[HEADER] = PrimaryHeader(d, s + 1, s + 1)

ToSave == IF call.name = "HvWriteHive" THEN DOMAIN hive.Data ELSE hive.Dirty

SaveGoesOn ==
  SavesPrimary =>
    /\ \E s \in 0 .. MaxSequence :
         /\ Planned(call.steps, hive.Data, ToSave, s)
         /\ Done(call.steps, hive.Data, s, View("PRIMARY"))
    /\ ~Remains(call.steps, {1, 2, 3, 4, 5}) => pending["PRIMARY"] = << >>

\* Blocks that are not dirty are as in the file, whenever a save may start.
MaySave ==
  /\ status = "Up"
  /\ \/ call.name = "none" /\ hive.Sequence1 = hive.Sequence2
     \/ call.name = "HvWriteAlternateHive"

CleanMatches ==
  MaySave => \A b \in DOMAIN hive.Data \ hive.Dirty : View("PRIMARY")[Block(b)] = hive.Data[b]

\* Between saves the primary file holds what was promised.
Settled ==
  status = "Up" /\ attempts = {} =>
    /\ pending["PRIMARY"] = << >>
    /\ Sound(disk["PRIMARY"])
    /\ PrimaryImage(disk["PRIMARY"]) = promised

\* Without a log, a file that a load would take holds a whole image.
WholeImages ==
  ~Log => \A p \in Outcomes(disk["PRIMARY"], pending["PRIMARY"]) :
            Sound(p) => PrimaryImage(p) \in attempts \cup {promised}

IInv == Types /\ CallsOK /\ BasesOK /\ SaveGoesOn /\ CleanMatches /\ Settled /\ WholeImages
-----------------------------------------------------------------------------
(* Types *)

\* The places of a file are all different.
LEMMA PlaceFacts ==
  /\ HEADER # BITMAP /\ HEADER \in Places /\ BITMAP \in Places
  /\ \A i \in Blocks : Block(i) \in Places
  /\ \A i : Block(i) # HEADER /\ Block(i) # BITMAP
  /\ \A i, j : Block(i) = Block(j) => i = j
BY DEF Places, HEADER, BITMAP, Block

\* An image is a sequence of contents.
LEMMA ImageFacts ==
  ASSUME NEW d \in Images
  PROVE  /\ d \in Seq(Contents \cup {Torn}) /\ Len(d) \in 0 .. MaxLength
         /\ DOMAIN d = 1 .. Len(d) /\ DOMAIN d \subseteq Blocks
         /\ \A i \in DOMAIN d : d[i] \in Contents \cup {Torn}
         /\ d # << >> => Len(d) \in 1 .. MaxLength
<1>1. PICK n \in 0 .. MaxLength : d \in [1 .. n -> Contents \cup {Torn}]
  BY DEF Images
<1>2. MaxLength \in Nat
  BY BoundsAssumption
<1>3. d \in Seq(Contents \cup {Torn}) /\ Len(d) = n
  BY <1>1, <1>2
<1>4. QED
  BY <1>1, <1>2, <1>3 DEF Blocks

\* A write puts a value of its place's kind there.
LEMMA WriteFacts ==
  ASSUME NEW file, NEW w \in WritesTo(file)
  PROVE  /\ w.place \in Places
         /\ w.place = HEADER =>
              w.value \in HeaderType \cup {None, Torn} /\ HeaderOK(file, w.value)
         /\ w.place = BITMAP => w.value \in {None} \cup SUBSET Blocks
         /\ \A i \in Blocks : w.place = Block(i) => w.value \in Contents \cup {None, Torn}
<1>1. CASE w \in [place : {HEADER}, value : {hd \in HeaderType \cup {None, Torn} : HeaderOK(file, hd)}]
  BY <1>1, PlaceFacts
<1>2. CASE w \in [place : {BITMAP}, value : {None} \cup SUBSET Blocks]
  <2>1. w.place = BITMAP /\ w.value \in {None} \cup SUBSET Blocks
    BY <1>2
  <2>2. w.value \in {None} \cup SUBSET Blocks
    BY <2>1, Zenon
  <2>3. QED
    BY <2>1, <2>2, PlaceFacts
<1>3. CASE w \in [place : {Block(i) : i \in Blocks}, value : Contents \cup {None, Torn}]
  BY <1>3, PlaceFacts
<1>4. QED
  BY <1>1, <1>2, <1>3 DEF WritesTo

\* Writes keep a file a file.
LEMMA WrittenOK ==
  ASSUME NEW file, NEW f, FileIn(file, f), NEW ws \in Seq(WritesTo(file))
  PROVE  FileIn(file, Written(f, ws))
<1> DEFINE g == Written(f, ws)
<1>1. g = [p \in Places |-> g[p]] /\ DOMAIN g = Places
  BY DEF Written, FileIn
<1>2. ASSUME NEW p \in Places
      PROVE  g[p] = f[p] \/ \E w \in WritesTo(file) : w.place = p /\ g[p] = w.value
  <2>1. CASE WritesAt(ws, p) = {}
    BY <2>1 DEF Written, FileIn
  <2>2. CASE WritesAt(ws, p) # {}
    <3> DEFINE m == Max(WritesAt(ws, p))
    <3>1. WritesAt(ws, p) \subseteq 1 .. Len(ws) /\ Len(ws) \in Nat
      BY LenProperties DEF WritesAt
    <3>2. m \in WritesAt(ws, p)
      BY <2>2, <3>1, MaxFacts
    <3>3. ws[m] \in WritesTo(file) /\ ws[m].place = p
      BY <3>1, <3>2, ElementOfSeq DEF WritesAt
    <3>4. g[p] = ws[m].value
      BY <2>2 DEF Written, FileIn
    <3>5. QED
      BY <3>3, <3>4
  <2>3. QED
    BY <2>1, <2>2
<1> HIDE DEF g
<1>3. g[HEADER] \in HeaderType \cup {None, Torn} /\ HeaderOK(file, g[HEADER])
  BY <1>2, PlaceFacts, WriteFacts DEF FileIn, FileOK
<1>4. g[BITMAP] \in {None} \cup SUBSET Blocks
  BY <1>2, PlaceFacts, WriteFacts DEF FileIn, FileOK
<1>5. \A i \in Blocks : g[Block(i)] \in Contents \cup {None, Torn}
  BY <1>2, PlaceFacts, WriteFacts DEF FileIn, FileOK
<1>6. FileIn(file, g)
  BY <1>1, <1>3, <1>4, <1>5 DEF FileIn, FileOK
<1>7. QED
  BY <1>6 DEF g

\* A torn write is a write.
LEMMA TornOK ==
  ASSUME NEW file, NEW w \in WritesTo(file), Tearable(w)
  PROVE  TornWrite(w) \in WritesTo(file) /\ Tearable(TornWrite(w))
         /\ TornWrite(w).place = w.place /\ TornWrite(TornWrite(w)) = TornWrite(w)
<1>1. w.place = HEADER \/ \E i \in Blocks : w.place = Block(i)
  <2>1. BITMAP[1] # "block"
    BY DEF BITMAP
  <2>2. QED
    BY <2>1, WriteFacts, PlaceFacts DEF Tearable, Places
<1>2. TornWrite(w) = [place |-> w.place, value |-> Torn]
  BY DEF TornWrite, At
<1>3. HeaderOK(file, Torn)
  BY DEF HeaderOK
<1>4. QED
  BY <1>1, <1>2, <1>3 DEF WritesTo, Tearable, TornWrite, At

\* A crash leaves a file a file.
LEMMA OutcomesOK ==
  ASSUME NEW file, NEW f, FileIn(file, f), NEW ws \in Seq(WritesTo(file)), NEW p \in Outcomes(f, ws)
  PROVE  FileIn(file, p)
<1>1. Len(ws) \in Nat
  BY LenProperties
<1>2. ASSUME NEW n \in 0 .. Len(ws) PROVE SubSeq(ws, 1, n) \in Seq(WritesTo(file))
  <2>1. \A i \in 1 .. n : ws[i] \in WritesTo(file)
    BY <1>1, ElementOfSeq
  <2>2. QED
    BY <1>1, <2>1, SubSeqProperties
<1>3. CASE \E n \in 0 .. Len(ws) : p = Written(f, SubSeq(ws, 1, n))
  BY <1>2, <1>3, WrittenOK
<1>4. CASE \E n \in 1 .. Len(ws) :
             /\ Tearable(ws[n])
             /\ p = Written(f, Append(SubSeq(ws, 1, n - 1), TornWrite(ws[n])))
  <2>1. PICK n \in 1 .. Len(ws) : /\ Tearable(ws[n])
             /\ p = Written(f, Append(SubSeq(ws, 1, n - 1), TornWrite(ws[n])))
    BY <1>4
  <2>2. ws[n] \in WritesTo(file) /\ n - 1 \in 0 .. Len(ws)
    BY <1>1, ElementOfSeq
  <2>3. TornWrite(ws[n]) \in WritesTo(file) /\ SubSeq(ws, 1, n - 1) \in Seq(WritesTo(file))
    BY <1>2, <2>1, <2>2, TornOK
  <2>4. Append(SubSeq(ws, 1, n - 1), TornWrite(ws[n])) \in Seq(WritesTo(file))
    BY <2>3, AppendProperties
  <2>5. QED
    BY <2>1, <2>4, WrittenOK
<1>5. QED
  BY <1>3, <1>4 DEF Outcomes

\* What has been written is one of the outcomes.
LEMMA ViewIsOutcome ==
  ASSUME NEW S, NEW f, NEW ws \in Seq(S)
  PROVE  Written(f, ws) \in Outcomes(f, ws)
<1>1. Len(ws) \in 0 .. Len(ws)
  BY LenProperties
<1>2. SubSeq(ws, 1, Len(ws)) = ws
  BY SubSeqFull
<1>3. QED
  BY <1>1, <1>2 DEF Outcomes
-----------------------------------------------------------------------------
(* The operations of the calls *)

\* Operations with their types are operations.
LEMMA OpFacts ==
  ASSUME NEW o, NEW file \in Files, o.file = file,
         o = [op |-> o.op, file |-> o.file, writes |-> o.writes, Sequence1 |-> o.Sequence1,
              Sequence2 |-> o.Sequence2, fails |-> o.fails],
         o.op \in {"write", "flush", "error"}, o.writes \in Seq(WritesTo(file)),
         o.Sequence1 \in Sequences, o.Sequence2 \in Sequences,
         o.fails \in {"return", "ignore", "Fallback", "Corrupt", "IoFailed"}
  PROVE  o \in Operation
<1>1. o \in [op : {"write", "flush", "error"}, file : {file}, writes : Seq(WritesTo(file)),
               Sequence1 : Sequences, Sequence2 : Sequences,
               fails : {"return", "ignore", "Fallback", "Corrupt", "IoFailed"}]
  OBVIOUS
<1>2. QED
  BY <1>1 DEF Operation

\* What there is to an operation.
LEMMA OperationFacts ==
  ASSUME NEW o \in Operation
  PROVE  /\ o.op \in {"write", "flush", "error"} /\ o.file \in Files
         /\ o.writes \in Seq(WritesTo(o.file))
         /\ o.Sequence1 \in Sequences /\ o.Sequence2 \in Sequences
         /\ o.fails \in {"return", "ignore", "Fallback", "Corrupt", "IoFailed"}
<1>1. PICK f \in Files :
        o \in [op : {"write", "flush", "error"}, file : {f}, writes : Seq(WritesTo(f)),
               Sequence1 : Sequences, Sequence2 : Sequences,
               fails : {"return", "ignore", "Fallback", "Corrupt", "IoFailed"}]
  BY DEF Operation
<1>2. QED
  BY <1>1

\* The headers and the blocks that a save writes.
LEMMA WriteTypes ==
  ASSUME NEW file \in Files
  PROVE  /\ \A hd \in HeaderType : HeaderOK(file, hd) => At(HEADER, hd) \in WritesTo(file)
         /\ At(HEADER, None) \in WritesTo(file)
         /\ At(BITMAP, None) \in WritesTo(file)
         /\ \A B \in SUBSET Blocks : At(BITMAP, B) \in WritesTo(file)
         /\ \A i \in Blocks, c \in Contents \cup {None, Torn} : At(Block(i), c) \in WritesTo(file)
<1>1. HeaderOK(file, None)
  BY DEF HeaderOK
<1>2. QED
  BY <1>1 DEF WritesTo, At

\* A header of an image is a header.
LEMMA HeaderTypes ==
  ASSUME NEW d \in Images, d # << >>, NEW s1 \in Sequences, NEW s2 \in Sequences,
         NEW type \in {"PRIMARY", "LOG"}
  PROVE  Header(s1, s2, type, Len(d)) \in HeaderType
<1>1. Len(d) \in 1 .. MaxLength
  BY ImageFacts
<1>2. QED
  BY <1>1 DEF HeaderType, Header

\* An operation with its types.
LEMMA OpTypes ==
  ASSUME NEW op \in {"write", "flush", "error"}, NEW file \in Files,
         NEW writes \in Seq(WritesTo(file)), NEW s1 \in Sequences, NEW s2 \in Sequences,
         NEW fails \in {"return", "ignore", "Fallback", "Corrupt", "IoFailed"}
  PROVE  Op(op, file, writes, s1, s2, fails) \in Operation
BY DEF Op, Operation

(***************************************************************************)
(* The operations of HvpWriteHive, one by one: the header, each of the     *)
(* blocks once, a flush, the header, a flush.                              *)
(***************************************************************************)
WriteHiveShape(ops, N, h, s, blocks, file, fails) ==
  /\ N \in Nat /\ ops \in Seq(Operation) /\ Len(ops) = N + 4
  /\ ops[1] = Write(file, <<At(HEADER, PrimaryHeader(h.Data, s + 1, s))>>, s + 1, s, fails)
  /\ \A i \in 2 .. N + 1 : \E b \in blocks :
       ops[i] = Write(file, <<At(Block(b), h.Data[b])>>, s + 1, s, fails)
  /\ \A b \in blocks : \E i \in 2 .. N + 1 :
       ops[i] = Write(file, <<At(Block(b), h.Data[b])>>, s + 1, s, fails)
  /\ ops[N + 2] = Flush(file, s + 1, s, fails)
  /\ ops[N + 3] =
       Write(file, <<At(HEADER, PrimaryHeader(h.Data, s + 1, s + 1))>>, s + 1, s + 1, fails)
  /\ ops[N + 4] = Flush(file, s + 1, s + 1, fails)

\* The operations of HvpWriteHive have that shape.
LEMMA WriteHiveFacts ==
  ASSUME NEW h, h.Data \in Images, h.Data # << >>, NEW blocks \in SUBSET DOMAIN h.Data,
         NEW s \in Sequences, s + 1 \in Sequences, NEW file \in {"PRIMARY", "ALTERNATE"},
         NEW fails \in {"return", "ignore", "Fallback", "Corrupt", "IoFailed"}
  PROVE  \E N \in Nat :
           WriteHiveShape(HvpWriteHive(h, s, blocks, file, fails), N, h, s, blocks, file, fails)
<1> DEFINE N == Cardinality(blocks)
           order == Ascending(blocks)
           blk(b) == Write(file, <<At(Block(b), h.Data[b])>>, s + 1, s, fails)
           a1 == Write(file, <<At(HEADER, PrimaryHeader(h.Data, s + 1, s))>>, s + 1, s, fails)
           a == <<a1>>
           b == [i \in 1 .. Len(order) |-> blk(order[i])]
           c1 == Flush(file, s + 1, s, fails)
           c2 == Write(file, <<At(HEADER, PrimaryHeader(h.Data, s + 1, s + 1))>>,
                       s + 1, s + 1, fails)
           c3 == Flush(file, s + 1, s + 1, fails)
           c == <<c1, c2, c3>>
           ops == HvpWriteHive(h, s, blocks, file, fails)
<1>1. DOMAIN h.Data \subseteq Blocks /\ \A i \in DOMAIN h.Data : h.Data[i] \in Contents \cup {None, Torn}
  BY ImageFacts
<1>2. blocks \in SUBSET Nat /\ IsFiniteSet(blocks)
  <2>1. IsFiniteSet(1 .. MaxLength)
    BY BoundsAssumption, FS_Interval
  <2>2. blocks \subseteq 1 .. MaxLength
    BY <1>1 DEF Blocks
  <2>3. IsFiniteSet(blocks)
    BY <2>1, <2>2, FS_Subset
  <2>4. QED
    BY <2>2, <2>3
<1>3. /\ N \in Nat /\ order \in [1 .. N -> blocks]
      /\ \A n \in blocks : \E i \in 1 .. N : order[i] = n
  BY <1>2, AscendingFacts
<1> HIDE DEF N, order
<1>4. Len(order) = N
  BY <1>3
<1>5. file \in Files /\ HeaderOK(file, PrimaryHeader(h.Data, s + 1, s))
      /\ HeaderOK(file, PrimaryHeader(h.Data, s + 1, s + 1))
      /\ PrimaryHeader(h.Data, s + 1, s) \in HeaderType
      /\ PrimaryHeader(h.Data, s + 1, s + 1) \in HeaderType
  BY HeaderTypes DEF HeaderOK, Files, PrimaryHeader
<1>6. a1 \in Operation /\ c2 \in Operation
  <2>1. /\ <<At(HEADER, PrimaryHeader(h.Data, s + 1, s))>> \in Seq(WritesTo(file))
        /\ <<At(HEADER, PrimaryHeader(h.Data, s + 1, s + 1))>> \in Seq(WritesTo(file))
    BY <1>5, WriteTypes
  <2>2. QED
    BY <1>5, <2>1, OpTypes DEF Write
<1>7. c1 \in Operation /\ c3 \in Operation
  <2>1. << >> \in Seq(WritesTo(file))
    OBVIOUS
  <2>2. QED
    BY <1>5, <2>1, OpTypes DEF Flush
<1>8. ASSUME NEW k \in blocks PROVE blk(k) \in Operation
  <2>1. <<At(Block(k), h.Data[k])>> \in Seq(WritesTo(file))
    BY <1>1, <1>5, WriteTypes
  <2>2. QED
    BY <1>5, <2>1, OpTypes DEF Write
<1> HIDE DEF a1, c1, c2, c3
<1>9. ops = (a \o b) \o c
  BY DEF HvpWriteHive, a1, c1, c2, c3, order, PrimaryHeader
<1> HIDE DEF blk
<1>10. /\ a \in Seq(Operation) /\ Len(a) = 1 /\ a[1] = a1
       /\ c \in Seq(Operation) /\ Len(c) = 3 /\ c[1] = c1 /\ c[2] = c2 /\ c[3] = c3
  BY <1>6, <1>7
<1>11. b \in Seq(Operation) /\ Len(b) = N /\ \A i \in 1 .. N : b[i] = blk(order[i])
  BY <1>3, <1>4, <1>8
<1> HIDE DEF a, b, c, ops
<1>12. /\ a \o b \in Seq(Operation) /\ Len(a \o b) = N + 1 /\ (a \o b)[1] = a1
       /\ \A i \in 2 .. N + 1 : (a \o b)[i] = blk(order[i - 1])
  <2>1. /\ a \o b \in Seq(Operation)
        /\ Len(a \o b) = Len(a) + Len(b)
        /\ \A i \in 1 .. Len(a) + Len(b) : (a \o b)[i] = IF i <= Len(a) THEN a[i] ELSE b[i - Len(a)]
    BY <1>10, <1>11, ConcatProperties
  <2>2. QED
    BY <1>3, <1>10, <1>11, <2>1
<1>13. /\ ops \in Seq(Operation) /\ Len(ops) = N + 4
       /\ \A i \in 1 .. N + 1 : ops[i] = (a \o b)[i]
       /\ \A i \in 1 .. 3 : ops[N + 1 + i] = c[i]
  <2> DEFINE d == a \o b
  <2> HIDE DEF d
  <2>1. /\ d \o c \in Seq(Operation)
        /\ Len(d \o c) = Len(d) + Len(c)
        /\ \A i \in 1 .. Len(d) + Len(c) : (d \o c)[i] = IF i <= Len(d) THEN d[i] ELSE c[i - Len(d)]
    BY <1>10, <1>12, ConcatProperties DEF d
  <2>2. Len(d) = N + 1 /\ Len(c) = 3 /\ ops = d \o c
    BY <1>9, <1>10, <1>12 DEF d
  <2>3. \A i \in 1 .. 3 : (d \o c)[N + 1 + i] = c[i]
    BY <1>3, <2>1, <2>2
  <2>4. QED
    BY <1>3, <2>1, <2>2, <2>3 DEF d
<1>14. ops[1] = a1 /\ \A i \in 2 .. N + 1 : ops[i] = blk(order[i - 1])
  <2>1. 1 \in 1 .. N + 1 /\ \A i \in 2 .. N + 1 : i \in 1 .. N + 1
    BY <1>3
  <2>2. QED
    BY <1>12, <1>13, <2>1
<1>15. ops[N + 2] = c1 /\ ops[N + 3] = c2 /\ ops[N + 4] = c3
  <2>1. ops[N + 1 + 1] = c[1] /\ ops[N + 1 + 2] = c[2] /\ ops[N + 1 + 3] = c[3]
    BY <1>13
  <2>2. QED
    BY <1>3, <1>10, <2>1
<1>16. \A i \in 2 .. N + 1 : \E k \in blocks : ops[i] = blk(k)
  BY <1>3, <1>14
<1>17. ASSUME NEW k \in blocks PROVE \E i \in 2 .. N + 1 : ops[i] = blk(k)
  <2>1. PICK i \in 1 .. N : order[i] = k
    BY <1>3
  <2>2. i + 1 \in 2 .. N + 1 /\ ops[i + 1] = blk(order[i + 1 - 1])
    BY <1>3, <1>14, <2>1
  <2>3. QED
    BY <2>1, <2>2
<1>18. QED
  BY <1>3, <1>13, <1>14, <1>15, <1>16, <1>17 DEF WriteHiveShape, a1, c1, c2, c3, blk, ops
-----------------------------------------------------------------------------
(* The progress of a save *)

\* The stages of the operations of HvpWriteHive.
LEMMA ShapeStages ==
  ASSUME NEW ops, NEW N, NEW h, NEW s \in Nat, NEW blocks, NEW fails,
         WriteHiveShape(ops, N, h, s, blocks, "PRIMARY", fails)
  PROVE  /\ N \in Nat
         /\ \A i \in 1 .. N + 4 : AtPrimary(ops[i]) /\ PlannedOp(ops[i], h.Data, blocks, s)
         /\ Stage(ops[1]) = 1
         /\ \A i \in 2 .. N + 1 : Stage(ops[i]) = 2
         /\ Stage(ops[N + 2]) = 3 /\ Stage(ops[N + 3]) = 4 /\ Stage(ops[N + 4]) = 5
         /\ \A b \in blocks : \E i \in 2 .. N + 1 : WritesBlock(ops[i], h.Data, b)
<1> USE DEF Write, Flush, Op, At
<1>1. N \in Nat /\ s + 1 # s
  BY DEF WriteHiveShape
<1>2. AtPrimary(ops[1]) /\ PlannedOp(ops[1], h.Data, blocks, s) /\ Stage(ops[1]) = 1
  BY <1>1 DEF WriteHiveShape, AtPrimary, PlannedOp, Stage
<1>3. ASSUME NEW i \in 2 .. N + 1
      PROVE  AtPrimary(ops[i]) /\ PlannedOp(ops[i], h.Data, blocks, s) /\ Stage(ops[i]) = 2
  <2>1. PICK b \in blocks :
          ops[i] = Write("PRIMARY", <<At(Block(b), h.Data[b])>>, s + 1, s, fails)
    BY <1>3 DEF WriteHiveShape
  <2>2. Stage(ops[i]) = 2
    BY <2>1, PlaceFacts DEF Stage
  <2>3. QED
    BY <2>1, <2>2 DEF AtPrimary, PlannedOp, WritesBlock
<1>4. /\ AtPrimary(ops[N + 2]) /\ PlannedOp(ops[N + 2], h.Data, blocks, s)
      /\ Stage(ops[N + 2]) = 3
  BY <1>1 DEF WriteHiveShape, AtPrimary, PlannedOp, Stage
<1>5. /\ AtPrimary(ops[N + 3]) /\ PlannedOp(ops[N + 3], h.Data, blocks, s)
      /\ Stage(ops[N + 3]) = 4
  BY <1>1 DEF WriteHiveShape, AtPrimary, PlannedOp, Stage
<1>6. /\ AtPrimary(ops[N + 4]) /\ PlannedOp(ops[N + 4], h.Data, blocks, s)
      /\ Stage(ops[N + 4]) = 5
  BY <1>1 DEF WriteHiveShape, AtPrimary, PlannedOp, Stage
<1>7. ASSUME NEW b \in blocks PROVE \E i \in 2 .. N + 1 : WritesBlock(ops[i], h.Data, b)
  <2>1. PICK i \in 2 .. N + 1 :
          ops[i] = Write("PRIMARY", <<At(Block(b), h.Data[b])>>, s + 1, s, fails)
    BY <1>7 DEF WriteHiveShape
  <2>2. QED
    BY <2>1 DEF WritesBlock
<1>8. ASSUME NEW i \in 1 .. N + 4
      PROVE  AtPrimary(ops[i]) /\ PlannedOp(ops[i], h.Data, blocks, s)
  <2>1. i = 1 \/ i \in 2 .. N + 1 \/ i = N + 2 \/ i = N + 3 \/ i = N + 4
    BY <1>1
  <2>2. QED
    BY <1>2, <1>3, <1>4, <1>5, <1>6, <2>1
<1>9. QED
  BY <1>1, <1>2, <1>3, <1>4, <1>5, <1>6, <1>7, <1>8

(***************************************************************************)
(* A call that is about to write the blocks bs of the hive h, among other  *)
(* operations that leave the primary file alone, when the file already has *)
(* the other blocks.                                                       *)
(***************************************************************************)
PlanIn(st, k, ops, N, h, s, blocks, fails) ==
  /\ WriteHiveShape(ops, N, h, s, blocks, "PRIMARY", fails)
  /\ st \in Seq(Operation) /\ k \in Nat /\ s \in Nat
  /\ \A i \in 1 .. N + 4 : k + i \in DOMAIN st /\ st[k + i] = ops[i]
  /\ \A j \in DOMAIN st : AtPrimary(st[j]) => j - k \in 1 .. N + 4

RestInFile(v, h, blocks) == \A b \in DOMAIN h.Data \ blocks : v[Block(b)] = h.Data[b]

\* At its start such a call has all of it before it.
LEMMA FreshPlan ==
  ASSUME NEW st, NEW k, NEW ops, NEW N, NEW h, NEW s, NEW blocks, NEW fails,
         PlanIn(st, k, ops, N, h, s, blocks, fails),
         NEW v, RestInFile(v, h, blocks)
  PROVE  /\ Planned(st, h.Data, blocks, s)
         /\ Done(st, h.Data, s, v)
         /\ Remains(st, {1, 2, 3, 4, 5})
<1> USE DEF PlanIn
<1>1. /\ N \in Nat
      /\ \A i \in 1 .. N + 4 : AtPrimary(ops[i]) /\ PlannedOp(ops[i], h.Data, blocks, s)
      /\ Stage(ops[1]) = 1
      /\ \A i \in 2 .. N + 1 : Stage(ops[i]) = 2
      /\ Stage(ops[N + 2]) = 3 /\ Stage(ops[N + 3]) = 4 /\ Stage(ops[N + 4]) = 5
      /\ \A b \in blocks : \E i \in 2 .. N + 1 : WritesBlock(ops[i], h.Data, b)
  BY ShapeStages
<1>2. DOMAIN st \subseteq Nat
  BY LenProperties
<1>3. \A j \in DOMAIN st : AtPrimary(st[j]) => j - k \in 1 .. N + 4 /\ st[j] = ops[j - k]
  BY <1>2
<1>4. 1 \in 1 .. N + 4 /\ N + 3 \in 1 .. N + 4 /\ N + 4 \in 1 .. N + 4
  BY <1>1
<1>5. /\ k + 1 \in DOMAIN st /\ k + (N + 3) \in DOMAIN st /\ k + (N + 4) \in DOMAIN st
      /\ st[k + 1] = ops[1] /\ st[k + (N + 3)] = ops[N + 3] /\ st[k + (N + 4)] = ops[N + 4]
  BY <1>4
<1>6. Remains(st, {1}) /\ Remains(st, {4}) /\ Remains(st, {5})
  <2>1. /\ AtPrimary(st[k + 1]) /\ Stage(st[k + 1]) = 1
        /\ AtPrimary(st[k + (N + 3)]) /\ Stage(st[k + (N + 3)]) = 4
        /\ AtPrimary(st[k + (N + 4)]) /\ Stage(st[k + (N + 4)]) = 5
    BY <1>1, <1>4, <1>5
  <2>2. QED
    BY <1>5, <2>1 DEF Remains
<1>7. Remains(st, {1, 2, 3, 4}) /\ Remains(st, {1, 2, 3, 4, 5})
  BY <1>6 DEF Remains
<1>8. \A j \in DOMAIN st : AtPrimary(st[j]) => PlannedOp(st[j], h.Data, blocks, s)
  BY <1>1, <1>3
<1>9. ASSUME NEW i \in 1 .. N + 4, NEW j \in 1 .. N + 4, i < j
      PROVE  Stage(ops[i]) < Stage(ops[j]) \/ (Stage(ops[i]) = 2 /\ Stage(ops[j]) = 2)
  <2>1. N \in Nat
    BY <1>1
  <2>2. CASE i = 1
    <3>1. j \in 2 .. N + 1 \/ j = N + 2 \/ j = N + 3 \/ j = N + 4
      BY <1>9, <2>1, <2>2
    <3>2. Stage(ops[i]) = 1 /\ Stage(ops[j]) \in {2, 3, 4, 5}
      BY <1>1, <2>2, <3>1
    <3>3. QED
      BY <3>2
  <2>3. CASE i \in 2 .. N + 1
    <3>1. j \in 2 .. N + 1 \/ j = N + 2 \/ j = N + 3 \/ j = N + 4
      BY <1>9, <2>1, <2>3
    <3>2. Stage(ops[i]) = 2 /\ Stage(ops[j]) \in {2, 3, 4, 5}
      BY <1>1, <2>3, <3>1
    <3>3. QED
      BY <3>2
  <2>4. CASE i = N + 2
    <3>1. j = N + 3 \/ j = N + 4
      BY <1>9, <2>1, <2>4
    <3>2. Stage(ops[i]) = 3 /\ Stage(ops[j]) \in {4, 5}
      BY <1>1, <2>4, <3>1
    <3>3. QED
      BY <3>2
  <2>5. CASE i = N + 3
    <3>1. j = N + 4
      BY <1>9, <2>1, <2>5
    <3>2. Stage(ops[i]) = 4 /\ Stage(ops[j]) \in {5}
      BY <1>1, <2>5, <3>1
    <3>3. QED
      BY <3>2
  <2>6. i = 1 \/ i \in 2 .. N + 1 \/ i = N + 2 \/ i = N + 3
    BY <1>9, <2>1
  <2>7. QED
    BY <2>2, <2>3, <2>4, <2>5, <2>6
<1>10. ASSUME NEW i \in DOMAIN st, NEW j \in DOMAIN st, i < j, AtPrimary(st[i]), AtPrimary(st[j])
       PROVE  Stage(st[i]) < Stage(st[j]) \/ (Stage(st[i]) = 2 /\ Stage(st[j]) = 2)
  <2>1. i - k < j - k
    BY <1>2, <1>10
  <2>2. QED
    BY <1>3, <1>9, <1>10, <2>1
<1>11. ASSUME NEW b \in DOMAIN h.Data
       PROVE  \/ v[Block(b)] = h.Data[b]
              \/ \E i \in DOMAIN st :
                   AtPrimary(st[i]) /\ Stage(st[i]) = 2 /\ WritesBlock(st[i], h.Data, b)
  <2>1. CASE b \in blocks
    <3>1. PICK i \in 2 .. N + 1 : WritesBlock(ops[i], h.Data, b)
      BY <1>1, <2>1
    <3>2. i \in 1 .. N + 4
      BY <1>1
    <3>3. k + i \in DOMAIN st /\ st[k + i] = ops[i]
      BY <3>2
    <3>4. QED
      BY <1>1, <3>1, <3>2, <3>3
  <2>2. QED
    BY <2>1 DEF RestInFile
<1>12. QED
  BY <1>6, <1>7, <1>8, <1>10, <1>11 DEF Planned, Done

\* The rest of the steps once the first one has been taken.
LEMMA TailFacts ==
  ASSUME NEW S, NEW st \in Seq(S), st # << >>
  PROVE  /\ Head(st) = st[1] /\ Head(st) \in S /\ 1 \in DOMAIN st
         /\ Tail(st) \in Seq(S)
         /\ \A i \in DOMAIN Tail(st) : i \in Nat /\ i + 1 \in DOMAIN st /\ Tail(st)[i] = st[i + 1]
         /\ \A i \in DOMAIN st : i \in Nat /\ (i # 1 => i - 1 \in DOMAIN Tail(st) /\ i > 1)
<1>1. Len(st) \in Nat /\ DOMAIN st = 1 .. Len(st) /\ Len(st) # 0
  BY EmptySeq, LenProperties
<1>2. /\ Head(st) \in S /\ Tail(st) \in Seq(S) /\ Len(Tail(st)) = Len(st) - 1
      /\ \A i \in 1 .. Len(Tail(st)) : Tail(st)[i] = st[i + 1]
  BY HeadTailProperties
<1>3. DOMAIN Tail(st) = 1 .. Len(st) - 1
  BY <1>2, LenProperties
<1>4. Head(st) = st[1]
  OBVIOUS
<1>5. QED
  BY <1>1, <1>2, <1>3, <1>4

\* What remains to be done is the next operation or remains after it.
LEMMA RemainsTail ==
  ASSUME NEW st \in Seq(Operation), st # << >>, NEW X
  PROVE  Remains(st, X) <=> (AtPrimary(Head(st)) /\ Stage(Head(st)) \in X) \/ Remains(Tail(st), X)
<1>1. /\ Head(st) = st[1] /\ 1 \in DOMAIN st
      /\ \A i \in DOMAIN Tail(st) : i \in Nat /\ i + 1 \in DOMAIN st /\ Tail(st)[i] = st[i + 1]
      /\ \A i \in DOMAIN st : i \in Nat /\ (i # 1 => i - 1 \in DOMAIN Tail(st) /\ i > 1)
  BY TailFacts
<1>2. ASSUME NEW i \in DOMAIN st, AtPrimary(st[i]), Stage(st[i]) \in X
      PROVE  (AtPrimary(Head(st)) /\ Stage(Head(st)) \in X) \/ Remains(Tail(st), X)
  <2>1. CASE i = 1
    BY <1>1, <1>2, <2>1
  <2>2. CASE i # 1
    <3>1. i - 1 \in DOMAIN Tail(st) /\ Tail(st)[i - 1] = st[i - 1 + 1] /\ i - 1 + 1 = i
      BY <1>1, <2>2
    <3>2. QED
      BY <1>2, <3>1 DEF Remains
  <2>3. QED
    BY <2>1, <2>2
<1>3. ASSUME NEW i \in DOMAIN Tail(st), AtPrimary(Tail(st)[i]), Stage(Tail(st)[i]) \in X
      PROVE  Remains(st, X)
  BY <1>1, <1>3 DEF Remains
<1>4. ASSUME AtPrimary(Head(st)), Stage(Head(st)) \in X PROVE Remains(st, X)
  BY <1>1, <1>4 DEF Remains
<1>5. QED
  BY <1>2, <1>3, <1>4 DEF Remains

\* The plan goes on when a step has been taken.
LEMMA PlannedTail ==
  ASSUME NEW st \in Seq(Operation), st # << >>, NEW d, NEW bs, NEW s, Planned(st, d, bs, s)
  PROVE  /\ Planned(Tail(st), d, bs, s)
         /\ AtPrimary(Head(st)) =>
              /\ PlannedOp(Head(st), d, bs, s)
              /\ Stage(Head(st)) \in {1, 2, 3, 4, 5}
              /\ Stage(Head(st)) # 1 => ~Remains(st, {1})
              /\ Stage(Head(st)) # 2 => ~Remains(Tail(st), {Stage(Head(st))})
              /\ Stage(Head(st)) \in {1, 2, 3} => Remains(Tail(st), {4})
              /\ Stage(Head(st)) \in {1, 2, 3, 4} => Remains(Tail(st), {5})
              /\ Stage(Head(st)) \in {3, 4, 5} => ~Remains(st, {2})
              /\ Stage(Head(st)) = 4 => ~Remains(Tail(st), {1, 2, 3, 4})
              /\ Stage(Head(st)) = 5 => ~Remains(st, {1, 2, 3, 4})
<1> DEFINE g == Stage(Head(st))
           t == Tail(st)
<1>1. /\ Head(st) = st[1] /\ 1 \in DOMAIN st /\ t \in Seq(Operation)
      /\ \A i \in DOMAIN t : i \in Nat /\ i + 1 \in DOMAIN st /\ t[i] = st[i + 1]
      /\ \A i \in DOMAIN st : i \in Nat /\ (i # 1 => i - 1 \in DOMAIN t /\ i > 1)
  BY TailFacts
<1>2. /\ \A i \in DOMAIN st : AtPrimary(st[i]) => PlannedOp(st[i], d, bs, s)
      /\ \A i, j \in DOMAIN st :
           i < j /\ AtPrimary(st[i]) /\ AtPrimary(st[j]) =>
             \/ Stage(st[i]) < Stage(st[j])
             \/ Stage(st[i]) = 2 /\ Stage(st[j]) = 2
      /\ Remains(st, {1, 2, 3}) => Remains(st, {4})
      /\ Remains(st, {1, 2, 3, 4}) => Remains(st, {5})
  BY DEF Planned
<1>3. \A o : Stage(o) \in {1, 2, 3, 4, 5}
  BY DEF Stage
<1>4. \A X : Remains(st, X) <=> (AtPrimary(Head(st)) /\ g \in X) \/ Remains(t, X)
  BY RemainsTail
<1> HIDE DEF t
<1>5. ASSUME AtPrimary(Head(st)), NEW i \in DOMAIN t, AtPrimary(t[i])
      PROVE  \/ g < Stage(t[i])
             \/ g = 2 /\ Stage(t[i]) = 2
  <2>1. 1 < i + 1 /\ i + 1 \in DOMAIN st /\ t[i] = st[i + 1]
    <3>1. i \in Nat /\ i # 0
      BY <1>1, LenProperties
    <3>2. QED
      BY <1>1, <3>1
  <2>2. QED
    BY <1>1, <1>2, <1>5, <2>1
<1>6. ASSUME AtPrimary(Head(st)), NEW X, \A x \in X \cap {1, 2, 3, 4, 5} : x <= g, g = 2 => 2 \notin X
      PROVE  ~Remains(t, X)
  <2> SUFFICES ASSUME NEW i \in DOMAIN t, AtPrimary(t[i]), Stage(t[i]) \in X PROVE FALSE
    BY DEF Remains
  <2>1. Stage(t[i]) <= g
    BY <1>3, <1>6
  <2>2. g \in {1, 2, 3, 4, 5} /\ Stage(t[i]) \in {1, 2, 3, 4, 5}
    BY <1>3
  <2>3. QED
    BY <1>5, <1>6, <2>1, <2>2
<1>7. \A i \in DOMAIN t : AtPrimary(t[i]) => PlannedOp(t[i], d, bs, s)
  BY <1>1, <1>2
<1>8. ASSUME NEW i \in DOMAIN t, NEW j \in DOMAIN t, i < j, AtPrimary(t[i]), AtPrimary(t[j])
      PROVE  \/ Stage(t[i]) < Stage(t[j])
             \/ Stage(t[i]) = 2 /\ Stage(t[j]) = 2
  <2>1. i + 1 < j + 1
    BY <1>1, <1>8
  <2>2. QED
    BY <1>1, <1>2, <1>8, <2>1
<1>9. Remains(t, {1, 2, 3}) => Remains(t, {4})
  <2> SUFFICES ASSUME Remains(t, {1, 2, 3}), AtPrimary(Head(st)), g = 4 PROVE FALSE
    BY <1>2, <1>4
  <2>1. ~Remains(t, {1, 2, 3})
    BY <1>6
  <2>2. QED
    BY <2>1
<1>10. Remains(t, {1, 2, 3, 4}) => Remains(t, {5})
  <2> SUFFICES ASSUME Remains(t, {1, 2, 3, 4}), AtPrimary(Head(st)), g = 5 PROVE FALSE
    BY <1>2, <1>4
  <2>1. ~Remains(t, {1, 2, 3, 4})
    BY <1>6
  <2>2. QED
    BY <2>1
<1>11. Planned(t, d, bs, s)
  BY <1>7, <1>8, <1>9, <1>10 DEF Planned
<1>12. ASSUME AtPrimary(Head(st))
       PROVE  /\ PlannedOp(Head(st), d, bs, s) /\ g \in {1, 2, 3, 4, 5}
              /\ g # 1 => ~Remains(st, {1})
              /\ g # 2 => ~Remains(t, {g})
              /\ g \in {1, 2, 3} => Remains(t, {4})
              /\ g \in {1, 2, 3, 4} => Remains(t, {5})
              /\ g \in {3, 4, 5} => ~Remains(st, {2})
              /\ g = 4 => ~Remains(t, {1, 2, 3, 4})
              /\ g = 5 => ~Remains(st, {1, 2, 3, 4})
  <2>1. PlannedOp(Head(st), d, bs, s) /\ g \in {1, 2, 3, 4, 5}
    BY <1>1, <1>2, <1>3, <1>12
  <2>2. /\ g \in {1, 2, 3} => Remains(st, {1, 2, 3})
        /\ g \in {1, 2, 3, 4} => Remains(st, {1, 2, 3, 4})
    BY <1>4, <1>12
  <2>3. /\ g \in {1, 2, 3} => Remains(t, {4})
        /\ g \in {1, 2, 3, 4} => Remains(t, {5})
    BY <1>2, <1>4, <2>2
  <2>4. g # 2 => ~Remains(t, {g})
    BY <1>6, <1>12, <2>1
  <2>5. ASSUME g # 1 PROVE ~Remains(st, {1})
    <3>1. ~Remains(t, {1})
      BY <1>6, <1>12, <2>1
    <3>2. QED
      BY <1>4, <2>5, <3>1
  <2>6. ASSUME g \in {3, 4, 5} PROVE ~Remains(st, {2})
    <3>1. ~Remains(t, {2})
      BY <1>6, <1>12, <2>1, <2>6
    <3>2. QED
      BY <1>4, <2>6, <3>1
  <2>7. g = 4 => ~Remains(t, {1, 2, 3, 4})
    BY <1>6, <1>12
  <2>8. ASSUME g = 5 PROVE ~Remains(st, {1, 2, 3, 4})
    <3>1. ~Remains(t, {1, 2, 3, 4})
      BY <1>6, <1>12, <2>8
    <3>2. QED
      BY <1>4, <2>8, <3>1
  <2>9. QED
    BY <2>1, <2>3, <2>4, <2>5, <2>6, <2>7, <2>8
<1>13. QED
  BY <1>11, <1>12 DEF t

\* The write that an operation of a plan makes.
LEMMA PlannedWrite ==
  ASSUME NEW o, NEW d, NEW bs, NEW s \in Nat, PlannedOp(o, d, bs, s)
  PROVE  /\ o.op = "flush" <=> Stage(o) \in {3, 5}
         /\ o.op = "flush" => o.writes = << >>
         /\ Stage(o) = 1 => o.writes = <<At(HEADER, PrimaryHeader(d, s + 1, s))>>
         /\ Stage(o) = 2 => \E b \in bs : o.writes = <<At(Block(b), d[b])>>
         /\ Stage(o) = 4 => o.writes = <<At(HEADER, PrimaryHeader(d, s + 1, s + 1))>>
         /\ o.Sequence1 = o.Sequence2 => Stage(o) \in {4, 5}
         /\ o.Sequence1 = s + 1
<1>1. Stage(o) \in {3, 5} => o.op = "flush"
  BY DEF Stage
<1>2. o.op = "flush" => Stage(o) \in {3, 5}
  BY DEF Stage
<1>3. o.Sequence1 = o.Sequence2 => Stage(o) \in {4, 5}
  <2>1. Stage(o) = 2 => o.Sequence2 = s /\ o.Sequence1 = s + 1
    BY DEF PlannedOp
  <2>2. QED
    BY <2>1 DEF Stage
<1>4. QED
  BY <1>1, <1>2, <1>3 DEF PlannedOp, WritesBlock

\* The blocks that are not to be written are in the file already.
LEMMA CleanInFile ==
  ASSUME NEW st \in Seq(Operation), NEW d, NEW bs \in SUBSET DOMAIN d, NEW s \in Nat, NEW v,
         DOMAIN d \subseteq Blocks, Planned(st, d, bs, s), Done(st, d, s, v)
  PROVE  /\ \A b \in DOMAIN d \ bs : v[Block(b)] = d[b]
         /\ ~Remains(st, {2}) => \A b \in DOMAIN d : v[Block(b)] = d[b]
<1>1. ASSUME NEW b \in DOMAIN d, v[Block(b)] # d[b]
      PROVE  b \in bs /\ Remains(st, {2})
  <2>1. PICK i \in DOMAIN st : AtPrimary(st[i]) /\ Stage(st[i]) = 2 /\ WritesBlock(st[i], d, b)
    BY <1>1 DEF Done
  <2>2. PlannedOp(st[i], d, bs, s)
    BY <2>1 DEF Planned
  <2>3. PICK c \in bs : st[i].writes = <<At(Block(c), d[c])>>
    BY <2>1, <2>2, PlannedWrite
  <2>4. st[i].writes = <<At(Block(b), d[b])>>
    BY <2>1 DEF WritesBlock
  <2>5. At(Block(b), d[b]) = At(Block(c), d[c])
    BY <2>3, <2>4
  <2>6. Block(b) = Block(c)
    BY <2>5 DEF At
  <2>7. QED
    BY <2>1, <2>6, PlaceFacts DEF Remains
<1>2. QED
  BY <1>1

\* One write changes one place of a file.
LEMMA OneWrite ==
  ASSUME NEW v, v = [p \in Places |-> v[p]], NEW q \in Places, NEW x,
         NEW u, u = Written(v, <<At(q, x)>>)
  PROVE  /\ u = [p \in Places |-> u[p]] /\ DOMAIN u = Places
         /\ u[q] = x /\ \A p \in Places : p # q => u[p] = v[p]
<1>1. At(q, x).place = q /\ At(q, x).value = x
  BY DEF At
<1>2. DOMAIN v = Places
  OBVIOUS
<1>3. u = [p \in Places |-> IF p = q THEN x ELSE v[p]]
  BY <1>1, <1>2, WrittenOne
<1>4. QED
  BY <1>3

\* What has been done when a step has been taken.
LEMMA DoneTail ==
  ASSUME NEW st \in Seq(Operation), st # << >>,
         NEW d, DOMAIN d \subseteq Blocks, NEW bs \in SUBSET DOMAIN d, NEW s \in Nat,
         Planned(st, d, bs, s),
         NEW v, v = [p \in Places |-> v[p]], Done(st, d, s, v)
  PROVE  /\ ~AtPrimary(Head(st)) \/ Head(st).op = "flush" => Done(Tail(st), d, s, v)
         /\ AtPrimary(Head(st)) => Done(Tail(st), d, s, Written(v, Head(st).writes))
<1> DEFINE o == Head(st)
           g == Stage(o)
           t == Tail(st)
<1>1. /\ Head(st) = st[1] /\ 1 \in DOMAIN st /\ t \in Seq(Operation)
      /\ \A i \in DOMAIN t : i \in Nat /\ i + 1 \in DOMAIN st /\ t[i] = st[i + 1]
      /\ \A i \in DOMAIN st : i \in Nat /\ (i # 1 => i - 1 \in DOMAIN t /\ i > 1)
  BY TailFacts
<1>2. \A X : Remains(st, X) <=> (AtPrimary(o) /\ g \in X) \/ Remains(t, X)
  BY RemainsTail
<1>3. AtPrimary(o) =>
        /\ PlannedOp(o, d, bs, s)
        /\ g \in {1, 2, 3, 4, 5}
        /\ g # 1 => ~Remains(st, {1})
        /\ g # 2 => ~Remains(t, {g})
        /\ g \in {1, 2, 3} => Remains(t, {4})
        /\ g \in {1, 2, 3, 4} => Remains(t, {5})
        /\ g \in {3, 4, 5} => ~Remains(st, {2})
        /\ g = 4 => ~Remains(t, {1, 2, 3, 4})
        /\ g = 5 => ~Remains(st, {1, 2, 3, 4})
  BY PlannedTail
<1>4. /\ ~Remains(st, {1}) /\ Remains(st, {2, 3, 4}) => v[HEADER] = PrimaryHeader(d, s + 1, s)
      /\ ~Remains(st, {1, 2, 3, 4}) => v[HEADER] = PrimaryHeader(d, s + 1, s + 1)
      /\ \A b \in DOMAIN d :
           \/ v[Block(b)] = d[b]
           \/ \E i \in DOMAIN st : AtPrimary(st[i]) /\ Stage(st[i]) = 2 /\ WritesBlock(st[i], d, b)
  BY DEF Done
<1>5. ASSUME NEW b \in DOMAIN d
      PROVE  \/ v[Block(b)] = d[b]
             \/ AtPrimary(o) /\ g = 2 /\ WritesBlock(o, d, b)
             \/ \E i \in DOMAIN t : AtPrimary(t[i]) /\ Stage(t[i]) = 2 /\ WritesBlock(t[i], d, b)
  <2> SUFFICES ASSUME v[Block(b)] # d[b]
               PROVE  \/ AtPrimary(o) /\ g = 2 /\ WritesBlock(o, d, b)
                      \/ \E i \in DOMAIN t :
                           AtPrimary(t[i]) /\ Stage(t[i]) = 2 /\ WritesBlock(t[i], d, b)
    OBVIOUS
  <2>1. PICK i \in DOMAIN st : AtPrimary(st[i]) /\ Stage(st[i]) = 2 /\ WritesBlock(st[i], d, b)
    BY <1>4
  <2>2. CASE i = 1
    BY <1>1, <2>1, <2>2
  <2>3. CASE i # 1
    <3>1. i - 1 \in DOMAIN t /\ t[i - 1] = st[i - 1 + 1] /\ i - 1 + 1 = i
      BY <1>1, <2>3
    <3>2. QED
      BY <2>1, <3>1
  <2>4. QED
    BY <2>2, <2>3
<1>6. Remains(t, {4}) => Remains(t, {2, 3, 4}) /\ Remains(t, {1, 2, 3, 4})
  BY DEF Remains
<1> HIDE DEF o, t, g
<1>7. ASSUME ~AtPrimary(o) PROVE Done(t, d, s, v)
  BY <1>2, <1>4, <1>5, <1>7 DEF Done
<1>8. ASSUME AtPrimary(o), o.op = "flush" PROVE Done(t, d, s, v) /\ Written(v, o.writes) = v
  <2>1. g \in {3, 5} /\ o.writes = << >>
    BY <1>3, <1>8, PlannedWrite DEF g
  <2>2. Written(v, << >>) = v
    BY WrittenNothing
  <2>3. g \notin {1, 2, 4}
    BY <2>1
  <2>4. /\ ~Remains(t, {1}) /\ Remains(t, {2, 3, 4}) => v[HEADER] = PrimaryHeader(d, s + 1, s)
    BY <1>2, <1>4, <2>3
  <2>5. ~Remains(t, {1, 2, 3, 4}) => v[HEADER] = PrimaryHeader(d, s + 1, s + 1)
    <3>1. g = 3 => Remains(t, {4})
      BY <1>3, <1>8
    <3>2. g = 5 => ~Remains(st, {1, 2, 3, 4})
      BY <1>3, <1>8
    <3>3. QED
      BY <1>4, <1>6, <2>1, <3>1, <3>2
  <2>6. QED
    BY <1>5, <2>1, <2>2, <2>3, <2>4, <2>5 DEF Done
<1>9. ASSUME AtPrimary(o), o.op # "flush" PROVE Done(t, d, s, Written(v, o.writes))
  <2> DEFINE u == Written(v, o.writes)
  <2>1. g \in {1, 2, 4} /\ PlannedOp(o, d, bs, s)
    BY <1>3, <1>9, PlannedWrite DEF g
  <2>2. CASE g = 1
    <3>1. o.writes = <<At(HEADER, PrimaryHeader(d, s + 1, s))>>
      BY <2>1, <2>2, PlannedWrite DEF g
    <3>2. u[HEADER] = PrimaryHeader(d, s + 1, s) /\ \A p \in Places : p # HEADER => u[p] = v[p]
      <4>1. u = Written(v, <<At(HEADER, PrimaryHeader(d, s + 1, s))>>)
        BY <3>1
      <4> HIDE DEF u
      <4>2. QED
        BY <4>1, OneWrite, PlaceFacts
    <3>3. \A b \in DOMAIN d : u[Block(b)] = v[Block(b)]
      BY <3>2, PlaceFacts
    <3> HIDE DEF u
    <3>4. Remains(t, {1, 2, 3, 4})
      BY <1>3, <1>6, <1>9, <2>2
    <3>5. ASSUME NEW b \in DOMAIN d
          PROVE  \/ u[Block(b)] = d[b]
                 \/ \E i \in DOMAIN t : AtPrimary(t[i]) /\ Stage(t[i]) = 2 /\ WritesBlock(t[i], d, b)
      <4>1. g # 2
        BY <2>2
      <4>2. u[Block(b)] = v[Block(b)]
        BY <3>3, Zenon
      <4>3. QED
        BY <1>5, <4>1, <4>2
    <3>6. Done(t, d, s, u)
      BY <3>2, <3>4, <3>5 DEF Done
    <3>7. QED
      BY <3>6 DEF u
  <2>3. CASE g = 2
    <3>1. PICK c \in bs : o.writes = <<At(Block(c), d[c])>>
      BY <2>1, <2>3, PlannedWrite DEF g
    <3>2. /\ u[Block(c)] = d[c] /\ \A p \in Places : p # Block(c) => u[p] = v[p]
      <4>1. u = Written(v, <<At(Block(c), d[c])>>)
        BY <3>1
      <4> HIDE DEF u
      <4>2. QED
        BY <4>1, OneWrite, PlaceFacts
    <3>3. u[HEADER] = v[HEADER] /\ \A b \in DOMAIN d : b # c => u[Block(b)] = v[Block(b)]
      BY <3>2, PlaceFacts
    <3> HIDE DEF u
    <3>4. ~Remains(st, {1}) /\ Remains(t, {4})
      BY <1>3, <1>9, <2>3
    <3>5. Remains(st, {2, 3, 4}) /\ Remains(t, {1, 2, 3, 4})
      BY <1>2, <1>6, <3>4
    <3>6. u[HEADER] = PrimaryHeader(d, s + 1, s)
      BY <1>4, <3>3, <3>4, <3>5
    <3>7. ASSUME NEW b \in DOMAIN d, WritesBlock(o, d, b) PROVE b = c
      <4>1. At(Block(b), d[b]) = At(Block(c), d[c])
        BY <3>1, <3>7 DEF WritesBlock
      <4>2. QED
        BY <4>1, PlaceFacts DEF At
    <3>8. \A b \in DOMAIN d :
            \/ u[Block(b)] = d[b]
            \/ \E i \in DOMAIN t : AtPrimary(t[i]) /\ Stage(t[i]) = 2 /\ WritesBlock(t[i], d, b)
      BY <1>5, <3>2, <3>3, <3>7
    <3>9. Done(t, d, s, u)
      BY <3>5, <3>6, <3>8 DEF Done
    <3>10. QED
      BY <3>9 DEF u
  <2>4. CASE g = 4
    <3>1. o.writes = <<At(HEADER, PrimaryHeader(d, s + 1, s + 1))>>
      BY <2>1, <2>4, PlannedWrite DEF g
    <3>2. u[HEADER] = PrimaryHeader(d, s + 1, s + 1) /\ \A p \in Places : p # HEADER => u[p] = v[p]
      <4>1. u = Written(v, <<At(HEADER, PrimaryHeader(d, s + 1, s + 1))>>)
        BY <3>1
      <4> HIDE DEF u
      <4>2. QED
        BY <4>1, OneWrite, PlaceFacts
    <3>3. \A b \in DOMAIN d : u[Block(b)] = v[Block(b)]
      BY <3>2, PlaceFacts
    <3> HIDE DEF u
    <3>4. ~Remains(t, {1, 2, 3, 4})
      BY <1>3, <1>9, <2>4
    <3>5. ~Remains(t, {2, 3, 4})
      BY <3>4 DEF Remains
    <3>6. ASSUME NEW b \in DOMAIN d
          PROVE  \/ u[Block(b)] = d[b]
                 \/ \E i \in DOMAIN t : AtPrimary(t[i]) /\ Stage(t[i]) = 2 /\ WritesBlock(t[i], d, b)
      <4>1. g # 2
        BY <2>4
      <4>2. u[Block(b)] = v[Block(b)]
        BY <3>3, Zenon
      <4>3. QED
        BY <1>5, <4>1, <4>2
    <3>7. Done(t, d, s, u)
      BY <3>2, <3>5, <3>6 DEF Done
    <3>8. QED
      BY <3>7 DEF u
  <2>5. QED
    BY <2>1, <2>2, <2>3, <2>4
<1>10. QED
  BY <1>7, <1>8, <1>9 DEF o, t

-----------------------------------------------------------------------------
(* Images *)

\* Nothing that was written is taken for what was not.
LEMMA Sentinels ==
  /\ None # Torn
  /\ \A hd \in HeaderType : hd # None /\ hd # Torn
  /\ \A c \in Contents : c # None /\ c # Torn
  /\ \A B \in SUBSET Blocks : B # None /\ B # Torn
BY SentinelAssumption

\* A file with a sound header and all the blocks of an image holds that image.
LEMMA CompleteImage ==
  ASSUME NEW d \in Images, d # << >>, NEW n \in Sequences, NEW v,
         v[HEADER] = PrimaryHeader(d, n, n), \A b \in DOMAIN d : v[Block(b)] = d[b]
  PROVE  Sound(v) /\ PrimaryImage(v) = d
<1>1. PrimaryHeader(d, n, n) \in HeaderType
  BY HeaderTypes DEF PrimaryHeader
<1>2. v[HEADER] # None /\ v[HEADER] # Torn
  BY <1>1, Sentinels
<1>3. v[HEADER].Sequence1 = n /\ v[HEADER].Sequence2 = n /\ v[HEADER].Type = "PRIMARY"
      /\ v[HEADER].Length = Len(d)
  BY DEF PrimaryHeader, Header
<1>4. Sound(v)
  BY <1>2, <1>3 DEF Sound, HvpGetHiveHeader, HvpVerifyHiveHeader
<1>5. DOMAIN d = 1 .. Len(d) /\ d \in Seq(Contents \cup {Torn})
  BY ImageFacts
<1>6. d = [i \in 1 .. Len(d) |-> d[i]]
  BY <1>5
<1>7. PrimaryImage(v) = [i \in 1 .. Len(d) |-> d[i]]
  BY <1>3, <1>5 DEF PrimaryImage
<1>8. QED
  BY <1>4, <1>6, <1>7

\* A header that is half written or has two different numbers is not sound.
LEMMA NotSound ==
  ASSUME NEW v
  PROVE  /\ v[HEADER] \in {None, Torn} => ~Sound(v)
         /\ v[HEADER].Sequence1 # v[HEADER].Sequence2 => ~Sound(v)
BY DEF Sound, HvpGetHiveHeader, HvpVerifyHiveHeader

\* A save of the blocks bs of the image d that has come to the operations st.
Progress(st, d, bs, s, v) ==
  /\ st \in Seq(Operation) /\ d \in Images /\ d # << >> /\ bs \in SUBSET DOMAIN d
  /\ s \in 0 .. MaxSequence /\ v = [p \in Places |-> v[p]]
  /\ Planned(st, d, bs, s) /\ Done(st, d, s, v)

\* What the progress of a save says of its parts.
LEMMA ProgressFacts ==
  ASSUME NEW st, NEW d, NEW bs, NEW s, NEW v, Progress(st, d, bs, s, v)
  PROVE  /\ st \in Seq(Operation) /\ d \in Images /\ d # << >> /\ bs \in SUBSET DOMAIN d
         /\ Planned(st, d, bs, s) /\ Done(st, d, s, v) /\ v = [p \in Places |-> v[p]]
         /\ s \in Nat /\ s \in Sequences /\ s + 1 \in Sequences /\ DOMAIN d \subseteq Blocks
<1>1. s \in Nat /\ s \in Sequences /\ s + 1 \in Sequences
  BY BoundsAssumption DEF Progress, Sequences
<1>2. DOMAIN d \subseteq Blocks
  BY ImageFacts DEF Progress
<1>3. QED
  BY <1>1, <1>2 DEF Progress

\* The progress of a save when a step has been taken.
LEMMA ProgressTail ==
  ASSUME NEW st, NEW d, NEW bs, NEW s, NEW v, Progress(st, d, bs, s, v), st # << >>,
         NEW u, u = [p \in Places |-> u[p]],
         u = IF AtPrimary(Head(st)) /\ Head(st).op # "flush" THEN Written(v, Head(st).writes) ELSE v
  PROVE  /\ Progress(Tail(st), d, bs, s, u)
         /\ \/ Remains(Tail(st), {1, 2, 3, 4, 5})
            \/ AtPrimary(Head(st)) /\ Head(st).op = "flush"
            \/ ~AtPrimary(Head(st)) /\ ~Remains(st, {1, 2, 3, 4, 5})
<1>1. /\ st \in Seq(Operation) /\ d \in Images /\ d # << >> /\ bs \in SUBSET DOMAIN d
      /\ Planned(st, d, bs, s) /\ Done(st, d, s, v) /\ v = [p \in Places |-> v[p]]
      /\ s \in Nat /\ s \in Sequences /\ s + 1 \in Sequences /\ DOMAIN d \subseteq Blocks
  BY ProgressFacts
<1>2. /\ ~AtPrimary(Head(st)) \/ Head(st).op = "flush" => Done(Tail(st), d, s, v)
      /\ AtPrimary(Head(st)) => Done(Tail(st), d, s, Written(v, Head(st).writes))
  BY <1>1, DoneTail
<1>3. Done(Tail(st), d, s, u)
  BY <1>2
<1>4. /\ Planned(Tail(st), d, bs, s)
      /\ AtPrimary(Head(st)) =>
           /\ PlannedOp(Head(st), d, bs, s) /\ Stage(Head(st)) \in {1, 2, 3, 4, 5}
           /\ Stage(Head(st)) \in {1, 2, 3, 4} => Remains(Tail(st), {5})
  BY <1>1, PlannedTail
<1>5. Tail(st) \in Seq(Operation)
  BY <1>1, TailFacts
<1>6. Progress(Tail(st), d, bs, s, u)
  BY <1>1, <1>3, <1>4, <1>5 DEF Progress
<1>7. CASE AtPrimary(Head(st))
  <2>1. Stage(Head(st)) = 5 => Head(st).op = "flush"
    BY <1>1, <1>4, <1>7, PlannedWrite
  <2>2. Stage(Head(st)) # 5 => Remains(Tail(st), {5})
    BY <1>4, <1>7
  <2>3. Remains(Tail(st), {5}) => Remains(Tail(st), {1, 2, 3, 4, 5})
    BY DEF Remains
  <2>4. QED
    BY <1>6, <1>7, <2>1, <2>2, <2>3
<1>8. CASE ~AtPrimary(Head(st))
  <2>1. Remains(st, {1, 2, 3, 4, 5}) <=> Remains(Tail(st), {1, 2, 3, 4, 5})
    BY <1>1, <1>8, RemainsTail
  <2>2. QED
    BY <1>6, <1>8, <2>1
<1>9. QED
  BY <1>7, <1>8

\* The blocks that are not to be written, or have been, are in the file.
LEMMA ProgressClean ==
  ASSUME NEW st, NEW d, NEW bs, NEW s, NEW v, Progress(st, d, bs, s, v)
  PROVE  /\ \A b \in DOMAIN d \ bs : v[Block(b)] = d[b]
         /\ ~Remains(st, {2}) => \A b \in DOMAIN d : v[Block(b)] = d[b]
BY ProgressFacts, CleanInFile

\* When nothing is left to write the file holds the image.
LEMMA ProgressEnd ==
  ASSUME NEW st, NEW d, NEW bs, NEW s, NEW v, Progress(st, d, bs, s, v),
         ~Remains(st, {1, 2, 3, 4, 5})
  PROVE  Sound(v) /\ PrimaryImage(v) = d /\ \A b \in DOMAIN d : v[Block(b)] = d[b]
<1>1. ~Remains(st, {2}) /\ ~Remains(st, {1, 2, 3, 4})
  BY DEF Remains
<1>2. \A b \in DOMAIN d : v[Block(b)] = d[b]
  BY <1>1, ProgressClean
<1>3. v[HEADER] = PrimaryHeader(d, s + 1, s + 1)
  BY <1>1, ProgressFacts DEF Done
<1>4. d \in Images /\ d # << >> /\ s + 1 \in Sequences
  BY ProgressFacts
<1>5. QED
  BY <1>2, <1>3, <1>4, CompleteImage

\* The next write of a save is w.
WritesNext(st, d, bs, s, v, w) ==
  /\ Progress(st, d, bs, s, v)
  /\ st # << >> /\ AtPrimary(Head(st)) /\ Head(st).op # "flush" /\ w = Head(st).writes[1]

\* If a load takes the file p then p holds the image d.
NoPartOf(p, d) == Sound(p) => PrimaryImage(p) = d

(***************************************************************************)
(* The next write of a save, whole or torn, makes the file sound only when *)
(* the image is complete.                                                  *)
(***************************************************************************)
LEMMA NextWrite ==
  ASSUME NEW st, NEW d, NEW bs, NEW s, NEW v, NEW w, WritesNext(st, d, bs, s, v, w)
  PROVE  /\ Head(st).writes = <<w>>
         /\ NoPartOf(Written(v, <<w>>), d) /\ NoPartOf(Written(v, <<TornWrite(w)>>), d)
<1> DEFINE o == Head(st)
           g == Stage(o)
<1>0. /\ st \in Seq(Operation) /\ d \in Images /\ d # << >> /\ bs \in SUBSET DOMAIN d
      /\ Planned(st, d, bs, s) /\ Done(st, d, s, v) /\ v = [p \in Places |-> v[p]]
      /\ s \in Nat /\ s \in Sequences /\ s + 1 \in Sequences /\ DOMAIN d \subseteq Blocks
  BY ProgressFacts DEF WritesNext
<1> USE DEF WritesNext, NoPartOf
<1>1. /\ PlannedOp(o, d, bs, s)
      /\ g \in {1, 2, 3, 4, 5}
      /\ g # 1 => ~Remains(st, {1})
      /\ g \in {1, 2, 3} => Remains(Tail(st), {4})
      /\ g \in {3, 4, 5} => ~Remains(st, {2})
  BY <1>0, PlannedTail
<1>2. g \in {1, 2, 4} /\ s \in Nat
  BY <1>0, <1>1, PlannedWrite
<1>3. DOMAIN d \subseteq Blocks
  BY <1>0
<1>5. CASE g = 1
  <2> DEFINE hd == PrimaryHeader(d, s + 1, s)
  <2>1. o.writes = <<At(HEADER, hd)>> /\ w = At(HEADER, hd) /\ o.writes = <<w>>
    BY <1>1, <1>2, <1>5, PlannedWrite
  <2>2. TornWrite(w) = At(HEADER, Torn)
    BY <2>1 DEF TornWrite, At
  <2> HIDE DEF hd
  <2>3. Written(v, <<w>>)[HEADER] = hd
    BY <1>0, <2>1, OneWrite, PlaceFacts
  <2>4. Written(v, <<TornWrite(w)>>)[HEADER] = Torn
    BY <1>0, <2>2, OneWrite, PlaceFacts
  <2>5. hd.Sequence1 # hd.Sequence2
    BY <1>2 DEF hd, PrimaryHeader, Header
  <2>6. QED
    BY <2>1, <2>3, <2>4, <2>5, NotSound
<1>6. CASE g = 2
  <2>1. PICK c \in bs : o.writes = <<At(Block(c), d[c])>>
    BY <1>1, <1>2, <1>6, PlannedWrite
  <2>2. w = At(Block(c), d[c]) /\ o.writes = <<w>>
    BY <2>1
  <2>3. TornWrite(w) = At(Block(c), Torn) /\ c \in Blocks
    BY <1>0, <1>3, <2>2 DEF TornWrite, At
  <2>4. v[HEADER] = PrimaryHeader(d, s + 1, s)
    <3>1. Remains(st, {2, 3, 4}) /\ ~Remains(st, {1})
      BY <1>0, <1>1, <1>6, RemainsTail
    <3>2. QED
      BY <1>0, <3>1 DEF Done
  <2>5. Written(v, <<w>>)[HEADER] = v[HEADER]
    BY <1>0, <2>2, <2>3, OneWrite, PlaceFacts
  <2>6. Written(v, <<TornWrite(w)>>)[HEADER] = v[HEADER]
    BY <1>0, <2>3, OneWrite, PlaceFacts
  <2>7. v[HEADER].Sequence1 # v[HEADER].Sequence2
    BY <1>2, <2>4 DEF PrimaryHeader, Header
  <2>8. QED
    BY <2>2, <2>5, <2>6, <2>7, NotSound
<1>7. CASE g = 4
  <2> DEFINE hd == PrimaryHeader(d, s + 1, s + 1)
  <2>1. o.writes = <<At(HEADER, hd)>> /\ w = At(HEADER, hd) /\ o.writes = <<w>>
    BY <1>1, <1>2, <1>7, PlannedWrite
  <2>2. TornWrite(w) = At(HEADER, Torn)
    BY <2>1 DEF TornWrite, At
  <2>3. \A b \in DOMAIN d : v[Block(b)] = d[b]
    BY <1>0, <1>1, <1>7, CleanInFile
  <2> DEFINE u == Written(v, <<w>>)
  <2> HIDE DEF hd
  <2>4. u[HEADER] = hd /\ \A b \in DOMAIN d : u[Block(b)] = v[Block(b)]
    BY <1>0, <1>3, <2>1, OneWrite, PlaceFacts
  <2>5. Written(v, <<TornWrite(w)>>)[HEADER] = Torn
    BY <1>0, <2>2, OneWrite, PlaceFacts
  <2> HIDE DEF u
  <2>6. PrimaryImage(u) = d
    BY <1>0, <2>3, <2>4, CompleteImage DEF hd
  <2>7. QED
    BY <2>1, <2>5, <2>6, NotSound DEF u
<1>8. QED
  BY <1>2, <1>5, <1>6, <1>7

-----------------------------------------------------------------------------
(* The steps *)

\* The hive that is not loaded has the types of one.
LEMMA NoHiveTypes ==
  /\ NoHive \in [Data : Images, Dirty : SUBSET Blocks, Sequence1 : Sequences, Sequence2 : Sequences]
  /\ NoHive.Dirty \subseteq DOMAIN NoHive.Data
<1>1. << >> \in Images
  <2>1. << >> \in [1 .. 0 -> Contents \cup {Torn}]
    OBVIOUS
  <2>2. 0 \in 0 .. MaxLength
    BY BoundsAssumption
  <2>3. QED
    BY <2>1, <2>2 DEF Images
<1>2. 0 \in Sequences
  BY BoundsAssumption DEF Sequences
<1>3. QED
  BY <1>1, <1>2 DEF NoHive

\* The call that is not there has the types of one.
LEMMA NoCallTypes ==
  /\ NoCall \in [name : CallNames, base : HeaderType \cup {None, Torn}, steps : Seq(Operation)]
  /\ NoCall.name = "none" /\ NoCall.steps = << >>
BY DEF NoCall, CallNames

\* The invariant holds at the start.
LEMMA InitIInv == Init => IInv
<1> SUFFICES ASSUME Init PROVE IInv
  OBVIOUS
<1> USE DEF Init
<1>1. 0 \in Contents /\ 1 \in Blocks /\ 1 \in 0 .. MaxLength /\ 2 \in Sequences
  BY BoundsAssumption DEF Contents, Blocks, Sequences
<1>2. /\ EmptyFile = [p \in Places |-> None]
      /\ FileOK(EmptyFile) /\ \A file : HeaderOK(file, EmptyFile[HEADER])
  BY PlaceFacts DEF EmptyFile, FileOK, HeaderOK
<1> DEFINE one == OneBlockHive
           hd == Header(2, 2, "PRIMARY", 1)
<1>3. /\ one = [p \in Places |-> one[p]] /\ DOMAIN one = Places
      /\ one[HEADER] = hd /\ one[Block(1)] = 0 /\ one[BITMAP] = None
      /\ \A i \in Blocks : one[Block(i)] \in {0, None}
  BY <1>1, PlaceFacts DEF OneBlockHive, EmptyFile
<1> HIDE DEF one
<1>4. hd \in HeaderType
  BY <1>1, BoundsAssumption DEF HeaderType, Header
<1>5. FileIn("PRIMARY", one) /\ FileIn("ALTERNATE", one)
  BY <1>1, <1>3, <1>4 DEF FileIn, FileOK, HeaderOK
<1>6. \A file : FileIn(file, EmptyFile)
  BY <1>2 DEF FileIn, EmptyFile
<1>7. \A f \in Files : FileIn(f, disk[f]) /\ pending[f] = << >>
  BY <1>5, <1>6 DEF Files, one
<1>8. <<0>> \in Images
  <2>1. <<0>> \in [1 .. 1 -> Contents \cup {Torn}]
    BY <1>1
  <2>2. QED
    BY <1>1, <2>1 DEF Images
<1>9. Types
  BY <1>1, <1>7, <1>8, NoHiveTypes, NoCallTypes DEF Types
<1>10. CallsOK
  BY <1>7, NoCallTypes DEF CallsOK, StepsOK, SavesPrimary, Replaying, RecoveryCalls
<1>11. BasesOK /\ SaveGoesOn /\ CleanMatches /\ Settled
  BY NoCallTypes DEF BasesOK, SaveGoesOn, SavesPrimary, CleanMatches, MaySave, Settled
<1>12. WholeImages
  <2>1. Outcomes(disk["PRIMARY"], pending["PRIMARY"]) = {one}
    <3>1. disk["PRIMARY"] = one /\ pending["PRIMARY"] = << >>
      BY DEF Files, one
    <3>2. QED
      BY <1>3, <3>1, OutcomesNothing
  <2>2. PrimaryImage(one) = <<0>>
    <3>1. one[HEADER].Length = 1
      BY <1>3 DEF Header
    <3>2. QED
      BY <1>3, <3>1 DEF PrimaryImage
  <2>3. QED
    BY <2>1, <2>2 DEF WholeImages
<1>13. QED
  BY <1>9, <1>10, <1>11, <1>12 DEF IInv

LEMMA TypesFacts ==
  ASSUME Types
  PROVE  /\ hive = [Data |-> hive.Data, Dirty |-> hive.Dirty,
                    Sequence1 |-> hive.Sequence1, Sequence2 |-> hive.Sequence2]
         /\ hive.Data \in Images /\ hive.Dirty \subseteq DOMAIN hive.Data
         /\ DOMAIN hive.Data \subseteq Blocks
         /\ hive.Sequence1 \in Sequences /\ hive.Sequence2 \in Sequences
         /\ call = [name |-> call.name, base |-> call.base, steps |-> call.steps]
         /\ call.name \in CallNames /\ call.base \in HeaderType \cup {None, Torn}
         /\ call.steps \in Seq(Operation)
         /\ \A f \in Files : FileIn(f, disk[f]) /\ FileIn(f, View(f)) /\ pending[f] \in Seq(WritesTo(f))
<1>1. \A f \in Files : FileIn(f, View(f))
  BY WrittenOK DEF Types, View
<1>2. DOMAIN hive.Data \subseteq Blocks
  BY ImageFacts DEF Types
<1>3. QED
  BY <1>1, <1>2 DEF Types

\* A change of the hive leaves the files alone and marks what it changes.
LEMMA ChangeStep ==
  ASSUME IInv, NEW data, NEW b, Change(data, b), data \in Images, b \in DOMAIN data,
         DOMAIN hive.Data \subseteq DOMAIN data, data # << >>,
         \A i \in DOMAIN data \ {b} : i \in DOMAIN hive.Data /\ data[i] = hive.Data[i]
  PROVE  IInv'
<1> USE DEF Change, Idle
<1>1. /\ hive'.Data = data /\ hive'.Dirty = hive.Dirty \cup {b}
      /\ hive'.Sequence1 = hive.Sequence1 /\ hive'.Sequence2 = hive.Sequence2
      /\ hive' = [Data |-> hive'.Data, Dirty |-> hive'.Dirty,
                  Sequence1 |-> hive'.Sequence1, Sequence2 |-> hive'.Sequence2]
  BY TypesFacts DEF IInv
<1>2. call = NoCall /\ call.name = "none" /\ call.steps = << >>
  BY NoCallTypes
<1>3. Types'
  <2>1. changes' \in Contents
    BY BoundsAssumption DEF IInv, Types, Contents
  <2>2. hive'.Dirty \subseteq DOMAIN data /\ hive'.Dirty \in SUBSET Blocks
    BY <1>1, ImageFacts, TypesFacts DEF IInv
  <2>3. hive' \in [Data : Images, Dirty : SUBSET Blocks, Sequence1 : Sequences, Sequence2 : Sequences]
    BY <1>1, <2>2, TypesFacts DEF IInv
  <2>4. QED
    BY <1>1, <2>1, <2>2, <2>3 DEF IInv, Types
<1>4. CallsOK'
  BY <1>1, <1>2 DEF IInv, CallsOK, StepsOK, SavesPrimary, Replaying, RecoveryCalls
<1>5. BasesOK' /\ SaveGoesOn'
  BY <1>2 DEF BasesOK, SaveGoesOn, SavesPrimary
<1>6. CleanMatches'
  BY <1>1, <1>2 DEF IInv, CleanMatches, MaySave, View
<1>7. Settled' /\ WholeImages'
  BY DEF IInv, Settled, WholeImages, Log
<1>8. QED
  BY <1>3, <1>4, <1>5, <1>6, <1>7 DEF IInv

\* The invariant survives a change of a block.
LEMMA MarkCellDirtyStep ==
  ASSUME IInv, NEW b \in DOMAIN hive.Data, HvMarkCellDirty(b)
  PROVE  IInv'
<1> DEFINE data == [hive.Data EXCEPT ![b] = changes + 1]
<1>1. Change(data, b)
  BY DEF HvMarkCellDirty
<1>2. changes + 1 \in Contents
  BY <1>1, BoundsAssumption DEF Change, IInv, Types, Contents
<1>3. PICK n \in 0 .. MaxLength : hive.Data \in [1 .. n -> Contents \cup {Torn}]
  BY TypesFacts DEF IInv, Images
<1>4. data \in [1 .. n -> Contents \cup {Torn}]
  BY <1>2, <1>3
<1>5. data \in Images /\ DOMAIN data = DOMAIN hive.Data /\ data # << >>
  <2>1. data \in Images /\ DOMAIN data = DOMAIN hive.Data
    BY <1>3, <1>4 DEF Images
  <2>2. DOMAIN << >> = {}
    OBVIOUS
  <2>3. QED
    BY <2>1, <2>2
<1>6. \A i \in DOMAIN data \ {b} : data[i] = hive.Data[i]
  BY <1>5
<1> HIDE DEF data
<1>7. QED
  BY <1>1, <1>5, <1>6, ChangeStep

\* The invariant survives a new bin.
LEMMA AddBinStep ==
  ASSUME IInv, HvpAddBin
  PROVE  IInv'
<1> DEFINE d == hive.Data
           n == Len(d)
           data == Append(d, changes + 1)
<1>1. Change(data, n + 1) /\ n < MaxLength
  BY DEF HvpAddBin
<1>2. changes + 1 \in Contents
  BY <1>1, BoundsAssumption DEF Change, IInv, Types, Contents
<1>3. d \in Seq(Contents \cup {Torn}) /\ n \in 0 .. MaxLength /\ DOMAIN d = 1 .. n
  BY TypesFacts, ImageFacts DEF IInv
<1> HIDE DEF d, n
<1>4. /\ data \in Seq(Contents \cup {Torn}) /\ data # << >> /\ Len(data) = n + 1
      /\ \A i \in 1 .. n : data[i] = d[i]
  BY <1>2, <1>3, AppendProperties DEF n
<1> HIDE DEF data
<1>5. DOMAIN data = 1 .. n + 1 /\ data \in [1 .. n + 1 -> Contents \cup {Torn}]
  BY <1>4, LenProperties
<1>6. n + 1 \in 0 .. MaxLength /\ n + 1 \in 1 .. n + 1
  BY <1>1, <1>3, BoundsAssumption
<1>7. data \in Images
  BY <1>5, <1>6 DEF Images
<1>8. \A i \in DOMAIN data \ {n + 1} : i \in DOMAIN d /\ data[i] = d[i]
  BY <1>3, <1>4, <1>5
<1>9. DOMAIN d \subseteq DOMAIN data
  BY <1>3, <1>5
<1>10. QED
  BY <1>1, <1>4, <1>5, <1>6, <1>7, <1>8, <1>9, ChangeStep DEF d

-----------------------------------------------------------------------------
(* The start of a save *)

\* Three sequences one after the other.
LEMMA ConcatThree ==
  ASSUME NEW S, NEW a \in Seq(S), NEW b \in Seq(S), NEW c \in Seq(S)
  PROVE  /\ a \o b \o c \in Seq(S)
         /\ Len(a) \in Nat /\ Len(b) \in Nat /\ Len(c) \in Nat
         /\ DOMAIN (a \o b \o c) = 1 .. Len(a) + Len(b) + Len(c)
         /\ \A i \in 1 .. Len(a) : (a \o b \o c)[i] = a[i]
         /\ \A i \in 1 .. Len(b) : (a \o b \o c)[Len(a) + i] = b[i]
         /\ \A i \in 1 .. Len(c) : (a \o b \o c)[Len(a) + Len(b) + i] = c[i]
<1> DEFINE d == a \o b
           e == d \o c
<1>1. Len(a) \in Nat /\ Len(b) \in Nat /\ Len(c) \in Nat
  BY LenProperties
<1>2. /\ d \in Seq(S) /\ Len(d) = Len(a) + Len(b)
      /\ \A i \in 1 .. Len(a) + Len(b) : d[i] = IF i <= Len(a) THEN a[i] ELSE b[i - Len(a)]
  BY ConcatProperties
<1> HIDE DEF d
<1>3. /\ e \in Seq(S) /\ Len(e) = Len(d) + Len(c)
      /\ \A i \in 1 .. Len(d) + Len(c) : e[i] = IF i <= Len(d) THEN d[i] ELSE c[i - Len(d)]
  <2>1. d \in Seq(S)
    BY <1>2
  <2>2. QED
    BY <2>1, ConcatProperties
<1> HIDE DEF e
<1>4. DOMAIN e = 1 .. Len(a) + Len(b) + Len(c)
  BY <1>2, <1>3, LenProperties
<1>5. ASSUME NEW i \in 1 .. Len(a) PROVE e[i] = a[i]
  <2>1. i \in 1 .. Len(a) + Len(b) /\ i \in 1 .. Len(d) + Len(c) /\ i <= Len(d) /\ i <= Len(a)
    BY <1>1, <1>2
  <2>2. QED
    BY <1>2, <1>3, <2>1
<1>6. ASSUME NEW i \in 1 .. Len(b) PROVE e[Len(a) + i] = b[i]
  <2>1. /\ Len(a) + i \in 1 .. Len(a) + Len(b) /\ Len(a) + i \in 1 .. Len(d) + Len(c)
        /\ Len(a) + i <= Len(d) /\ ~(Len(a) + i <= Len(a)) /\ Len(a) + i - Len(a) = i
    BY <1>1, <1>2
  <2>2. QED
    BY <1>2, <1>3, <2>1
<1>7. ASSUME NEW i \in 1 .. Len(c) PROVE e[Len(a) + Len(b) + i] = c[i]
  <2>1. /\ Len(a) + Len(b) + i \in 1 .. Len(d) + Len(c)
        /\ ~(Len(a) + Len(b) + i <= Len(d)) /\ Len(a) + Len(b) + i - Len(d) = i
    BY <1>1, <1>2
  <2>2. QED
    BY <1>3, <2>1
<1>8. QED
  BY <1>1, <1>3, <1>4, <1>5, <1>6, <1>7 DEF d, e

(***************************************************************************)
(* The operations of HvpWriteLog, one by one: the header and the bitmap,   *)
(* each of the dirty blocks once, a flush, the header, a flush.            *)
(***************************************************************************)
LogHeader(d, s1, s2) == Header(s1, s2, "LOG", Len(d))

WriteLogShape(ops, N, h) ==
  LET s == h.Sequence1
  IN  /\ N = Cardinality(h.Dirty) /\ N \in Nat /\ ops \in Seq(Operation) /\ Len(ops) = N + 4
      /\ Ascending(h.Dirty) \in [1 .. N -> h.Dirty]
      /\ \A n \in h.Dirty : \E i \in 1 .. N : Ascending(h.Dirty)[i] = n
      /\ \A i, j \in 1 .. N : Ascending(h.Dirty)[i] = Ascending(h.Dirty)[j] => i = j
      /\ ops[1] = Write("LOG", <<At(HEADER, LogHeader(h.Data, s + 1, s)), At(BITMAP, h.Dirty)>>,
                        s + 1, s, "return")
      /\ \A i \in 1 .. N :
           ops[i + 1] = Write("LOG", <<At(Block(i), h.Data[Ascending(h.Dirty)[i]])>>, s + 1, s, "return")
      /\ ops[N + 2] = Flush("LOG", s + 1, s, "return")
      /\ ops[N + 3] =
           Write("LOG", <<At(HEADER, LogHeader(h.Data, s + 1, s + 1))>>, s + 1, s + 1, "return")
      /\ ops[N + 4] = Flush("LOG", s + 1, s + 1, "return")

\* The operations of HvpWriteLog have that shape.
LEMMA WriteLogFacts ==
  ASSUME NEW h, h.Data \in Images, h.Data # << >>, h.Dirty \subseteq DOMAIN h.Data,
         h.Sequence1 \in Sequences, h.Sequence1 < MaxSequence
  PROVE  \E N \in Nat : WriteLogShape(HvpWriteLog(h), N, h)
<1> DEFINE s == h.Sequence1
           N == Cardinality(h.Dirty)
           order == Ascending(h.Dirty)
           blk(i) == Write("LOG", <<At(Block(i), h.Data[order[i]])>>, s + 1, s, "return")
           a1 == Write("LOG", <<At(HEADER, LogHeader(h.Data, s + 1, s)), At(BITMAP, h.Dirty)>>,
                       s + 1, s, "return")
           a == <<a1>>
           b == [i \in 1 .. Len(order) |-> blk(i)]
           c1 == Flush("LOG", s + 1, s, "return")
           c2 == Write("LOG", <<At(HEADER, LogHeader(h.Data, s + 1, s + 1))>>, s + 1, s + 1, "return")
           c3 == Flush("LOG", s + 1, s + 1, "return")
           c == <<c1, c2, c3>>
           ops == HvpWriteLog(h)
<1>1. /\ DOMAIN h.Data \subseteq Blocks
      /\ \A i \in DOMAIN h.Data : h.Data[i] \in Contents \cup {None, Torn}
  BY ImageFacts
<1>2. h.Dirty \in SUBSET Nat /\ IsFiniteSet(h.Dirty) /\ h.Dirty \subseteq Blocks
  <2>1. IsFiniteSet(1 .. MaxLength)
    BY BoundsAssumption, FS_Interval
  <2>2. h.Dirty \subseteq 1 .. MaxLength
    BY <1>1 DEF Blocks
  <2>3. IsFiniteSet(h.Dirty)
    BY <2>1, <2>2, FS_Subset
  <2>4. QED
    BY <2>2, <2>3 DEF Blocks
<1>3. /\ N \in Nat /\ order \in [1 .. N -> h.Dirty]
      /\ \A n \in h.Dirty : \E i \in 1 .. N : order[i] = n
      /\ \A i, j \in 1 .. N : order[i] = order[j] => i = j
  BY <1>2, AscendingFacts
<1>4. N <= MaxLength
  <2>1. MaxLength \in Nat
    BY BoundsAssumption
  <2>2. IsFiniteSet(1 .. MaxLength) /\ Cardinality(1 .. MaxLength) = MaxLength
    <3>1. 1 \in Int /\ MaxLength \in Int /\ ~(1 > MaxLength) /\ MaxLength - 1 + 1 = MaxLength
      BY BoundsAssumption
    <3>2. QED
      BY <3>1, FS_Interval
  <2>3. h.Dirty \in SUBSET (1 .. MaxLength)
    BY <1>2 DEF Blocks
  <2>4. QED
    BY <2>2, <2>3, FS_Subset
<1> HIDE DEF N, order
<1>5. Len(order) = N
  BY <1>3
<1>6. /\ s \in Sequences /\ s + 1 \in Sequences /\ s + 1 <= MaxSequence
      /\ HeaderOK("LOG", LogHeader(h.Data, s + 1, s))
      /\ HeaderOK("LOG", LogHeader(h.Data, s + 1, s + 1))
      /\ LogHeader(h.Data, s + 1, s) \in HeaderType
      /\ LogHeader(h.Data, s + 1, s + 1) \in HeaderType
  <2>1. s \in Sequences /\ s + 1 \in Sequences /\ s + 1 <= MaxSequence
    BY BoundsAssumption DEF Sequences
  <2>2. /\ LogHeader(h.Data, s + 1, s) \in HeaderType
        /\ LogHeader(h.Data, s + 1, s + 1) \in HeaderType
    BY <2>1, HeaderTypes DEF LogHeader
  <2>3. /\ LogHeader(h.Data, s + 1, s).Sequence1 = s + 1
        /\ LogHeader(h.Data, s + 1, s + 1).Sequence1 = s + 1
    BY DEF LogHeader, Header
  <2>4. QED
    BY <2>1, <2>2, <2>3 DEF HeaderOK
<1>7. "LOG" \in Files
  BY DEF Files
<1>8. a1 \in Operation /\ c2 \in Operation
  <2>1. /\ <<At(HEADER, LogHeader(h.Data, s + 1, s)), At(BITMAP, h.Dirty)>> \in Seq(WritesTo("LOG"))
        /\ <<At(HEADER, LogHeader(h.Data, s + 1, s + 1))>> \in Seq(WritesTo("LOG"))
    BY <1>2, <1>6, <1>7, WriteTypes
  <2>2. QED
    BY <1>6, <1>7, <2>1, OpTypes DEF Write
<1>9. c1 \in Operation /\ c3 \in Operation
  <2>1. << >> \in Seq(WritesTo("LOG"))
    OBVIOUS
  <2>2. QED
    BY <1>6, <1>7, <2>1, OpTypes DEF Flush
<1>10. ASSUME NEW k \in 1 .. N PROVE blk(k) \in Operation
  <2>1. k \in Blocks /\ order[k] \in DOMAIN h.Data
    BY <1>3, <1>4, BoundsAssumption DEF Blocks
  <2>2. <<At(Block(k), h.Data[order[k]])>> \in Seq(WritesTo("LOG"))
    BY <1>1, <1>7, <2>1, WriteTypes
  <2>3. QED
    BY <1>6, <1>7, <2>2, OpTypes DEF Write
<1> HIDE DEF a1, c1, c2, c3
<1>11. ops = a \o b \o c
  BY DEF HvpWriteLog, a1, c1, c2, c3, order, LogHeader
<1> HIDE DEF blk
<1>12. /\ a \in Seq(Operation) /\ Len(a) = 1 /\ a[1] = a1
       /\ c \in Seq(Operation) /\ Len(c) = 3 /\ c[1] = c1 /\ c[2] = c2 /\ c[3] = c3
  BY <1>8, <1>9
<1>13. b \in Seq(Operation) /\ Len(b) = N /\ \A i \in 1 .. N : b[i] = blk(i)
  BY <1>3, <1>5, <1>10
<1> HIDE DEF a, b, c, ops
<1>14. /\ ops \in Seq(Operation)
       /\ DOMAIN ops = 1 .. Len(a) + Len(b) + Len(c)
       /\ \A i \in 1 .. Len(a) : ops[i] = a[i]
       /\ \A i \in 1 .. Len(b) : ops[Len(a) + i] = b[i]
       /\ \A i \in 1 .. Len(c) : ops[Len(a) + Len(b) + i] = c[i]
  <2>1. /\ a \o b \o c \in Seq(Operation)
        /\ DOMAIN (a \o b \o c) = 1 .. Len(a) + Len(b) + Len(c)
        /\ \A i \in 1 .. Len(a) : (a \o b \o c)[i] = a[i]
        /\ \A i \in 1 .. Len(b) : (a \o b \o c)[Len(a) + i] = b[i]
        /\ \A i \in 1 .. Len(c) : (a \o b \o c)[Len(a) + Len(b) + i] = c[i]
    <3>1. a \in Seq(Operation) /\ b \in Seq(Operation) /\ c \in Seq(Operation)
      BY <1>12, <1>13
    <3>2. QED
      BY <3>1, ConcatThree
  <2>2. QED
    BY <1>11, <2>1
<1>15. Len(ops) = N + 4
  <2>1. 1 + N + 3 = N + 4 /\ N + 4 \in Nat
    BY <1>3
  <2>2. QED
    BY <1>12, <1>13, <1>14, <2>1, LenProperties
<1>16. ops[1] = a1 /\ \A i \in 1 .. N : ops[i + 1] = blk(i)
  <2>1. 1 \in 1 .. Len(a) /\ \A i \in 1 .. N : Len(a) + i = i + 1
    BY <1>3, <1>12
  <2>2. QED
    BY <1>12, <1>13, <1>14, <2>1
<1>17. ops[N + 2] = c1 /\ ops[N + 3] = c2 /\ ops[N + 4] = c3
  <2>1. /\ Len(a) + Len(b) + 1 = N + 2 /\ Len(a) + Len(b) + 2 = N + 3 /\ Len(a) + Len(b) + 3 = N + 4
        /\ 1 \in 1 .. Len(c) /\ 2 \in 1 .. Len(c) /\ 3 \in 1 .. Len(c)
    BY <1>3, <1>12, <1>13
  <2>2. QED
    BY <1>12, <1>14, <2>1
<1>18. QED
  BY <1>3, <1>14, <1>15, <1>16, <1>17 DEF WriteLogShape, a1, c1, c2, c3, blk, ops, N, order

(***************************************************************************)
(* HvSyncHive writes the dirty blocks to the log, if there is one, then    *)
(* over the primary file, and no more to the primary file.                 *)
(***************************************************************************)
SyncShape(st, h, k, ops, N, s) ==
  /\ PlanIn(st, k, ops, N, h, s, h.Dirty, "return")
  /\ \A j \in DOMAIN st : st[j].fails = "return" /\ st[j].op # "error"
  /\ Log => /\ \E M \in Nat : k = M + 4 /\ WriteLogShape(HvpWriteLog(h), M, h)
            /\ \A i \in 1 .. k : i \in DOMAIN st /\ st[i] = HvpWriteLog(h)[i]
            /\ DOMAIN st = 1 .. k + N + 4

\* The operations of HvpWriteHive are all on one file and fail in one way.
LEMMA ShapeOps ==
  ASSUME NEW ops, NEW N, NEW h, NEW s, NEW blocks, NEW file, NEW fails,
         WriteHiveShape(ops, N, h, s, blocks, file, fails)
  PROVE  \A i \in DOMAIN ops : ops[i].fails = fails /\ ops[i].op # "error" /\ ops[i].file = file
<1> USE DEF Write, Flush, Op
<1>1. N \in Nat /\ DOMAIN ops = 1 .. N + 4
  BY LenProperties DEF WriteHiveShape
<1> SUFFICES ASSUME NEW i \in 1 .. N + 4
             PROVE  ops[i].fails = fails /\ ops[i].op # "error" /\ ops[i].file = file
  BY <1>1
<1>2. i = 1 \/ i \in 2 .. N + 1 \/ i = N + 2 \/ i = N + 3 \/ i = N + 4
  BY <1>1
<1>3. CASE i \in 2 .. N + 1
  <2>1. PICK b \in blocks : ops[i] = Write(file, <<At(Block(b), h.Data[b])>>, s + 1, s, fails)
    BY <1>3 DEF WriteHiveShape
  <2>2. QED
    BY <2>1
<1>4. QED
  BY <1>2, <1>3 DEF WriteHiveShape

\* The operations of HvpWriteLog are all on the log and make the call return.
LEMMA LogOps ==
  ASSUME NEW ops, NEW N, NEW h, WriteLogShape(ops, N, h)
  PROVE  \A i \in DOMAIN ops : ops[i].fails = "return" /\ ops[i].op # "error" /\ ops[i].file = "LOG"
<1> USE DEF Write, Flush, Op
<1>1. N \in Nat /\ DOMAIN ops = 1 .. N + 4
  BY LenProperties DEF WriteLogShape
<1> SUFFICES ASSUME NEW i \in 1 .. N + 4
             PROVE  ops[i].fails = "return" /\ ops[i].op # "error" /\ ops[i].file = "LOG"
  BY <1>1
<1>2. i = 1 \/ i - 1 \in 1 .. N \/ i = N + 2 \/ i = N + 3 \/ i = N + 4
  BY <1>1
<1>3. CASE i - 1 \in 1 .. N
  <2> DEFINE j == i - 1
  <2>1. ops[j + 1] = Write("LOG", <<At(Block(j), h.Data[Ascending(h.Dirty)[j]])>>,
                           h.Sequence1 + 1, h.Sequence1, "return")
    BY <1>3 DEF WriteLogShape
  <2>2. j + 1 = i
    OBVIOUS
  <2> HIDE DEF j
  <2>3. QED
    BY <2>1, <2>2
<1>4. QED
  BY <1>2, <1>3 DEF WriteLogShape

\* The operations of HvSyncHive have that shape.
LEMMA SyncPlan ==
  ASSUME NEW h, h.Data \in Images, h.Data # << >>, h.Dirty \subseteq DOMAIN h.Data,
         h.Sequence1 \in Sequences, h.Sequence1 < MaxSequence
  PROVE  \E k, N, ops, s : s \in 0 .. MaxSequence /\ SyncShape(SyncOps(h), h, k, ops, N, s)
<1> DEFINE s == h.Sequence1 + (IF Log THEN 1 ELSE 0)
           a == IF Log THEN HvpWriteLog(h) ELSE << >>
           b == HvpWriteHive(h, s, h.Dirty, "PRIMARY", "return")
           c == IF Alternate THEN HvpWriteHive(h, s + 1, h.Dirty, "ALTERNATE", "return") ELSE << >>
           st == SyncOps(h)
<1>1. s \in 0 .. MaxSequence /\ s \in Sequences /\ s + 1 \in Sequences /\ s + 1 + 1 \in Sequences
  <2>1. /\ h.Sequence1 \in 0 .. MaxSequence /\ h.Sequence1 + 1 \in 0 .. MaxSequence
        /\ MaxSequence \in Nat
    BY BoundsAssumption DEF Sequences
  <2>2. s = h.Sequence1 \/ s = h.Sequence1 + 1
    BY <2>1
  <2> HIDE DEF s
  <2>3. s \in 0 .. MaxSequence
    BY <2>1, <2>2
  <2>4. QED
    BY <2>1, <2>3 DEF Sequences
<1>2. st = a \o b \o c
  BY DEF SyncOps
<1> HIDE DEF s, st
<1>3. PICK N \in Nat : WriteHiveShape(b, N, h, s, h.Dirty, "PRIMARY", "return")
  BY <1>1, WriteHiveFacts
<1>4. /\ a \in Seq(Operation) /\ \A i \in DOMAIN a : a[i].fails = "return" /\ a[i].op # "error" /\ a[i].file = "LOG"
      /\ Log => \E M \in Nat : Len(a) = M + 4 /\ WriteLogShape(HvpWriteLog(h), M, h)
  <2>1. CASE Log
    <3>1. PICK M \in Nat : WriteLogShape(HvpWriteLog(h), M, h)
      BY WriteLogFacts
    <3>2. a = HvpWriteLog(h)
      BY <2>1
    <3> HIDE DEF a
    <3>3. a \in Seq(Operation) /\ Len(a) = M + 4
      BY <3>1, <3>2 DEF WriteLogShape
    <3>4. \A i \in DOMAIN a : a[i].fails = "return" /\ a[i].op # "error" /\ a[i].file = "LOG"
      BY <3>1, <3>2, LogOps
    <3>5. QED
      BY <3>1, <3>3, <3>4
  <2>2. CASE ~Log
    <3>1. a = << >>
      BY <2>2
    <3> HIDE DEF a
    <3>2. a \in Seq(Operation) /\ DOMAIN a = {}
      BY <3>1
    <3>3. QED
      BY <2>2, <3>2
  <2>3. QED
    BY <2>1, <2>2
<1>5. c \in Seq(Operation) /\ \A i \in DOMAIN c : c[i].fails = "return" /\ c[i].op # "error" /\ c[i].file # "PRIMARY"
  <2>1. CASE Alternate
    <3>1. PICK M \in Nat : WriteHiveShape(HvpWriteHive(h, s + 1, h.Dirty, "ALTERNATE", "return"), M,
                                          h, s + 1, h.Dirty, "ALTERNATE", "return")
      BY <1>1, WriteHiveFacts
    <3>2. c = HvpWriteHive(h, s + 1, h.Dirty, "ALTERNATE", "return")
      BY <2>1
    <3> HIDE DEF c
    <3>3. c \in Seq(Operation)
      BY <3>1, <3>2 DEF WriteHiveShape
    <3>4. \A i \in DOMAIN c : c[i].fails = "return" /\ c[i].op # "error" /\ c[i].file = "ALTERNATE"
      BY <3>1, <3>2, ShapeOps
    <3>5. QED
      BY <3>3, <3>4
  <2>2. CASE ~Alternate
    <3>1. c = << >>
      BY <2>2
    <3> HIDE DEF c
    <3>2. c \in Seq(Operation) /\ DOMAIN c = {}
      BY <3>1
    <3>3. QED
      BY <3>2
  <2>3. QED
    BY <2>1, <2>2
<1>6. ~Log \/ ~Alternate
  BY DEF Log, Alternate
<1>7. Log => a = HvpWriteLog(h) /\ c = << >>
  BY <1>6
<1>8. b \in Seq(Operation) /\ Len(b) = N + 4 /\ DOMAIN b = 1 .. N + 4
      /\ \A i \in DOMAIN b : b[i].fails = "return" /\ b[i].op # "error"
  <2>1. b \in Seq(Operation) /\ Len(b) = N + 4
    BY <1>3 DEF WriteHiveShape
  <2>2. QED
    BY <1>3, <2>1, ShapeOps, LenProperties
<1> HIDE DEF a, b, c
<1> DEFINE k == Len(a)
<1>9. /\ st \in Seq(Operation)
      /\ Len(a) \in Nat /\ Len(b) \in Nat /\ Len(c) \in Nat
      /\ DOMAIN st = 1 .. Len(a) + Len(b) + Len(c)
      /\ \A i \in 1 .. Len(a) : st[i] = a[i]
      /\ \A i \in 1 .. Len(b) : st[Len(a) + i] = b[i]
      /\ \A i \in 1 .. Len(c) : st[Len(a) + Len(b) + i] = c[i]
  <2>1. a \in Seq(Operation) /\ b \in Seq(Operation) /\ c \in Seq(Operation)
    BY <1>4, <1>5, <1>8
  <2>2. /\ a \o b \o c \in Seq(Operation)
        /\ DOMAIN (a \o b \o c) = 1 .. Len(a) + Len(b) + Len(c)
        /\ \A i \in 1 .. Len(a) : (a \o b \o c)[i] = a[i]
        /\ \A i \in 1 .. Len(b) : (a \o b \o c)[Len(a) + i] = b[i]
        /\ \A i \in 1 .. Len(c) : (a \o b \o c)[Len(a) + Len(b) + i] = c[i]
    BY <2>1, ConcatThree
  <2>3. Len(a) \in Nat /\ Len(b) \in Nat /\ Len(c) \in Nat
    BY <2>1, LenProperties
  <2>4. QED
    BY <1>2, <2>2, <2>3
<1>10. DOMAIN a = 1 .. Len(a) /\ DOMAIN c = 1 .. Len(c)
  BY <1>4, <1>5, LenProperties
<1>11. ASSUME NEW i \in 1 .. N + 4 PROVE k + i \in DOMAIN st /\ st[k + i] = b[i]
  BY <1>8, <1>9
<1>12. ASSUME NEW j \in DOMAIN st
       PROVE  \/ j \in DOMAIN a /\ st[j] = a[j]
              \/ j - k \in DOMAIN b /\ st[j] = b[j - k]
              \/ \E i \in DOMAIN c : st[j] = c[i]
  <2>1. CASE j <= k
    BY <1>9, <1>10, <2>1
  <2>2. CASE j > k /\ j <= k + Len(b)
    <3>1. j - k \in 1 .. Len(b) /\ k + (j - k) = j
      BY <1>9, <2>2
    <3>2. QED
      BY <1>8, <1>9, <3>1
  <2>3. CASE j > k + Len(b)
    <3> DEFINE i == j - (k + Len(b))
    <3>1. i \in 1 .. Len(c) /\ k + Len(b) + i = j
      BY <1>9, <2>3
    <3> HIDE DEF i
    <3>2. st[j] = c[i]
      BY <1>9, <3>1
    <3>3. QED
      BY <1>10, <3>1, <3>2
  <2>4. QED
    BY <1>9, <2>1, <2>2, <2>3
<1>13. ASSUME NEW j \in DOMAIN st
       PROVE  /\ AtPrimary(st[j]) => j - k \in 1 .. N + 4
              /\ st[j].fails = "return" /\ st[j].op # "error"
  BY <1>4, <1>5, <1>8, <1>12 DEF AtPrimary
<1>14. ASSUME Log
       PROVE  /\ \E M \in Nat : k = M + 4 /\ WriteLogShape(HvpWriteLog(h), M, h)
              /\ \A i \in 1 .. k : i \in DOMAIN st /\ st[i] = HvpWriteLog(h)[i]
              /\ DOMAIN st = 1 .. k + N + 4
  <2>1. Len(c) = 0 /\ a = HvpWriteLog(h)
    BY <1>7, <1>14, EmptySeq
  <2>2. \A i \in 1 .. k : i \in DOMAIN st
    BY <1>9
  <2>3. Len(a) + Len(b) + Len(c) = k + N + 4
    BY <1>8, <1>9, <2>1
  <2>4. QED
    BY <1>4, <1>9, <1>14, <2>1, <2>2, <2>3
<1>15. SyncShape(st, h, k, b, N, s)
  <2>1. PlanIn(st, k, b, N, h, s, h.Dirty, "return")
    BY <1>1, <1>3, <1>9, <1>11, <1>13 DEF PlanIn
  <2>2. QED
    BY <1>13, <1>14, <2>1 DEF SyncShape
<1>16. s \in 0 .. MaxSequence /\ SyncShape(SyncOps(h), h, k, b, N, s)
  BY <1>1, <1>15 DEF st
<1> HIDE DEF k
<1>17. QED
  BY <1>16

\* What every start of a save does.
LEMMA SaveStart ==
  ASSUME IInv, NEW name \in {"HvSyncHive", "HvWriteHive", "HvWriteAlternateHive"},
         NEW steps \in Seq(Operation), Save(name, steps),
         \A j \in DOMAIN steps : steps[j].fails = "return" /\ steps[j].op # "error",
         name = "HvWriteHive" => \A i \in DOMAIN steps : AtPrimary(steps[i]),
         name = "HvWriteAlternateHive" =>
           attempts' = attempts /\ \A i \in DOMAIN steps : ~AtPrimary(steps[i]),
         name # "HvWriteAlternateHive" => attempts' = attempts \cup {hive.Data}
  PROVE  /\ Types' /\ CallsOK' /\ BasesOK' /\ CleanMatches' /\ Settled' /\ WholeImages'
         /\ call'.name = name /\ call'.steps = steps
         /\ \A b \in DOMAIN hive.Data \ hive.Dirty : View("PRIMARY")[Block(b)] = hive.Data[b]
<1> USE DEF Save, Idle
<1>1. /\ call'.name = name /\ call'.steps = steps /\ call'.base = None
      /\ call' = [name |-> name, base |-> None, steps |-> steps]
  OBVIOUS
<1>2. /\ status = "Up" /\ call.name = "none" /\ call.steps = << >>
  BY NoCallTypes
<1>3. Types'
  <2>1. attempts' \subseteq Images
    BY TypesFacts DEF IInv, Types
  <2>2. call' \in [name : CallNames, base : HeaderType \cup {None, Torn}, steps : Seq(Operation)]
    BY <1>1 DEF CallNames
  <2>3. QED
    BY <2>1, <2>2 DEF IInv, Types
<1>4. CallsOK'
  <2>1. /\ status' = status /\ hive' = hive /\ pending' = pending
    OBVIOUS
  <2>2. hive.Data # << >>
    BY <1>2 DEF IInv, CallsOK
  <2>3. ~Replaying'
    BY <1>1 DEF Replaying, RecoveryCalls
  <2>4. name # "HvWriteAlternateHive" => hive.Data \in attempts'
    OBVIOUS
  <2>5. QED
    BY <1>1, <1>2, <2>1, <2>2, <2>3, <2>4 DEF CallsOK, StepsOK, RecoveryCalls
<1>5. BasesOK'
  BY <1>1 DEF BasesOK
<1>6. CleanMatches' /\ \A b \in DOMAIN hive.Data \ hive.Dirty : View("PRIMARY")[Block(b)] = hive.Data[b]
  <2>1. \A b \in DOMAIN hive.Data \ hive.Dirty : View("PRIMARY")[Block(b)] = hive.Data[b]
    BY <1>2 DEF IInv, CleanMatches, MaySave
  <2>2. View("PRIMARY")' = View("PRIMARY") /\ hive' = hive
    BY DEF View
  <2>3. QED
    BY <2>1, <2>2 DEF CleanMatches
<1>7. Settled'
  BY <1>2 DEF IInv, Settled
<1>8. WholeImages'
  <2>1. attempts \subseteq attempts'
    OBVIOUS
  <2>2. QED
    BY <2>1 DEF IInv, WholeImages, Log
<1>9. QED
  BY <1>1, <1>3, <1>4, <1>5, <1>6, <1>7, <1>8

\* The invariant survives the start of HvSyncHive,
LEMMA HvSyncHiveStep ==
  ASSUME IInv, HvSyncHive
  PROVE  IInv'
<1>1. Save("HvSyncHive", SyncOps(hive)) /\ attempts' = attempts \cup {hive.Data}
  BY DEF HvSyncHive
<1>2. /\ hive.Data \in Images /\ hive.Data # << >> /\ hive.Dirty \subseteq DOMAIN hive.Data
      /\ hive.Sequence1 \in Sequences /\ hive.Sequence1 < MaxSequence
      /\ hive' = hive /\ View("PRIMARY")' = View("PRIMARY")
  BY <1>1, TypesFacts DEF IInv, Save, Idle, CallsOK, View
<1>3. PICK k, N, ops, s : s \in 0 .. MaxSequence /\ SyncShape(SyncOps(hive), hive, k, ops, N, s)
  BY <1>2, SyncPlan
<1> DEFINE st == SyncOps(hive)
<1>4. /\ st \in Seq(Operation)
      /\ PlanIn(st, k, ops, N, hive, s, hive.Dirty, "return")
      /\ \A j \in DOMAIN st : st[j].fails = "return" /\ st[j].op # "error"
  BY <1>3 DEF SyncShape, PlanIn
<1> HIDE DEF st
<1>5. /\ Types' /\ CallsOK' /\ BasesOK' /\ CleanMatches' /\ Settled' /\ WholeImages'
      /\ call'.name = "HvSyncHive" /\ call'.steps = st
      /\ \A b \in DOMAIN hive.Data \ hive.Dirty : View("PRIMARY")[Block(b)] = hive.Data[b]
  <2>1. Save("HvSyncHive", st)
    BY <1>1 DEF st
  <2>2. QED
    BY <1>1, <1>4, <2>1, SaveStart
<1>6. /\ Planned(st, hive.Data, hive.Dirty, s)
      /\ Done(st, hive.Data, s, View("PRIMARY"))
      /\ Remains(st, {1, 2, 3, 4, 5})
  <2>1. RestInFile(View("PRIMARY"), hive, hive.Dirty)
    BY <1>5 DEF RestInFile
  <2>2. QED
    BY <1>4, <2>1, FreshPlan
<1>7. ToSave' = hive.Dirty
  BY <1>2, <1>5 DEF ToSave
<1>8. SaveGoesOn'
  BY <1>2, <1>3, <1>5, <1>6, <1>7 DEF SaveGoesOn
<1>9. QED
  BY <1>5, <1>8 DEF IInv

\* ... of HvWriteHive
LEMMA HvWriteHiveStep ==
  ASSUME IInv, HvWriteHive
  PROVE  IInv'
<1> DEFINE st == HvpWriteHive(hive, hive.Sequence1, AllBlocks, "PRIMARY", "return")
           s == hive.Sequence1
<1>1. Save("HvWriteHive", st) /\ attempts' = attempts \cup {hive.Data}
  BY DEF HvWriteHive
<1>2. /\ hive.Data \in Images /\ hive.Data # << >> /\ hive.Dirty \subseteq DOMAIN hive.Data
      /\ hive.Sequence1 \in Sequences /\ hive.Sequence1 < MaxSequence
      /\ hive' = hive /\ View("PRIMARY")' = View("PRIMARY")
  BY <1>1, TypesFacts DEF IInv, Save, Idle, CallsOK, View
<1>3. s \in 0 .. MaxSequence /\ s \in Nat /\ s + 1 \in Sequences
  BY <1>2, BoundsAssumption DEF Sequences
<1>4. PICK N \in Nat : WriteHiveShape(st, N, hive, s, AllBlocks, "PRIMARY", "return")
  BY <1>2, <1>3, WriteHiveFacts DEF AllBlocks
<1> HIDE DEF st
<1>5. /\ st \in Seq(Operation) /\ DOMAIN st = 1 .. N + 4
      /\ \A j \in DOMAIN st : st[j].fails = "return" /\ st[j].op # "error" /\ AtPrimary(st[j])
  <2>1. st \in Seq(Operation) /\ Len(st) = N + 4
    BY <1>4 DEF WriteHiveShape
  <2>2. \A j \in DOMAIN st : st[j].fails = "return" /\ st[j].op # "error" /\ AtPrimary(st[j])
    BY <1>4, ShapeOps DEF AtPrimary
  <2>3. QED
    BY <2>1, <2>2, LenProperties
<1>6. /\ Types' /\ CallsOK' /\ BasesOK' /\ CleanMatches' /\ Settled' /\ WholeImages'
      /\ call'.name = "HvWriteHive" /\ call'.steps = st
  BY <1>1, <1>5, SaveStart
<1>7. /\ Planned(st, hive.Data, AllBlocks, s)
      /\ Done(st, hive.Data, s, View("PRIMARY"))
      /\ Remains(st, {1, 2, 3, 4, 5})
  <2>1. /\ \A i \in 1 .. N + 4 : 0 + i \in DOMAIN st /\ st[0 + i] = st[i]
        /\ \A j \in DOMAIN st : AtPrimary(st[j]) => j - 0 \in 1 .. N + 4
    BY <1>5
  <2>2. PlanIn(st, 0, st, N, hive, s, AllBlocks, "return")
    BY <1>3, <1>4, <1>5, <2>1 DEF PlanIn
  <2>3. RestInFile(View("PRIMARY"), hive, AllBlocks)
    BY DEF AllBlocks, RestInFile
  <2>4. QED
    BY <2>2, <2>3, FreshPlan
<1>8. ToSave' = AllBlocks
  BY <1>2, <1>6 DEF ToSave, AllBlocks
<1>9. SaveGoesOn'
  BY <1>2, <1>3, <1>6, <1>7, <1>8 DEF SaveGoesOn
<1>10. QED
  BY <1>6, <1>9 DEF IInv

\* ... and of HvWriteAlternateHive.
LEMMA HvWriteAlternateHiveStep ==
  ASSUME IInv, HvWriteAlternateHive
  PROVE  IInv'
<1> DEFINE st == HvpWriteHive(hive, hive.Sequence1, AllBlocks, "ALTERNATE", "return")
           s == hive.Sequence1
<1>1. Save("HvWriteAlternateHive", st) /\ attempts' = attempts
  BY DEF HvWriteAlternateHive
<1>2. /\ hive.Data \in Images /\ hive.Data # << >>
      /\ hive.Sequence1 \in Sequences /\ hive.Sequence1 < MaxSequence
  BY <1>1, TypesFacts DEF IInv, Save, Idle, CallsOK
<1>3. s \in Sequences /\ s + 1 \in Sequences
  BY <1>2, BoundsAssumption DEF Sequences
<1>4. PICK N \in Nat : WriteHiveShape(st, N, hive, s, AllBlocks, "ALTERNATE", "return")
  BY <1>2, <1>3, WriteHiveFacts DEF AllBlocks
<1> HIDE DEF st
<1>5. /\ st \in Seq(Operation)
      /\ \A j \in DOMAIN st : st[j].fails = "return" /\ st[j].op # "error" /\ ~AtPrimary(st[j])
  <2>1. st \in Seq(Operation)
    BY <1>4 DEF WriteHiveShape
  <2>2. \A j \in DOMAIN st : st[j].fails = "return" /\ st[j].op # "error" /\ ~AtPrimary(st[j])
    BY <1>4, ShapeOps DEF AtPrimary
  <2>3. QED
    BY <2>1, <2>2
<1>6. /\ Types' /\ CallsOK' /\ BasesOK' /\ CleanMatches' /\ Settled' /\ WholeImages'
      /\ call'.name = "HvWriteAlternateHive"
  BY <1>1, <1>5, SaveStart
<1>7. SaveGoesOn'
  BY <1>6 DEF SaveGoesOn, SavesPrimary
<1>8. QED
  BY <1>6, <1>7 DEF IInv

-----------------------------------------------------------------------------
(* The operations of a call *)

\* The plan of a call that writes the primary file.
LEMMA SaveFacts ==
  ASSUME IInv, SavesPrimary
  PROVE  /\ FileIn("PRIMARY", View("PRIMARY")) /\ FileIn("PRIMARY", disk["PRIMARY"])
         /\ pending["PRIMARY"] \in Seq(WritesTo("PRIMARY"))
         /\ \E s : Progress(call.steps, hive.Data, ToSave, s, View("PRIMARY"))
         /\ ~Remains(call.steps, {1, 2, 3, 4, 5}) => pending["PRIMARY"] = << >>
<1>1. /\ hive.Data \in Images /\ hive.Data # << >>
      /\ ToSave \in SUBSET DOMAIN hive.Data
  BY TypesFacts DEF IInv, CallsOK, ToSave
<1>2. "PRIMARY" \in Files
  BY DEF Files
<1>3. /\ FileIn("PRIMARY", View("PRIMARY")) /\ FileIn("PRIMARY", disk["PRIMARY"])
      /\ pending["PRIMARY"] \in Seq(WritesTo("PRIMARY"))
      /\ call.steps \in Seq(Operation)
  BY <1>2, TypesFacts DEF IInv
<1>4. View("PRIMARY") = [p \in Places |-> View("PRIMARY")[p]]
  BY <1>3 DEF FileIn
<1>5. PICK s \in 0 .. MaxSequence :
        Planned(call.steps, hive.Data, ToSave, s) /\ Done(call.steps, hive.Data, s, View("PRIMARY"))
  BY DEF IInv, SaveGoesOn
<1>6. Progress(call.steps, hive.Data, ToSave, s, View("PRIMARY"))
  BY <1>1, <1>3, <1>4, <1>5 DEF Progress
<1>7. ~Remains(call.steps, {1, 2, 3, 4, 5}) => pending["PRIMARY"] = << >>
  BY DEF IInv, SaveGoesOn
<1>8. QED
  BY <1>3, <1>6, <1>7

\* The next operation of the call writes w to the primary file.
StepWrites(w) ==
  call.steps # << >> /\ AtPrimary(Step) /\ Step.op # "flush" /\ w = Step.writes[1]

(***************************************************************************)
(* Whatever a crash leaves of the next write of a save, a load would take  *)
(* it only if it could be left before, or if it is the image being saved.  *)
(***************************************************************************)
LEMMA NextOutcomes ==
  ASSUME IInv, SavesPrimary, NEW w, StepWrites(w)
  PROVE  /\ Step.writes = <<w>> /\ w \in WritesTo("PRIMARY")
         /\ \A x \in {w, TornWrite(w)} : x = w \/ Tearable(w) =>
              \A p \in Outcomes(disk["PRIMARY"], pending["PRIMARY"] \o <<x>>) :
                \/ p \in Outcomes(disk["PRIMARY"], pending["PRIMARY"])
                \/ Sound(p) => PrimaryImage(p) = hive.Data
<1> DEFINE now == View("PRIMARY")
           f == disk["PRIMARY"]
           q == pending["PRIMARY"]
           todo == call.steps
           S == WritesTo("PRIMARY")
<1>1. PICK n : Progress(todo, hive.Data, ToSave, n, now)
  BY SaveFacts
<1>2. now = [p \in Places |-> now[p]] /\ q \in Seq(S) /\ todo \in Seq(Operation)
  BY <1>1, SaveFacts DEF Progress
<1>3. now = Written(f, q) /\ Step = Head(todo) /\ todo # << >>
  BY DEF View, Step, StepWrites
<1> HIDE DEF now, f, q, todo
<1>4. /\ Step.writes = <<w>>
      /\ \A p \in {Written(now, <<w>>), Written(now, <<TornWrite(w)>>)} :
           Sound(p) => PrimaryImage(p) = hive.Data
  <2>1. AtPrimary(Head(todo)) /\ Head(todo).op # "flush" /\ w = Head(todo).writes[1]
    BY <1>3 DEF StepWrites
  <2>2. /\ Head(todo).writes = <<w>>
        /\ NoPartOf(Written(now, <<w>>), hive.Data)
        /\ NoPartOf(Written(now, <<TornWrite(w)>>), hive.Data)
    <3>1. WritesNext(todo, hive.Data, ToSave, n, now, w)
      BY <1>1, <1>3, <2>1 DEF WritesNext
    <3>2. QED
      BY <3>1, NextWrite
  <2>3. QED
    BY <1>3, <2>2 DEF NoPartOf
<1>5. Step \in Operation
  BY <1>2, <1>3, TailFacts
<1>6. <<w>> \in Seq(S) /\ w \in S
  <2>1. Step.writes \in Seq(S)
    BY <1>5, OperationFacts DEF AtPrimary, StepWrites
  <2>2. <<w>> \in Seq(S)
    BY <1>4, <2>1
  <2>3. Len(<<w>>) = 1 /\ <<w>>[1] = w
    OBVIOUS
  <2>4. QED
    BY <2>2, <2>3, ElementOfSeq
<1> HIDE DEF S
<1>7. ASSUME NEW x \in {w, TornWrite(w)}, x = w \/ Tearable(w), NEW p \in Outcomes(f, q \o <<x>>)
      PROVE  p \in Outcomes(f, q) \/ (Sound(p) => PrimaryImage(p) = hive.Data)
  <2>1. x \in S /\ (Tearable(x) => TornWrite(x) = TornWrite(w))
    BY <1>6, <1>7, TornOK DEF S
  <2>2. <<x>> \in Seq(S)
    BY <2>1
  <2>3. p \in Outcomes(f, q) \/ p \in Outcomes(now, <<x>>)
    BY <1>2, <1>3, <1>7, <2>2, OutcomesConcat
  <2>4. now \in Outcomes(f, q)
    BY <1>2, <1>3, ViewIsOutcome
  <2>5. ASSUME p \in Outcomes(now, <<x>>)
        PROVE  p = now \/ p \in {Written(now, <<w>>), Written(now, <<TornWrite(w)>>)}
    <3>1. p = now \/ p = Written(now, <<x>>) \/ (Tearable(x) /\ p = Written(now, <<TornWrite(x)>>))
      BY <1>2, <2>5, OutcomesOne
    <3>2. QED
      BY <2>1, <3>1
  <2>6. QED
    BY <1>4, <2>3, <2>4, <2>5
<1>8. QED
  BY <1>4, <1>6, <1>7 DEF f, q, S

\* The next operation of a call, and the others.
LEMMA StepFacts ==
  ASSUME Types, call.steps # << >>
  PROVE  /\ Step = Head(call.steps) /\ Step = call.steps[1] /\ 1 \in DOMAIN call.steps
         /\ Step \in Operation
         /\ Step.op \in {"write", "flush", "error"} /\ Step.file \in Files
         /\ Step.writes \in Seq(WritesTo(Step.file))
         /\ Step.Sequence1 \in Sequences /\ Step.Sequence2 \in Sequences
         /\ Tail(call.steps) \in Seq(Operation)
<1>1. call.steps \in Seq(Operation) /\ Step = Head(call.steps)
  BY TypesFacts DEF Step
<1>2. /\ Step = call.steps[1] /\ 1 \in DOMAIN call.steps /\ Step \in Operation
      /\ Tail(call.steps) \in Seq(Operation)
  BY <1>1, TailFacts
<1>3. QED
  BY <1>1, <1>2, OperationFacts

\* What holds of the operations of a call holds of the rest of them.
LEMMA StepsOKTail ==
  ASSUME NEW name, NEW st \in Seq(Operation), st # << >>, StepsOK(name, st)
  PROVE  StepsOK(name, Tail(st))
<1> DEFINE t == Tail(st)
<1>1. \A i \in DOMAIN t : i \in Nat /\ i + 1 \in DOMAIN st /\ t[i] = st[i + 1]
  BY TailFacts
<1> HIDE DEF t
<1>2. SUFFICES ASSUME NEW i \in DOMAIN t
               PROVE  LET o == t[i]
                      IN  /\ CASE name \in RecoveryCalls ->
                                    /\ o.fails \in {"Fallback", "Corrupt"}
                                    /\ o.op # "error" => AtPrimary(o)
                               [] name = "HvSyncHiveFromRecover" ->
                                    /\ o.fails \in {"IoFailed", "ignore"} /\ o.op # "error"
                                    /\ o.fails = "ignore" =>
                                         \A j \in DOMAIN t : j >= i => ~AtPrimary(t[j])
                               [] OTHER -> o.fails = "return" /\ o.op # "error"
                          /\ name = "HvWriteHive" => AtPrimary(o)
                          /\ name = "HvWriteAlternateHive" => ~AtPrimary(o)
  BY DEF StepsOK, t
<1>3. i + 1 \in DOMAIN st /\ t[i] = st[i + 1]
  BY <1>1
<1>4. ASSUME \A j \in DOMAIN st : j >= i + 1 => ~AtPrimary(st[j])
      PROVE  \A j \in DOMAIN t : j >= i => ~AtPrimary(t[j])
  <2>1. ASSUME NEW j \in DOMAIN t, j >= i PROVE ~AtPrimary(t[j])
    <3>1. j + 1 \in DOMAIN st /\ t[j] = st[j + 1] /\ j + 1 >= i + 1
      BY <1>1, <2>1
    <3>2. QED
      BY <1>4, <3>1
  <2>2. QED
    BY <2>1
<1>5. QED
  BY <1>3, <1>4 DEF StepsOK

\* What a successful operation does to the files.
LEMMA StepFiles ==
  ASSUME Types, StepSucceeds
  PROVE  /\ DOMAIN disk' = Files /\ DOMAIN pending' = Files
         /\ \A f \in Files :
              /\ FileIn(f, disk'[f]) /\ pending'[f] \in Seq(WritesTo(f))
              /\ f # Step.file => disk'[f] = disk[f] /\ pending'[f] = pending[f]
              /\ Written(disk'[f], pending'[f]) =
                   IF f = Step.file /\ Step.op # "flush" THEN Written(View(f), Step.writes)
                   ELSE View(f)
         /\ Step.op = "flush" =>
              disk'[Step.file] = View(Step.file) /\ pending'[Step.file] = << >>
         /\ Step.op # "flush" =>
              disk' = disk /\ pending'[Step.file] = pending[Step.file] \o Step.writes
<1>1. /\ Step.file \in Files /\ Step.writes \in Seq(WritesTo(Step.file))
      /\ DOMAIN disk = Files /\ DOMAIN pending = Files
      /\ \A f \in Files : FileIn(f, disk[f]) /\ FileIn(f, View(f)) /\ pending[f] \in Seq(WritesTo(f))
  BY StepFacts, TypesFacts DEF StepSucceeds, Types
<1> DEFINE g == Step.file
<1>2. CASE Step.op = "flush"
  <2>1. /\ disk' = [disk EXCEPT ![g] = View(g)] /\ pending' = [pending EXCEPT ![g] = << >>]
    BY <1>2 DEF StepSucceeds
  <2>2. /\ DOMAIN disk' = Files /\ DOMAIN pending' = Files
        /\ disk'[g] = View(g) /\ pending'[g] = << >>
        /\ \A f \in Files : f # g => disk'[f] = disk[f] /\ pending'[f] = pending[f]
    BY <1>1, <2>1
  <2>3. Written(disk'[g], pending'[g]) = View(g)
    <3>1. View(g) = [p \in Places |-> View(g)[p]]
      BY <1>1 DEF FileIn
    <3>2. QED
      BY <2>2, <3>1, WrittenNothing
  <2>4. << >> \in Seq(WritesTo(g))
    OBVIOUS
  <2>5. QED
    BY <1>1, <1>2, <2>2, <2>3, <2>4 DEF View
<1>3. CASE Step.op # "flush"
  <2>1. /\ pending' = [pending EXCEPT ![g] = @ \o Step.writes] /\ disk' = disk
    BY <1>3 DEF StepSucceeds
  <2>2. /\ DOMAIN disk' = Files /\ DOMAIN pending' = Files
        /\ pending'[g] = pending[g] \o Step.writes
        /\ \A f \in Files : f # g => disk'[f] = disk[f] /\ pending'[f] = pending[f]
    BY <1>1, <2>1
  <2>3. Written(disk'[g], pending'[g]) = Written(View(g), Step.writes)
    BY <1>1, <2>1, <2>2, WrittenConcat DEF View
  <2>4. pending'[g] \in Seq(WritesTo(g))
    BY <1>1, <2>2, ConcatProperties
  <2>5. QED
    BY <1>1, <1>3, <2>1, <2>2, <2>3, <2>4 DEF View
<1>4. QED
  BY <1>2, <1>3

\* The next operation is one that the call may make.
LEMMA StepAllowed ==
  ASSUME IInv, call.steps # << >>
  PROVE  /\ call.name # "none" /\ status \in {"Up", "Loading"}
         /\ status = "Loading" => Replaying \/ call.name = "HvSyncHiveFromRecover"
         /\ status = "Up" => call.name \in {"HvSyncHive", "HvWriteHive", "HvWriteAlternateHive"}
         /\ Replaying => /\ Step.fails \in {"Fallback", "Corrupt"}
                         /\ Step.op # "error" => AtPrimary(Step)
         /\ ~Replaying => Step.op # "error"
         /\ call.name = "HvSyncHiveFromRecover" =>
              /\ Step.fails \in {"IoFailed", "ignore"}
              /\ Step.fails = "ignore" =>
                   \A j \in DOMAIN call.steps : ~AtPrimary(call.steps[j])
         /\ call.name \in {"HvSyncHive", "HvWriteHive", "HvWriteAlternateHive"} =>
              Step.fails = "return"
         /\ call.name = "HvWriteHive" => AtPrimary(Step)
         /\ call.name = "HvWriteAlternateHive" => ~AtPrimary(Step)
<1>1. call # NoCall /\ status \in {"Up", "Loading", "Down", "Corrupt", "IoFailed"}
  BY NoCallTypes DEF IInv, Types
<1>2. call.name # "none" /\ status \in {"Up", "Loading"}
  BY <1>1 DEF IInv, CallsOK
<1>3. Step = call.steps[1] /\ 1 \in DOMAIN call.steps /\ call.steps \in Seq(Operation)
  BY StepFacts, TypesFacts DEF IInv
<1>4. \A j \in DOMAIN call.steps : j >= 1
  BY <1>3, LenProperties
<1>5. StepsOK(call.name, call.steps)
  BY DEF IInv, CallsOK
<1>6. call.name \in CallNames
  BY TypesFacts DEF IInv
<1>7. Replaying =>
        Step.fails \in {"Fallback", "Corrupt"} /\ (Step.op # "error" => AtPrimary(Step))
  BY <1>3, <1>5 DEF StepsOK, Replaying, RecoveryCalls
<1>8. call.name = "HvSyncHiveFromRecover" =>
        /\ Step.fails \in {"IoFailed", "ignore"} /\ Step.op # "error"
        /\ Step.fails = "ignore" => \A j \in DOMAIN call.steps : ~AtPrimary(call.steps[j])
  BY <1>3, <1>4, <1>5 DEF StepsOK, RecoveryCalls
<1>9. call.name \in {"HvSyncHive", "HvWriteHive", "HvWriteAlternateHive"} =>
        Step.fails = "return" /\ Step.op # "error"
  BY <1>3, <1>5 DEF StepsOK, RecoveryCalls
<1>10. /\ call.name = "HvWriteHive" => AtPrimary(Step)
       /\ call.name = "HvWriteAlternateHive" => ~AtPrimary(Step)
  BY <1>3, <1>5 DEF StepsOK
<1>11. /\ status = "Loading" => Replaying \/ call.name = "HvSyncHiveFromRecover"
       /\ status = "Up" => call.name \in {"HvSyncHive", "HvWriteHive", "HvWriteAlternateHive"}
  BY <1>2 DEF IInv, CallsOK
<1>12. QED
  BY <1>2, <1>6, <1>7, <1>8, <1>9, <1>10, <1>11 DEF CallNames, Replaying, RecoveryCalls

\* Without a log the images that a crash may leave are whole after an operation, too.
LEMMA StepWhole ==
  ASSUME IInv, StepSucceeds
  PROVE  WholeImages'
<1>1. /\ call.steps # << >> /\ fileType' = fileType /\ attempts' = attempts /\ promised' = promised
  BY DEF StepSucceeds
<1> SUFFICES ASSUME ~Log, NEW p \in Outcomes(disk'["PRIMARY"], pending'["PRIMARY"]), Sound(p)
             PROVE  PrimaryImage(p) \in attempts \cup {promised}
  BY <1>1 DEF WholeImages, Log
<1>2. p \in Outcomes(disk["PRIMARY"], pending["PRIMARY"]) =>
        PrimaryImage(p) \in attempts \cup {promised}
  BY DEF IInv, WholeImages
<1>3. "PRIMARY" \in Files
  BY DEF Files
<1>4. CASE ~AtPrimary(Step)
  <2>1. disk'["PRIMARY"] = disk["PRIMARY"] /\ pending'["PRIMARY"] = pending["PRIMARY"]
    BY <1>3, <1>4, StepFiles DEF IInv, AtPrimary
  <2>2. QED
    BY <1>2, <2>1
<1>5. CASE AtPrimary(Step) /\ Step.op = "flush"
  <2>1. disk'["PRIMARY"] = View("PRIMARY") /\ pending'["PRIMARY"] = << >>
    BY <1>5, StepFiles DEF IInv, AtPrimary
  <2>2. View("PRIMARY") = [q \in Places |-> View("PRIMARY")[q]]
    BY <1>3, TypesFacts DEF IInv, FileIn
  <2>3. p = View("PRIMARY")
    BY <2>1, <2>2, OutcomesNothing
  <2>4. pending["PRIMARY"] \in Seq(WritesTo("PRIMARY"))
    BY <1>3, TypesFacts DEF IInv
  <2>5. p \in Outcomes(disk["PRIMARY"], pending["PRIMARY"])
    BY <2>3, <2>4, ViewIsOutcome DEF View
  <2>6. QED
    BY <1>2, <2>5
<1>6. CASE AtPrimary(Step) /\ Step.op # "flush"
  <2>1. status = "Up"
    BY <1>1, StepAllowed DEF IInv, CallsOK
  <2>2. call.name \in {"HvSyncHive", "HvWriteHive"} /\ SavesPrimary
    BY <1>1, <1>6, <2>1, StepAllowed DEF SavesPrimary
  <2>3. hive.Data \in attempts
    BY <2>2 DEF IInv, CallsOK
  <2> DEFINE w == Step.writes[1]
  <2>4. StepWrites(w)
    BY <1>1, <1>6 DEF StepWrites
  <2> HIDE DEF w
  <2>5. /\ Step.writes = <<w>>
        /\ \A y \in Outcomes(disk["PRIMARY"], pending["PRIMARY"] \o <<w>>) :
             \/ y \in Outcomes(disk["PRIMARY"], pending["PRIMARY"])
             \/ Sound(y) => PrimaryImage(y) = hive.Data
    BY <2>2, <2>4, NextOutcomes
  <2>6. disk'["PRIMARY"] = disk["PRIMARY"] /\ pending'["PRIMARY"] = pending["PRIMARY"] \o <<w>>
    BY <1>6, <2>5, StepFiles DEF IInv, AtPrimary
  <2>7. QED
    BY <1>2, <2>3, <2>5, <2>6
<1>7. QED
  BY <1>4, <1>5, <1>6

\* A save goes on with an operation.
LEMMA StepGoesOn ==
  ASSUME IInv, StepSucceeds
  PROVE  SaveGoesOn'
<1>1. /\ call.steps # << >> /\ call'.name = call.name /\ call'.steps = Tail(call.steps)
      /\ hive'.Data = hive.Data /\ hive'.Dirty = hive.Dirty
  BY TypesFacts DEF StepSucceeds, IInv
<1> SUFFICES ASSUME SavesPrimary PROVE SaveGoesOn'
  BY <1>1 DEF SaveGoesOn, SavesPrimary
<1>2. ToSave' = ToSave
  BY <1>1 DEF ToSave
<1> DEFINE v == View("PRIMARY")
           u == View("PRIMARY")'
           st == call.steps
<1>3. /\ FileIn("PRIMARY", v)
      /\ \E s : Progress(st, hive.Data, ToSave, s, v)
      /\ ~Remains(st, {1, 2, 3, 4, 5}) => pending["PRIMARY"] = << >>
  BY SaveFacts
<1>4. PICK s : Progress(st, hive.Data, ToSave, s, v)
  BY <1>3
<1>5. "PRIMARY" \in Files
  BY DEF Files
<1>6. FileIn("PRIMARY", disk'["PRIMARY"]) /\ pending'["PRIMARY"] \in Seq(WritesTo("PRIMARY"))
  BY <1>5, StepFiles DEF IInv
<1>7. u = Written(disk'["PRIMARY"], pending'["PRIMARY"])
  BY DEF View
<1>8. u = [p \in Places |-> u[p]]
  <2>1. FileIn("PRIMARY", Written(disk'["PRIMARY"], pending'["PRIMARY"]))
    BY <1>6, WrittenOK
  <2>2. QED
    BY <1>7, <2>1 DEF FileIn
<1>9. u = IF AtPrimary(Head(st)) /\ Head(st).op # "flush" THEN Written(v, Head(st).writes) ELSE v
  BY <1>5, <1>7, StepFiles DEF IInv, AtPrimary, Step
<1> HIDE DEF v, u, st
<1>10. st # << >>
  BY <1>1 DEF st
<1>11. /\ Progress(Tail(st), hive.Data, ToSave, s, u)
       /\ \/ Remains(Tail(st), {1, 2, 3, 4, 5})
          \/ AtPrimary(Head(st)) /\ Head(st).op = "flush"
          \/ ~AtPrimary(Head(st)) /\ ~Remains(st, {1, 2, 3, 4, 5})
  BY <1>4, <1>8, <1>9, <1>10, ProgressTail
<1>12. s \in 0 .. MaxSequence /\ Planned(Tail(st), hive.Data, ToSave, s)
       /\ Done(Tail(st), hive.Data, s, u)
  BY <1>11 DEF Progress
<1>13. ~Remains(Tail(st), {1, 2, 3, 4, 5}) => pending'["PRIMARY"] = << >>
  <2>1. AtPrimary(Step) /\ Step.op = "flush" => pending'["PRIMARY"] = << >>
    BY StepFiles DEF IInv, AtPrimary
  <2>2. ~AtPrimary(Step) => pending'["PRIMARY"] = pending["PRIMARY"]
    BY <1>5, StepFiles DEF IInv, AtPrimary
  <2>3. QED
    BY <1>3, <1>11, <2>1, <2>2 DEF Step, st
<1>14. QED
  BY <1>1, <1>2, <1>12, <1>13 DEF SaveGoesOn, st, u

LEMMA StepSucceedsStep ==
  ASSUME IInv, StepSucceeds
  PROVE  IInv'
<1>1. /\ call.steps # << >> /\ Step.op # "error"
      /\ hive'.Data = hive.Data /\ hive'.Dirty = hive.Dirty
      /\ hive' = [Data |-> hive.Data, Dirty |-> hive.Dirty,
                  Sequence1 |-> Step.Sequence1, Sequence2 |-> Step.Sequence2]
      /\ call' = [name |-> call.name, base |-> call.base, steps |-> Tail(call.steps)]
      /\ UNCHANGED <<fileType, status, changes, faults, promised, attempts>>
  BY TypesFacts DEF StepSucceeds, IInv
<1>2. call'.name = call.name /\ call'.base = call.base /\ call'.steps = Tail(call.steps)
  BY <1>1
<1>3. call.name # "none" /\ status \in {"Up", "Loading"} /\ call.steps \in Seq(Operation)
  BY <1>1, StepAllowed, TypesFacts DEF IInv
<1>4. /\ "PRIMARY" \in Files /\ "LOG" \in Files
      /\ ~AtPrimary(Step) => disk'["PRIMARY"] = disk["PRIMARY"] /\ pending'["PRIMARY"] = pending["PRIMARY"]
      /\ AtPrimary(Step) => disk'["LOG"] = disk["LOG"] /\ pending'["LOG"] = pending["LOG"]
  BY StepFiles DEF Files, AtPrimary, IInv
<1>5. /\ ~AtPrimary(Step) => View("PRIMARY")' = View("PRIMARY")
      /\ AtPrimary(Step) => View("LOG")' = View("LOG")
  BY <1>4 DEF View
<1>6. Types'
  <2>1. /\ Step.Sequence1 \in Sequences /\ Step.Sequence2 \in Sequences
        /\ Tail(call.steps) \in Seq(Operation)
    BY <1>1, StepFacts DEF IInv
  <2>2. hive' \in [Data : Images, Dirty : SUBSET Blocks, Sequence1 : Sequences, Sequence2 : Sequences]
        /\ hive'.Dirty \subseteq DOMAIN hive'.Data
    BY <1>1, <2>1 DEF IInv, Types
  <2>3. call' \in [name : CallNames, base : HeaderType \cup {None, Torn}, steps : Seq(Operation)]
    BY <1>1, <2>1, TypesFacts DEF IInv
  <2>4. /\ DOMAIN disk' = Files /\ \A f \in Files : FileIn(f, disk'[f])
        /\ DOMAIN pending' = Files /\ \A f \in Files : pending'[f] \in Seq(WritesTo(f))
    BY StepFiles DEF IInv
  <2>5. QED
    BY <1>1, <2>2, <2>3, <2>4 DEF IInv, Types
<1>7. CallsOK'
  <2>1. StepsOK(call'.name, call'.steps)
    BY <1>1, <1>2, <1>3, StepsOKTail DEF IInv, CallsOK
  <2>2. status' \in {"Up", "Loading"} /\ status' = status /\ fileType' = fileType
        /\ attempts' = attempts
    BY <1>1, <1>3
  <2>3. QED
    BY <1>1, <1>2, <1>3, <2>1, <2>2 DEF IInv, CallsOK, SavesPrimary, Replaying, Log
<1>8. BasesOK'
  <2>1. HasError(call.steps) => Step.op = "error"
    BY DEF HasError, Step
  <2>2. Replaying => View("LOG")' = View("LOG")
    BY <1>1, <1>5, StepAllowed
  <2>3. call.name = "RecoverHeader" => RecoveredHeader(View("LOG")) # None
    BY <1>1, <2>1 DEF IInv, BasesOK
  <2>4. call.name = "RecoverHeader" => RecoveredHeader(View("LOG"))' = RecoveredHeader(View("LOG"))
    BY <2>2 DEF Replaying, RecoveryCalls, RecoveredHeader, HvpVerifyHiveHeader
  <2>5. call.name \in {"ReplayData", "Fallback"} =>
          call.base \in HeaderType /\ call.base.Sequence1 <= MaxSequence
    BY <1>1, <2>1 DEF IInv, BasesOK
  <2>6. QED
    BY <1>2, <2>3, <2>4, <2>5 DEF IInv, BasesOK
<1>9. SaveGoesOn'
  BY StepGoesOn
<1>10. CleanMatches'
  <2>1. SUFFICES ASSUME MaySave' PROVE CleanMatches'
    BY DEF CleanMatches
  <2>2. call.name = "HvWriteAlternateHive" /\ status = "Up"
    BY <1>1, <1>2, <1>3, <2>1 DEF MaySave
  <2>3. ~AtPrimary(Step) /\ MaySave
    BY <1>1, <2>2, StepAllowed DEF MaySave
  <2>4. QED
    BY <1>1, <1>5, <2>3 DEF IInv, CleanMatches
<1>11. Settled'
  <2>1. SUFFICES ASSUME status' = "Up", attempts' = {} PROVE Settled'
    BY DEF Settled
  <2>2. call.name = "HvWriteAlternateHive"
    BY <1>1, <2>1, StepAllowed DEF IInv, CallsOK
  <2>3. ~AtPrimary(Step)
    BY <1>1, <2>2, StepAllowed
  <2>4. QED
    BY <1>1, <1>4, <2>1, <2>3 DEF IInv, Settled
<1>12. WholeImages'
  BY StepWhole
<1>13. QED
  BY <1>6, <1>7, <1>8, <1>9, <1>10, <1>11, <1>12 DEF IInv

-----------------------------------------------------------------------------
(* Recovery *)

\* The header that a log gives the primary file, and the operation that writes it.
LEMMA RecoverHeaderOps ==
  ASSUME NEW log, FileIn("LOG", log), NEW name \in RecoveryCalls
  PROVE  /\ RecoveredHeader(log) \in HeaderType \cup {None}
         /\ RecoveredHeader(log) # None =>
              RecoveredHeader(log) \in HeaderType /\ RecoveredHeader(log).Sequence1 <= MaxSequence
         /\ RecoveredHeader(log) = None => HasError(HvpRecoverHeaderFromLog(log))
         /\ HvpRecoverHeaderFromLog(log) \in Seq(Operation)
         /\ StepsOK(name, HvpRecoverHeaderFromLog(log))
<1> DEFINE hd == RecoveredHeader(log)
           wr == Write("PRIMARY", <<At(HEADER, hd)>>, 0, 0, "Corrupt")
           er == Op("error", "LOG", << >>, 0, 0, "Corrupt")
<1>1. 0 \in Sequences
  BY BoundsAssumption DEF Sequences
<1>2. ASSUME hd # None
      PROVE  hd \in HeaderType /\ hd.Sequence1 <= MaxSequence
  <2>1. /\ HvpVerifyHiveHeader(log[HEADER], "LOG") /\ hd = [log[HEADER] EXCEPT !.Type = "PRIMARY"]
    BY <1>2 DEF RecoveredHeader
  <2>2. log[HEADER] \in HeaderType /\ log[HEADER].Sequence1 <= MaxSequence
    BY <2>1 DEF HvpVerifyHiveHeader, FileIn, FileOK, HeaderOK
  <2>3. QED
    BY <2>1, <2>2 DEF HeaderType
<1> HIDE DEF hd
<1>3. CASE hd # None
  <2>1. HvpRecoverHeaderFromLog(log) = <<wr>>
    BY <1>3 DEF HvpRecoverHeaderFromLog, hd
  <2>2. At(HEADER, hd) \in WritesTo("PRIMARY")
    BY <1>2, <1>3, WriteTypes DEF Files, HeaderOK
  <2>3. wr \in Operation
    <3>1. <<At(HEADER, hd)>> \in Seq(WritesTo("PRIMARY")) /\ "PRIMARY" \in Files
      BY <2>2 DEF Files
    <3>2. QED
      BY <1>1, <3>1, OpTypes DEF Write
  <2>4. wr.fails = "Corrupt" /\ AtPrimary(wr)
    BY DEF Write, Op, AtPrimary
  <2> HIDE DEF wr
  <2>5. <<wr>> \in Seq(Operation) /\ \A i \in DOMAIN <<wr>> : <<wr>>[i] = wr
    BY <2>3
  <2>6. name \notin {"HvSyncHiveFromRecover", "HvWriteHive", "HvWriteAlternateHive"}
    BY DEF RecoveryCalls
  <2>7. StepsOK(name, <<wr>>)
    BY <2>4, <2>5, <2>6 DEF StepsOK
  <2>8. QED
    BY <1>2, <1>3, <2>1, <2>5, <2>7 DEF hd
<1>4. CASE hd = None
  <2>1. HvpRecoverHeaderFromLog(log) = <<er>>
    BY <1>4 DEF HvpRecoverHeaderFromLog, hd
  <2>2. << >> \in Seq(WritesTo("LOG"))
    OBVIOUS
  <2>3. er \in Operation
    BY <1>1, <2>2, OpTypes DEF Files
  <2>4. er.fails = "Corrupt" /\ er.op = "error"
    BY DEF Op
  <2> HIDE DEF er
  <2>5. <<er>> \in Seq(Operation) /\ (\A i \in DOMAIN <<er>> : <<er>>[i] = er)
        /\ <<er>> # << >> /\ Head(<<er>>) = er
    BY <2>3
  <2>6. name \notin {"HvSyncHiveFromRecover", "HvWriteHive", "HvWriteAlternateHive"}
    BY DEF RecoveryCalls
  <2>7. StepsOK(name, <<er>>)
    BY <2>4, <2>5, <2>6 DEF StepsOK
  <2>8. QED
    BY <1>4, <2>1, <2>4, <2>5, <2>7 DEF hd, HasError
<1>5. QED
  BY <1>3, <1>4

\* The operations that copy the blocks of a log.
LEMMA RecoverDataOps ==
  ASSUME NEW log, FileIn("LOG", log), NEW base \in HeaderType,
         NEW fails \in {"Fallback", "Corrupt"}, NEW name \in RecoveryCalls
  PROVE  /\ HvpRecoverDataFromLog(log, base, fails) \in Seq(Operation)
         /\ StepsOK(name, HvpRecoverDataFromLog(log, base, fails))
<1> DEFINE B == log[BITMAP] \cap 1 .. base.Length
           blocks == Ascending(B)
           er == Op("error", "LOG", << >>, 0, 0, fails)
           wr(i) == Write("PRIMARY", <<At(Block(blocks[i]), log[Block(i)])>>, 0, 0, fails)
           copy(i) == IF log[Block(i)] = None THEN er ELSE wr(i)
           ops == [i \in 1 .. Len(blocks) |-> copy(i)]
<1>1. 0 \in Sequences
  BY BoundsAssumption DEF Sequences
<1>2. name \notin {"HvSyncHiveFromRecover", "HvWriteHive", "HvWriteAlternateHive"}
  BY DEF RecoveryCalls
<1>3. er \in Operation /\ er.fails = fails /\ er.op = "error"
  <2>1. << >> \in Seq(WritesTo("LOG"))
    OBVIOUS
  <2>2. QED
    BY <1>1, <2>1, OpTypes DEF Op, Files
<1>4. CASE log[BITMAP] = None
  <2>1. HvpRecoverDataFromLog(log, base, fails) = <<er>>
    BY <1>4 DEF HvpRecoverDataFromLog
  <2> HIDE DEF er
  <2>2. <<er>> \in Seq(Operation) /\ \A i \in DOMAIN <<er>> : <<er>>[i] = er
    BY <1>3
  <2>3. QED
    BY <1>2, <1>3, <2>1, <2>2 DEF StepsOK
<1>5. CASE log[BITMAP] # None
  <2>1. HvpRecoverDataFromLog(log, base, fails) = ops
    BY <1>5 DEF HvpRecoverDataFromLog
  <2>2. B \in SUBSET Blocks /\ MaxLength \in Nat
    BY <1>5, BoundsAssumption DEF FileIn, FileOK
  <2>3. IsFiniteSet(B) /\ B \in SUBSET Nat
    <3>1. IsFiniteSet(Blocks) /\ Blocks \subseteq Nat
      BY <2>2, FS_Interval DEF Blocks
    <3>2. QED
      BY <2>2, <3>1, FS_Subset
  <2> HIDE DEF B
  <2>4. Cardinality(B) \in Nat /\ blocks \in [1 .. Cardinality(B) -> B]
    BY <2>3, AscendingFacts
  <2>5. Len(blocks) = Cardinality(B)
    BY <2>4
  <2>6. ASSUME NEW i \in 1 .. Len(blocks), log[Block(i)] # None
        PROVE  wr(i) \in Operation /\ wr(i).fails = fails /\ AtPrimary(wr(i))
    <3>1. blocks[i] \in Blocks
      BY <2>2, <2>4, <2>5
    <3>2. i \in Blocks
      <4>1. Cardinality(B) <= Cardinality(Blocks)
        <5>1. IsFiniteSet(Blocks)
          BY <2>2, FS_Interval DEF Blocks
        <5>2. QED
          BY <2>2, <5>1, FS_Subset
      <4>2. Cardinality(Blocks) = MaxLength
        <5>1. 1 \in Int /\ MaxLength \in Int /\ ~(1 > MaxLength) /\ MaxLength - 1 + 1 = MaxLength
          BY BoundsAssumption
        <5>2. QED
          BY <5>1, FS_Interval DEF Blocks
      <4>3. QED
        BY <2>2, <2>4, <2>5, <4>1, <4>2 DEF Blocks
    <3>3. log[Block(i)] \in Contents \cup {None, Torn}
      BY <3>2 DEF FileIn, FileOK
    <3>4. At(Block(blocks[i]), log[Block(i)]) \in WritesTo("PRIMARY")
      BY <3>1, <3>3, WriteTypes DEF Files
    <3>5. <<At(Block(blocks[i]), log[Block(i)])>> \in Seq(WritesTo("PRIMARY")) /\ "PRIMARY" \in Files
      BY <3>4 DEF Files
    <3>6. wr(i) \in Operation
      BY <1>1, <3>5, OpTypes DEF Write
    <3>7. QED
      BY <3>6 DEF Write, Op, AtPrimary
  <2>7. \A i \in 1 .. Len(blocks) : copy(i) \in Operation /\ copy(i).fails = fails
                                    /\ (copy(i).op # "error" => AtPrimary(copy(i)))
    <3> HIDE DEF er, wr
    <3>1. QED
      BY <1>3, <2>6
  <2>8. Len(blocks) \in Nat
    BY <2>4, <2>5
  <2> HIDE DEF copy, blocks
  <2>9. ops \in Seq(Operation) /\ DOMAIN ops = 1 .. Len(blocks)
    BY <2>7, <2>8
  <2>10. \A i \in DOMAIN ops : ops[i] = copy(i)
    BY <2>9
  <2>11. StepsOK(name, ops)
    <3> HIDE DEF ops
    <3>1. QED
      BY <1>2, <2>7, <2>9, <2>10 DEF StepsOK
  <2>12. QED
    BY <2>1, <2>9, <2>11
<1>6. QED
  BY <1>4, <1>5

-----------------------------------------------------------------------------
(* Failures *)

\* What a failed operation leaves behind.
LEMMA FailFiles ==
  ASSUME Types, StepFails
  PROVE  /\ disk' = disk /\ DOMAIN pending' = Files
         /\ \A f \in Files :
              /\ pending'[f] \in Seq(WritesTo(f))
              /\ f # Step.file => pending'[f] = pending[f]
         /\ \/ pending'[Step.file] = pending[Step.file]
            \/ /\ Step.writes # << >> /\ Tearable(Step.writes[1])
               /\ pending'[Step.file] = pending[Step.file] \o <<TornWrite(Step.writes[1])>>
<1>1. /\ Step.file \in Files /\ Step.writes \in Seq(WritesTo(Step.file))
      /\ DOMAIN pending = Files /\ disk' = disk
      /\ \A f \in Files : pending[f] \in Seq(WritesTo(f))
  BY StepFacts DEF StepFails, Types
<1> DEFINE g == Step.file
           w == Step.writes[1]
<1>2. CASE pending' = pending
  BY <1>1, <1>2
<1>3. CASE /\ Step.writes # << >> /\ Tearable(w)
           /\ pending' = [pending EXCEPT ![g] = Append(@, TornWrite(w))]
  <2>1. w \in WritesTo(g)
    BY <1>1, <1>3, TailFacts
  <2>2. TornWrite(w) \in WritesTo(g)
    BY <1>3, <2>1, TornOK
  <2>3. Append(pending[g], TornWrite(w)) = pending[g] \o <<TornWrite(w)>>
        /\ Append(pending[g], TornWrite(w)) \in Seq(WritesTo(g))
    <3>1. pending[g] \in Seq(WritesTo(g))
      BY <1>1
    <3>2. Append(pending[g], TornWrite(w)) \in Seq(WritesTo(g))
      BY <2>2, <3>1, AppendProperties
    <3>3. Append(pending[g], TornWrite(w)) = pending[g] \o <<TornWrite(w)>>
      BY <2>2, <3>1, AppendIsConcat
    <3>4. QED
      BY <3>2, <3>3
  <2>4. /\ DOMAIN pending' = Files /\ pending'[g] = pending[g] \o <<TornWrite(w)>>
        /\ pending'[g] \in Seq(WritesTo(g))
        /\ \A f \in Files : f # g => pending'[f] = pending[f]
    BY <1>1, <1>3, <2>3
  <2>5. QED
    BY <1>1, <1>3, <2>4
<1>4. QED
  BY <1>2, <1>3 DEF StepFails

\* The operations on the primary file of a call that saves.
LEMMA SaveOp ==
  ASSUME IInv, SavesPrimary, call.steps # << >>, AtPrimary(Step)
  PROVE  /\ Step.op = "flush" => Step.writes = << >>
         /\ Step.Sequence1 = Step.Sequence2 =>
              /\ ~Remains(call.steps, {2})
              /\ Step.writes = << >> \/ Step.writes[1].place = HEADER
<1> DEFINE st == call.steps
<1>1. PICK s : Progress(st, hive.Data, ToSave, s, View("PRIMARY"))
  BY SaveFacts
<1>2. st # << >> /\ Step = Head(st)
  BY DEF Step
<1> HIDE DEF st
<1>3. /\ st \in Seq(Operation) /\ s \in Nat /\ Planned(st, hive.Data, ToSave, s)
  BY <1>1, ProgressFacts
<1>4. /\ PlannedOp(Step, hive.Data, ToSave, s)
      /\ Stage(Step) \in {3, 4, 5} => ~Remains(st, {2})
  BY <1>2, <1>3, PlannedTail
<1>5. /\ Step.op = "flush" => Step.writes = << >>
      /\ Step.Sequence1 = Step.Sequence2 => Stage(Step) \in {4, 5}
      /\ Stage(Step) = 5 => Step.writes = << >>
      /\ Stage(Step) = 4 =>
           Step.writes = <<At(HEADER, PrimaryHeader(hive.Data, s + 1, s + 1))>>
  BY <1>3, <1>4, PlannedWrite
<1>6. Stage(Step) = 4 => Step.writes[1].place = HEADER
  BY <1>5 DEF At
<1>7. QED
  BY <1>4, <1>5, <1>6 DEF st

\* Without a log the images that a crash may leave are whole after a failure, too.
LEMMA FailWhole ==
  ASSUME IInv, StepFails
  PROVE  WholeImages'
<1>1. /\ call.steps # << >> /\ fileType' = fileType /\ attempts' = attempts /\ promised' = promised
  BY DEF StepFails
<1> SUFFICES ASSUME ~Log, NEW p \in Outcomes(disk'["PRIMARY"], pending'["PRIMARY"]), Sound(p)
             PROVE  PrimaryImage(p) \in attempts \cup {promised}
  BY <1>1 DEF WholeImages, Log
<1>2. p \in Outcomes(disk["PRIMARY"], pending["PRIMARY"]) =>
        PrimaryImage(p) \in attempts \cup {promised}
  BY DEF IInv, WholeImages
<1>3. "PRIMARY" \in Files /\ disk' = disk
  BY FailFiles DEF Files, IInv
<1>4. CASE pending'["PRIMARY"] = pending["PRIMARY"]
  BY <1>2, <1>3, <1>4
<1>5. CASE pending'["PRIMARY"] # pending["PRIMARY"]
  <2>1. AtPrimary(Step)
    BY <1>3, <1>5, FailFiles DEF IInv, AtPrimary
  <2>2. status = "Up"
    BY <1>1, StepAllowed DEF IInv, CallsOK
  <2>3. call.name \in {"HvSyncHive", "HvWriteHive"} /\ SavesPrimary
    BY <1>1, <2>1, <2>2, StepAllowed DEF SavesPrimary
  <2>4. hive.Data \in attempts
    BY <2>3 DEF IInv, CallsOK
  <2> DEFINE w == Step.writes[1]
  <2>5. /\ Step.writes # << >> /\ Tearable(w)
        /\ pending'["PRIMARY"] = pending["PRIMARY"] \o <<TornWrite(w)>>
    BY <1>5, <2>1, FailFiles DEF IInv, AtPrimary
  <2>6. StepWrites(w)
    BY <1>1, <2>1, <2>3, <2>5, SaveOp DEF StepWrites
  <2> HIDE DEF w
  <2>7. \A y \in Outcomes(disk["PRIMARY"], pending["PRIMARY"] \o <<TornWrite(w)>>) :
          \/ y \in Outcomes(disk["PRIMARY"], pending["PRIMARY"])
          \/ Sound(y) => PrimaryImage(y) = hive.Data
    BY <2>3, <2>5, <2>6, NextOutcomes
  <2>8. QED
    BY <1>2, <1>3, <2>4, <2>5, <2>7
<1>6. QED
  BY <1>4, <1>5

(***************************************************************************)
(* After a save that failed and left two equal numbers in the header, the  *)
(* blocks that are not dirty are still as in the file.                     *)
(***************************************************************************)
LEMMA FailClean ==
  ASSUME IInv, StepFails, Step.fails = "return", Step.Sequence1 = Step.Sequence2,
         NEW b \in DOMAIN hive.Data \ hive.Dirty
  PROVE  View("PRIMARY")'[Block(b)] = hive.Data[b]
<1>1. call.steps # << >>
  BY DEF StepFails
<1>2. call.name \in {"HvSyncHive", "HvWriteHive", "HvWriteAlternateHive"} /\ status = "Up"
  BY <1>1, StepAllowed
<1>3. "PRIMARY" \in Files /\ disk' = disk /\ b \in Blocks
  BY FailFiles, TypesFacts DEF Files, IInv
<1>4. CASE call.name = "HvWriteAlternateHive"
  <2>1. View("PRIMARY")' = View("PRIMARY")
    BY <1>1, <1>3, <1>4, StepAllowed, FailFiles DEF IInv, AtPrimary, View
  <2>2. QED
    BY <1>2, <1>4, <2>1 DEF IInv, CleanMatches, MaySave
<1>5. CASE SavesPrimary
  <2>1. View("PRIMARY")[Block(b)] = hive.Data[b]
    <3>1. /\ \A c \in DOMAIN hive.Data \ ToSave : View("PRIMARY")[Block(c)] = hive.Data[c]
          /\ ~Remains(call.steps, {2}) =>
               \A c \in DOMAIN hive.Data : View("PRIMARY")[Block(c)] = hive.Data[c]
      BY <1>5, SaveFacts, ProgressClean
    <3>2. CASE call.name = "HvWriteHive"
      BY <1>1, <1>5, <3>1, <3>2, StepAllowed, SaveOp
    <3>3. CASE call.name # "HvWriteHive"
      BY <3>1, <3>3 DEF ToSave
    <3>4. QED
      BY <3>2, <3>3
  <2>2. View("PRIMARY")'[Block(b)] = View("PRIMARY")[Block(b)]
    <3>1. CASE pending'["PRIMARY"] = pending["PRIMARY"]
      BY <1>3, <3>1 DEF View
    <3>2. CASE pending'["PRIMARY"] # pending["PRIMARY"]
      <4> DEFINE w == Step.writes[1]
                 v == View("PRIMARY")
                 S == WritesTo("PRIMARY")
      <4>1. AtPrimary(Step)
        BY <1>3, <3>2, FailFiles DEF IInv, AtPrimary
      <4>2. /\ Step.writes # << >> /\ Tearable(w)
            /\ pending'["PRIMARY"] = pending["PRIMARY"] \o <<TornWrite(w)>>
            /\ pending["PRIMARY"] \in Seq(S)
        BY <1>3, <3>2, <4>1, FailFiles, TypesFacts DEF IInv, AtPrimary
      <4>3. w.place = HEADER
        BY <1>1, <1>5, <4>1, <4>2, SaveOp
      <4>4. TornWrite(w) = At(HEADER, Torn)
        BY <4>3 DEF TornWrite
      <4>5. At(HEADER, Torn) \in S
        BY DEF WritesTo, At, HeaderOK
      <4> HIDE DEF w, S
      <4>6. <<At(HEADER, Torn)>> \in Seq(S)
        BY <4>5
      <4>7. View("PRIMARY")' = Written(v, <<At(HEADER, Torn)>>)
        <5> DEFINE f == disk["PRIMARY"]
                   q == pending["PRIMARY"]
        <5>1. v = Written(f, q) /\ View("PRIMARY")' = Written(f, q \o <<At(HEADER, Torn)>>)
          BY <1>3, <4>2, <4>4 DEF View
        <5>2. q \in Seq(S)
          BY <4>2
        <5> HIDE DEF f, q, v
        <5> DEFINE t == <<At(HEADER, Torn)>>
        <5>3. Written(f, q \o t) = Written(Written(f, q), t)
          <6>1. t \in Seq(S)
            BY <4>6
          <6> HIDE DEF t
          <6>2. QED
            BY <5>2, <6>1, WrittenConcat
        <5>4. QED
          BY <5>1, <5>3
      <4>8. v = [p \in Places |-> v[p]]
        BY <1>3, TypesFacts DEF IInv, FileIn
      <4> HIDE DEF v
      <4>9. Written(v, <<At(HEADER, Torn)>>)[Block(b)] = v[Block(b)]
        BY <1>3, <4>8, OneWrite, PlaceFacts
      <4>10. QED
        BY <4>7, <4>9 DEF v
    <3>3. QED
      BY <3>1, <3>2
  <2>3. QED
    BY <2>1, <2>2
<1>6. QED
  BY <1>2, <1>4, <1>5 DEF SavesPrimary

\* A save whose next operation is ignored has nothing left to do with the primary file.
LEMMA NothingLeft ==
  ASSUME NEW st \in Seq(Operation), \A j \in DOMAIN st : ~AtPrimary(st[j]),
         NEW d, NEW bs, NEW s, NEW v, Done(st, d, s, v)
  PROVE  /\ Planned(<< >>, d, bs, s) /\ Done(<< >>, d, s, v)
         /\ ~Remains(st, {1, 2, 3, 4, 5})
<1>1. \A X : ~Remains(st, X)
  BY DEF Remains
<1>2. \A X : ~Remains(<< >>, X)
  BY DEF Remains
<1>3. Planned(<< >>, d, bs, s)
  BY <1>2 DEF Planned
<1>4. Done(<< >>, d, s, v)
  BY <1>1, <1>2 DEF Done
<1>5. QED
  BY <1>1, <1>3, <1>4

\* The invariant survives a failed operation, whatever the call does about it.
LEMMA StepFailsStep ==
  ASSUME IInv, StepFails
  PROVE  IInv'
<1>1. /\ call.steps # << >> /\ Failed(Step.fails)
      /\ UNCHANGED <<fileType, disk, changes, promised, attempts>>
  BY DEF StepFails
<1>2. /\ DOMAIN disk' = Files /\ (\A f \in Files : FileIn(f, disk'[f]))
      /\ DOMAIN pending' = Files /\ \A f \in Files : pending'[f] \in Seq(WritesTo(f))
  BY <1>1, FailFiles DEF IInv, Types
<1>3. call.name # "none" /\ status \in {"Up", "Loading"} /\ "PRIMARY" \in Files /\ "LOG" \in Files
  BY <1>1, StepAllowed DEF Files
<1>4. ~AtPrimary(Step) =>
        pending'["PRIMARY"] = pending["PRIMARY"] /\ View("PRIMARY")' = View("PRIMARY")
  BY <1>1, <1>3, FailFiles DEF IInv, AtPrimary, View
<1>5. WholeImages'
  BY FailWhole
<1>6. Settled'
  <2>1. SUFFICES ASSUME status' = "Up", attempts' = {} PROVE Settled'
    BY DEF Settled
  <2>2. status = "Up"
    <3>1. Step.fails \in {"return", "ignore", "Fallback", "Corrupt", "IoFailed"}
      BY <1>1, StepFacts, OperationFacts DEF IInv
    <3>2. QED
      BY <1>1, <2>1, <3>1 DEF Failed
  <2>3. call.name = "HvWriteAlternateHive"
    BY <1>1, <2>1, <2>2, StepAllowed DEF IInv, CallsOK
  <2>4. ~AtPrimary(Step)
    BY <1>1, <2>3, StepAllowed
  <2>5. QED
    BY <1>1, <1>4, <2>1, <2>2, <2>4 DEF IInv, Settled
<1>7. CASE Step.fails = "return"
  <2>1. /\ call' = NoCall /\ status' = status
        /\ hive' = [hive EXCEPT !.Sequence1 = Step.Sequence1, !.Sequence2 = Step.Sequence2]
    BY <1>1, <1>7 DEF Failed
  <2>2. /\ hive' = [Data |-> hive.Data, Dirty |-> hive.Dirty,
                    Sequence1 |-> Step.Sequence1, Sequence2 |-> Step.Sequence2]
    BY <2>1, TypesFacts DEF IInv
  <2>3. status = "Up"
    BY <1>1, <1>7, StepAllowed DEF IInv, CallsOK
  <2>4. Types'
    <3>1. Step.Sequence1 \in Sequences /\ Step.Sequence2 \in Sequences
      BY <1>1, StepFacts DEF IInv
    <3>2. /\ hive' \in [Data : Images, Dirty : SUBSET Blocks, Sequence1 : Sequences, Sequence2 : Sequences]
          /\ hive'.Dirty \subseteq DOMAIN hive'.Data
      BY <2>2, <3>1 DEF IInv, Types
    <3>3. QED
      BY <1>1, <1>2, <2>1, <2>3, <3>2, NoCallTypes DEF IInv, Types
  <2>5. CallsOK'
    <3>1. hive'.Data # << >>
      BY <2>2, <2>3 DEF IInv, CallsOK
    <3>2. QED
      BY <2>1, <2>3, <3>1, NoCallTypes DEF CallsOK, StepsOK
  <2>6. BasesOK' /\ SaveGoesOn'
    BY <2>1, NoCallTypes DEF BasesOK, SaveGoesOn, SavesPrimary
  <2>7. CleanMatches'
    <3>1. SUFFICES ASSUME MaySave', NEW b \in DOMAIN hive'.Data \ hive'.Dirty
                   PROVE  View("PRIMARY")'[Block(b)] = hive'.Data[b]
      BY DEF CleanMatches
    <3>2. Step.Sequence1 = Step.Sequence2
      BY <2>1, <2>2, <3>1, NoCallTypes DEF MaySave
    <3>3. b \in DOMAIN hive.Data \ hive.Dirty /\ hive'.Data = hive.Data
      BY <2>2, <3>1
    <3>4. QED
      BY <1>7, <3>2, <3>3, FailClean
  <2>8. QED
    BY <1>5, <1>6, <2>4, <2>5, <2>6, <2>7 DEF IInv
<1>8. CASE Step.fails = "ignore"
  <2>1. /\ call' = [call EXCEPT !.steps = << >>] /\ status' = status /\ hive' = hive
    BY <1>1, <1>8 DEF Failed
  <2>2. /\ call.name = "HvSyncHiveFromRecover" /\ status = "Loading"
        /\ \A j \in DOMAIN call.steps : ~AtPrimary(call.steps[j])
    BY <1>1, <1>3, <1>8, StepAllowed
  <2>3. /\ call' = [name |-> call.name, base |-> call.base, steps |-> << >>]
        /\ call.steps \in Seq(Operation)
    BY <2>1, TypesFacts DEF IInv
  <2>4. call'.name = "HvSyncHiveFromRecover" /\ call'.steps = << >>
    BY <2>2, <2>3
  <2>5. Types'
    <3>1. call' \in [name : CallNames, base : HeaderType \cup {None, Torn}, steps : Seq(Operation)]
      BY <2>3, TypesFacts DEF IInv
    <3>2. QED
      BY <1>1, <1>2, <2>1, <3>1 DEF IInv, Types
  <2>6. CallsOK'
    <3>1. hive.Data # << >> /\ Log
      BY <2>2 DEF IInv, CallsOK, SavesPrimary
    <3>2. QED
      BY <1>1, <2>1, <2>2, <2>4, <3>1 DEF CallsOK, StepsOK, Log
  <2>7. BasesOK' /\ CleanMatches'
    BY <2>1, <2>2, <2>4 DEF BasesOK, CleanMatches, MaySave
  <2>8. SaveGoesOn'
    <3>1. PICK s : Progress(call.steps, hive.Data, ToSave, s, View("PRIMARY"))
      BY <2>2, SaveFacts DEF SavesPrimary
    <3>2. s \in 0 .. MaxSequence /\ Done(call.steps, hive.Data, s, View("PRIMARY"))
      BY <3>1 DEF Progress
    <3>3. /\ Planned(<< >>, hive.Data, ToSave, s) /\ Done(<< >>, hive.Data, s, View("PRIMARY"))
          /\ ~Remains(call.steps, {1, 2, 3, 4, 5})
      BY <2>2, <2>3, <3>2, NothingLeft
    <3>4. pending["PRIMARY"] = << >>
      BY <2>2, <3>3, SaveFacts DEF SavesPrimary
    <3>5. ~AtPrimary(Step)
      BY <1>1, <2>2, StepFacts DEF IInv
    <3>6. ToSave' = ToSave
      BY <2>1, <2>2, <2>4 DEF ToSave
    <3>7. pending'["PRIMARY"] = << >> /\ View("PRIMARY")' = View("PRIMARY")
      BY <1>4, <3>4, <3>5
    <3>8. QED
      BY <2>1, <2>4, <3>2, <3>3, <3>6, <3>7 DEF SaveGoesOn
  <2>9. QED
    BY <1>5, <1>6, <2>5, <2>6, <2>7, <2>8 DEF IInv
<1>9. CASE Step.fails = "Fallback"
  <2> DEFINE log == View("LOG")
  <2>1. /\ call' = [name |-> "Fallback", base |-> RecoveredHeader(log),
                    steps |-> HvpRecoverHeaderFromLog(log)]
        /\ status' = status /\ hive' = hive
    BY <1>1, <1>9 DEF Failed
  <2>2. status = "Loading"
    BY <1>1, <1>3, <1>9, StepAllowed
  <2>3. FileIn("LOG", log)
    BY <1>3, TypesFacts DEF IInv
  <2> HIDE DEF log
  <2>4. /\ RecoveredHeader(log) \in HeaderType \cup {None}
        /\ RecoveredHeader(log) # None =>
             RecoveredHeader(log) \in HeaderType /\ RecoveredHeader(log).Sequence1 <= MaxSequence
        /\ RecoveredHeader(log) = None => HasError(HvpRecoverHeaderFromLog(log))
        /\ HvpRecoverHeaderFromLog(log) \in Seq(Operation)
        /\ StepsOK("Fallback", HvpRecoverHeaderFromLog(log))
    BY <2>3, RecoverHeaderOps DEF RecoveryCalls
  <2>5. /\ call'.name = "Fallback" /\ call'.base = RecoveredHeader(log)
        /\ call'.steps = HvpRecoverHeaderFromLog(log)
    BY <2>1
  <2>6. Types'
    <3>1. call' \in [name : CallNames, base : HeaderType \cup {None, Torn}, steps : Seq(Operation)]
      BY <2>1, <2>4 DEF CallNames
    <3>2. QED
      BY <1>1, <1>2, <2>1, <3>1 DEF IInv, Types
  <2>7. CallsOK'
    <3>1. Log
      BY <2>2 DEF IInv, CallsOK
    <3>2. QED
      BY <1>1, <2>1, <2>2, <2>4, <2>5, <3>1 DEF CallsOK, SavesPrimary, Replaying, RecoveryCalls, Log
  <2>8. BasesOK'
    BY <2>4, <2>5 DEF BasesOK
  <2>9. SaveGoesOn' /\ CleanMatches'
    BY <2>1, <2>2, <2>5 DEF SaveGoesOn, SavesPrimary, CleanMatches, MaySave
  <2>10. QED
    BY <1>5, <1>6, <2>6, <2>7, <2>8, <2>9 DEF IInv
<1>10. CASE Step.fails \in {"Corrupt", "IoFailed"}
  <2>1. status' \in {"Corrupt", "IoFailed"} /\ hive' = NoHive /\ call' = NoCall
    BY <1>1, <1>10 DEF Failed
  <2>2. Types'
    BY <1>1, <1>2, <2>1, NoHiveTypes, NoCallTypes DEF IInv, Types
  <2>3. CallsOK' /\ BasesOK' /\ SaveGoesOn' /\ CleanMatches'
    BY <2>1, NoCallTypes DEF CallsOK, StepsOK, Replaying, RecoveryCalls, SavesPrimary, BasesOK,
                             SaveGoesOn, CleanMatches, MaySave
  <2>4. QED
    BY <1>5, <1>6, <2>2, <2>3 DEF IInv
<1>11. Step.fails \in {"return", "ignore", "Fallback", "Corrupt", "IoFailed"}
  BY <1>1, StepFacts, OperationFacts DEF IInv
<1>12. QED
  BY <1>7, <1>8, <1>9, <1>10, <1>11

-----------------------------------------------------------------------------
(* The ends of calls *)

\* When a save of the primary file is over, the file holds the image, all of it on the disk.
LEMMA SaveEnds ==
  ASSUME IInv, SavesPrimary, call.steps = << >>
  PROVE  /\ pending["PRIMARY"] = << >> /\ View("PRIMARY") = disk["PRIMARY"]
         /\ disk["PRIMARY"] = [p \in Places |-> disk["PRIMARY"][p]]
         /\ Sound(disk["PRIMARY"]) /\ PrimaryImage(disk["PRIMARY"]) = hive.Data
         /\ \A b \in DOMAIN hive.Data : View("PRIMARY")[Block(b)] = hive.Data[b]
<1>1. ~Remains(call.steps, {1, 2, 3, 4, 5})
  BY DEF Remains
<1>2. PICK s : Progress(call.steps, hive.Data, ToSave, s, View("PRIMARY"))
  BY SaveFacts
<1>3. pending["PRIMARY"] = << >> /\ FileIn("PRIMARY", disk["PRIMARY"])
  BY <1>1, SaveFacts
<1>4. disk["PRIMARY"] = [p \in Places |-> disk["PRIMARY"][p]]
  BY <1>3 DEF FileIn
<1>5. View("PRIMARY") = disk["PRIMARY"]
  BY <1>3, <1>4, WrittenNothing DEF View
<1>6. /\ Sound(View("PRIMARY")) /\ PrimaryImage(View("PRIMARY")) = hive.Data
      /\ \A b \in DOMAIN hive.Data : View("PRIMARY")[Block(b)] = hive.Data[b]
  BY <1>1, <1>2, ProgressEnd
<1>7. QED
  BY <1>3, <1>4, <1>5, <1>6

\* A hive whose save or recovery has succeeded.
LEMMA EndStep ==
  ASSUME IInv, SavesPrimary, call.steps = << >>,
         status' = "Up", call' = NoCall,
         hive'.Data = hive.Data, hive' \in [Data : Images, Dirty : SUBSET Blocks,
                                            Sequence1 : Sequences, Sequence2 : Sequences],
         hive'.Dirty \subseteq DOMAIN hive.Data,
         promised' = hive.Data, attempts' = {},
         UNCHANGED <<fileType, disk, pending, changes>>
  PROVE  IInv'
<1>1. /\ pending["PRIMARY"] = << >> /\ View("PRIMARY") = disk["PRIMARY"]
      /\ disk["PRIMARY"] = [p \in Places |-> disk["PRIMARY"][p]]
      /\ Sound(disk["PRIMARY"]) /\ PrimaryImage(disk["PRIMARY"]) = hive.Data
      /\ \A b \in DOMAIN hive.Data : View("PRIMARY")[Block(b)] = hive.Data[b]
  BY SaveEnds
<1>2. Types'
  BY NoCallTypes, TypesFacts DEF IInv, Types
<1>3. CallsOK'
  <2>1. hive.Data # << >>
    BY DEF IInv, CallsOK
  <2>2. QED
    BY <2>1, NoCallTypes DEF CallsOK, StepsOK
<1>4. BasesOK' /\ SaveGoesOn'
  BY NoCallTypes DEF BasesOK, SaveGoesOn, SavesPrimary
<1>5. CleanMatches'
  <2>1. View("PRIMARY")' = View("PRIMARY")
    BY DEF View
  <2>2. QED
    BY <1>1, <2>1 DEF CleanMatches
<1>6. Settled'
  BY <1>1 DEF Settled
<1>7. WholeImages'
  <2>1. Outcomes(disk["PRIMARY"], pending["PRIMARY"]) = {disk["PRIMARY"]}
    BY <1>1, OutcomesNothing
  <2>2. QED
    BY <1>1, <2>1 DEF WholeImages
<1>8. QED
  BY <1>2, <1>3, <1>4, <1>5, <1>6, <1>7 DEF IInv

\* The invariant survives the end of a save,
LEMMA SaveReturnsStep ==
  ASSUME IInv, SaveReturns
  PROVE  IInv'
<1>1. /\ call.name \in {"HvSyncHive", "HvWriteHive", "HvWriteAlternateHive"}
      /\ call.steps = << >> /\ call' = NoCall
      /\ UNCHANGED <<fileType, status, disk, pending, changes>>
  BY DEF SaveReturns
<1>2. status = "Up"
  <2>1. call # NoCall /\ call.name # "HvSyncHiveFromRecover" /\ ~Replaying
    BY <1>1, NoCallTypes DEF Replaying, RecoveryCalls
  <2>2. QED
    BY <2>1 DEF IInv, CallsOK
<1>3. CASE SavesPrimary
  <2>1. /\ promised' = hive.Data /\ attempts' = {}
        /\ hive' = IF call.name = "HvSyncHive" THEN [hive EXCEPT !.Dirty = {}] ELSE hive
    BY <1>3 DEF SaveReturns, SavesPrimary
  <2>2. hive'.Data = hive.Data /\ hive'.Dirty \subseteq DOMAIN hive.Data
        /\ hive' \in [Data : Images, Dirty : SUBSET Blocks, Sequence1 : Sequences, Sequence2 : Sequences]
    BY <2>1 DEF IInv, Types
  <2>3. QED
    BY <1>1, <1>2, <1>3, <2>1, <2>2, EndStep
<1>4. CASE ~SavesPrimary
  <2>1. /\ call.name = "HvWriteAlternateHive" /\ hive' = hive
        /\ promised' = promised /\ attempts' = attempts
    BY <1>1, <1>4 DEF SaveReturns, SavesPrimary
  <2>2. Types'
    BY <1>1, <2>1, NoCallTypes DEF IInv, Types
  <2>3. CallsOK'
    <3>1. hive.Data # << >>
      BY <1>2 DEF IInv, CallsOK
    <3>2. QED
      BY <1>1, <1>2, <2>1, <3>1, NoCallTypes DEF CallsOK, StepsOK
  <2>4. BasesOK' /\ SaveGoesOn'
    BY <1>1, NoCallTypes DEF BasesOK, SaveGoesOn, SavesPrimary
  <2>5. CleanMatches'
    <3>1. View("PRIMARY")' = View("PRIMARY") /\ MaySave
      BY <1>1, <1>2, <2>1 DEF View, MaySave
    <3>2. QED
      BY <2>1, <3>1 DEF IInv, CleanMatches
  <2>6. Settled' /\ WholeImages'
    BY <1>1, <2>1 DEF IInv, Settled, WholeImages, Log
  <2>7. QED
    BY <2>2, <2>3, <2>4, <2>5, <2>6 DEF IInv
<1>5. QED
  BY <1>3, <1>4

\* ... the end of a load that recovered the hive
LEMMA LoadReturnsStep ==
  ASSUME IInv, LoadReturns
  PROVE  IInv'
<1>1. /\ call.name = "HvSyncHiveFromRecover" /\ call.steps = << >>
      /\ status' = "Up" /\ call' = NoCall /\ hive' = hive
      /\ promised' = hive.Data /\ attempts' = {}
      /\ UNCHANGED <<fileType, disk, pending, changes>>
  BY DEF LoadReturns
<1>2. SavesPrimary
  BY <1>1 DEF SavesPrimary
<1>3. hive'.Data = hive.Data /\ hive'.Dirty \subseteq DOMAIN hive.Data
      /\ hive' \in [Data : Images, Dirty : SUBSET Blocks, Sequence1 : Sequences, Sequence2 : Sequences]
  BY <1>1 DEF IInv, Types
<1>4. QED
  BY <1>1, <1>2, <1>3, EndStep

\* ... and the step from the header of the log to its data.
LEMMA HeaderRecoveredStep ==
  ASSUME IInv, HeaderRecovered
  PROVE  IInv'
<1> DEFINE log == View("LOG")
           base == RecoveredHeader(log)
           ops == HvpRecoverDataFromLog(log, base, "Corrupt")
<1>1. /\ call.name = "RecoverHeader" /\ call.steps = << >>
      /\ call' = [name |-> "ReplayData", base |-> base, steps |-> ops]
      /\ UNCHANGED <<fileType, status, hive, disk, pending, changes, promised, attempts>>
  BY DEF HeaderRecovered
<1>2. status = "Loading" /\ Log
  <2>1. call # NoCall
    BY <1>1, NoCallTypes
  <2>2. QED
    BY <1>1, <2>1 DEF IInv, CallsOK
<1>3. FileIn("LOG", log)
  BY TypesFacts DEF IInv, Files
<1>4. base # None
  BY <1>1 DEF IInv, BasesOK, HasError
<1> HIDE DEF log
<1>5. base \in HeaderType /\ base.Sequence1 <= MaxSequence
  BY <1>3, <1>4, RecoverHeaderOps DEF RecoveryCalls
<1> HIDE DEF base
<1>6. ops \in Seq(Operation) /\ StepsOK("ReplayData", ops)
  BY <1>3, <1>5, RecoverDataOps DEF RecoveryCalls
<1> HIDE DEF ops
<1>7. call'.name = "ReplayData" /\ call'.base = base /\ call'.steps = ops
  BY <1>1
<1>8. Types'
  <2>1. call' \in [name : CallNames, base : HeaderType \cup {None, Torn}, steps : Seq(Operation)]
    BY <1>1, <1>5, <1>6 DEF CallNames
  <2>2. QED
    BY <1>1, <2>1 DEF IInv, Types
<1>9. CallsOK'
  BY <1>1, <1>2, <1>6, <1>7 DEF CallsOK, SavesPrimary, Replaying, RecoveryCalls, Log
<1>10. BasesOK'
  BY <1>5, <1>7 DEF BasesOK
<1>11. SaveGoesOn' /\ CleanMatches' /\ Settled'
  BY <1>1, <1>2, <1>7 DEF SaveGoesOn, SavesPrimary, CleanMatches, MaySave, Settled
<1>12. WholeImages'
  BY <1>1 DEF IInv, WholeImages, Log
<1>13. QED
  BY <1>8, <1>9, <1>10, <1>11, <1>12 DEF IInv

-----------------------------------------------------------------------------
(* Loading *)

\* A file that can be read gives a whole, clean hive.
LEMMA LoadedFacts ==
  ASSUME NEW f, FileIn("PRIMARY", f), NEW base \in HeaderType, Readable(f, base),
         NEW h, h = Loaded(f, base)
  PROVE  /\ h = [Data |-> h.Data, Dirty |-> {}, Sequence1 |-> base.Sequence1,
                 Sequence2 |-> base.Sequence2]
         /\ h.Dirty = {} /\ h.Sequence1 = base.Sequence1 /\ h.Sequence2 = base.Sequence2
         /\ h \in [Data : Images, Dirty : SUBSET Blocks, Sequence1 : Sequences, Sequence2 : Sequences]
         /\ h.Data \in Images /\ h.Data # << >>
         /\ DOMAIN h.Data = 1 .. base.Length
         /\ \A b \in DOMAIN h.Data : f[Block(b)] = h.Data[b]
<1>1. base.Length \in 1 .. MaxLength /\ base.Sequence1 \in Sequences /\ base.Sequence2 \in Sequences
  BY DEF HeaderType
<1>2. /\ h = [Data |-> h.Data, Dirty |-> {}, Sequence1 |-> base.Sequence1,
              Sequence2 |-> base.Sequence2]
      /\ h.Data = [i \in 1 .. base.Length |-> f[Block(i)]]
  BY DEF Loaded
<1>3. ASSUME NEW i \in 1 .. base.Length PROVE f[Block(i)] \in Contents \cup {Torn}
  <2>1. i \in Blocks
    BY <1>1, BoundsAssumption DEF Blocks
  <2>2. f[Block(i)] # None
    BY DEF Readable
  <2>3. QED
    BY <2>1, <2>2 DEF FileIn, FileOK
<1>4. h.Data \in [1 .. base.Length -> Contents \cup {Torn}] /\ base.Length \in 0 .. MaxLength
  BY <1>1, <1>2, <1>3
<1>5. h.Data \in Images /\ h.Data # << >>
  <2>1. h.Data \in Images
    BY <1>4 DEF Images
  <2>2. 1 \in DOMAIN h.Data
    BY <1>1, <1>4
  <2>3. QED
    BY <2>1, <2>2
<1>6. DOMAIN h.Data = 1 .. base.Length /\ \A b \in DOMAIN h.Data : f[Block(b)] = h.Data[b]
  BY <1>2
<1>7. QED
  BY <1>1, <1>2, <1>5, <1>6

\* The operations of HvSyncHiveFromRecover.
LEMMA RecoverPlan ==
  ASSUME NEW h, h.Data \in Images, h.Data # << >>, h.Dirty = {},
         h.Sequence1 \in 0 .. MaxSequence
  PROVE  /\ \E N, ops : PlanIn(HvSyncHiveFromRecover(h), 0, ops, N, h, h.Sequence1, {}, "IoFailed")
         /\ StepsOK("HvSyncHiveFromRecover", HvSyncHiveFromRecover(h))
<1> DEFINE s == h.Sequence1
           a == HvpWriteHive(h, s, h.Dirty, "PRIMARY", "IoFailed")
           c == HvpTruncateLog(s + 1)
           st == HvSyncHiveFromRecover(h)
<1>1. s \in Nat /\ s \in Sequences /\ s + 1 \in Sequences
  BY BoundsAssumption DEF Sequences
<1>2. PICK N \in Nat : WriteHiveShape(a, N, h, s, {}, "PRIMARY", "IoFailed")
  <2>1. {} \in SUBSET DOMAIN h.Data
    OBVIOUS
  <2>2. \E N \in Nat : WriteHiveShape(HvpWriteHive(h, s, {}, "PRIMARY", "IoFailed"), N, h, s, {}, "PRIMARY", "IoFailed")
    BY <1>1, <2>1, WriteHiveFacts
  <2>3. QED
    BY <2>2
<1>3. c \in Seq(Operation) /\ Len(c) = 2
      /\ \A i \in DOMAIN c : c[i].fails = "ignore" /\ c[i].op # "error" /\ ~AtPrimary(c[i])
  <2> DEFINE ws == <<At(HEADER, None), At(BITMAP, None), At(Block(1), Torn)>>
             c1 == Write("LOG", ws, s + 1, s + 1, "ignore")
             c2 == Flush("LOG", s + 1, s + 1, "ignore")
  <2>1. c = <<c1, c2>>
    BY DEF HvpTruncateLog
  <2>2. /\ At(HEADER, None) \in WritesTo("LOG") /\ At(BITMAP, None) \in WritesTo("LOG")
        /\ At(Block(1), Torn) \in WritesTo("LOG") /\ "LOG" \in Files
    <3>1. 1 \in Blocks
      BY BoundsAssumption DEF Blocks
    <3>2. QED
      BY <3>1, WriteTypes DEF Files
  <2>3. ws \in Seq(WritesTo("LOG")) /\ << >> \in Seq(WritesTo("LOG"))
    BY <2>2
  <2> HIDE DEF ws
  <2>4. c1 \in Operation /\ c2 \in Operation
    BY <1>1, <2>2, <2>3, OpTypes DEF Write, Flush
  <2>5. /\ c1.fails = "ignore" /\ c1.op # "error" /\ ~AtPrimary(c1)
        /\ c2.fails = "ignore" /\ c2.op # "error" /\ ~AtPrimary(c2)
    BY DEF Write, Flush, Op, AtPrimary
  <2> HIDE DEF c1, c2, c
  <2>6. QED
    BY <2>1, <2>4, <2>5
<1>4. st = a \o c
  BY DEF HvSyncHiveFromRecover
<1> HIDE DEF a, c, st
<1>5. a \in Seq(Operation) /\ Len(a) = N + 4
      /\ \A i \in DOMAIN a : a[i].fails = "IoFailed" /\ a[i].op # "error" /\ AtPrimary(a[i])
  <2>1. a \in Seq(Operation) /\ Len(a) = N + 4
    BY <1>2 DEF WriteHiveShape
  <2>2. \A i \in DOMAIN a : a[i].fails = "IoFailed" /\ a[i].op # "error" /\ AtPrimary(a[i])
    BY <1>2, ShapeOps DEF AtPrimary
  <2>3. QED
    BY <2>1, <2>2
<1>6. /\ st \in Seq(Operation) /\ Len(st) = N + 6
      /\ \A i \in 1 .. N + 6 : st[i] = IF i <= N + 4 THEN a[i] ELSE c[i - (N + 4)]
  <2>1. /\ a \o c \in Seq(Operation) /\ Len(a \o c) = Len(a) + Len(c)
        /\ \A i \in 1 .. Len(a) + Len(c) : (a \o c)[i] = IF i <= Len(a) THEN a[i] ELSE c[i - Len(a)]
    <3>1. a \in Seq(Operation) /\ c \in Seq(Operation)
      BY <1>3, <1>5
    <3>2. QED
      BY <3>1, ConcatProperties
  <2>2. QED
    BY <1>3, <1>4, <1>5, <2>1
<1>7. DOMAIN st = 1 .. N + 6 /\ DOMAIN a = 1 .. N + 4 /\ DOMAIN c = 1 .. 2
  BY <1>3, <1>5, <1>6, LenProperties
<1>8. ASSUME NEW i \in 1 .. N + 4
      PROVE  /\ i \in DOMAIN st /\ st[i] = a[i] /\ st[i].fails = "IoFailed"
             /\ st[i].op # "error" /\ AtPrimary(st[i])
  <2>1. i \in 1 .. N + 6 /\ i <= N + 4
    OBVIOUS
  <2>2. i \in DOMAIN st /\ st[i] = a[i] /\ i \in DOMAIN a
    BY <1>6, <1>7, <2>1
  <2>3. QED
    BY <1>5, <2>2
<1>9. ASSUME NEW i \in DOMAIN st, i \notin 1 .. N + 4
      PROVE  st[i].fails = "ignore" /\ st[i].op # "error" /\ ~AtPrimary(st[i]) /\ i > N + 4
  <2>1. i \in 1 .. N + 6 /\ ~(i <= N + 4) /\ i - (N + 4) \in 1 .. 2
    BY <1>7, <1>9
  <2>2. st[i] = c[i - (N + 4)]
    BY <1>6, <2>1
  <2>3. QED
    BY <1>3, <1>7, <2>1, <2>2
<1>10. StepsOK("HvSyncHiveFromRecover", st)
  <2>1. ASSUME NEW i \in DOMAIN st, st[i].fails = "ignore", NEW j \in DOMAIN st, j >= i
        PROVE  ~AtPrimary(st[j])
    <3>1. i > N + 4
      BY <1>8, <1>9, <2>1
    <3>2. j \notin 1 .. N + 4
      BY <1>7, <2>1, <3>1
    <3>3. QED
      BY <1>9, <3>2
  <2>2. \A i \in DOMAIN st : st[i].fails \in {"IoFailed", "ignore"} /\ st[i].op # "error"
    BY <1>8, <1>9
  <2>3. QED
    BY <2>1, <2>2 DEF StepsOK, RecoveryCalls
<1>11. PlanIn(st, 0, a, N, h, s, {}, "IoFailed")
  <2>1. \A i \in 1 .. N + 4 : 0 + i \in DOMAIN st /\ st[0 + i] = a[i]
    BY <1>8
  <2>2. \A j \in DOMAIN st : AtPrimary(st[j]) => j - 0 \in 1 .. N + 4
    BY <1>7, <1>9
  <2>3. QED
    BY <1>1, <1>2, <1>6, <2>1, <2>2 DEF PlanIn
<1>12. QED
  BY <1>10, <1>11 DEF st

LEMMA DataRecoveredStep ==
  ASSUME IInv, DataRecovered
  PROVE  IInv'
<1> DEFINE v == View("PRIMARY")
           base == call.base
           h == Loaded(v, base)
           st == HvSyncHiveFromRecover(h)
<1>1. /\ call.name \in {"RecoverData", "ReplayData", "Fallback"} /\ call.steps = << >>
      /\ UNCHANGED <<fileType, disk, pending, changes, promised, attempts>>
  BY DEF DataRecovered
<1>2. status = "Loading" /\ Log
  <2>1. call # NoCall
    BY <1>1, NoCallTypes
  <2>2. QED
    BY <1>1, <2>1 DEF IInv, CallsOK
<1>3. base \in HeaderType /\ (base.Sequence1 = base.Sequence2 => base.Sequence1 <= MaxSequence)
  BY <1>1 DEF IInv, BasesOK, HasError
<1>4. FileIn("PRIMARY", v)
  BY TypesFacts DEF IInv, Files
<1>5. WholeImages'
  BY <1>1 DEF IInv, WholeImages, Log
<1>6. CASE status' \in {"Corrupt", "IoFailed"} /\ hive' = NoHive /\ call' = NoCall
  <2>1. Types'
    BY <1>1, <1>6, NoHiveTypes, NoCallTypes DEF IInv, Types
  <2>2. CallsOK' /\ BasesOK' /\ SaveGoesOn' /\ CleanMatches' /\ Settled'
    BY <1>6, NoCallTypes DEF CallsOK, StepsOK, Replaying, RecoveryCalls, SavesPrimary, BasesOK,
                             SaveGoesOn, CleanMatches, MaySave, Settled
  <2>3. QED
    BY <1>5, <2>1, <2>2 DEF IInv
<1>7. CASE /\ Readable(v, base) /\ h.Sequence1 = h.Sequence2
           /\ hive' = h /\ status' = status
           /\ call' = [name |-> "HvSyncHiveFromRecover", base |-> None, steps |-> st]
  <2>1. Readable(v, base)
    BY <1>7
  <2> HIDE DEF v, base
  <2>2. /\ h.Dirty = {} /\ h.Sequence1 = base.Sequence1 /\ h.Sequence2 = base.Sequence2
        /\ h \in [Data : Images, Dirty : SUBSET Blocks, Sequence1 : Sequences, Sequence2 : Sequences]
        /\ h.Data \in Images /\ h.Data # << >>
        /\ \A b \in DOMAIN h.Data : v[Block(b)] = h.Data[b]
    BY <1>3, <1>4, <2>1, LoadedFacts
  <2>3. h.Sequence1 \in 0 .. MaxSequence
    <3>1. base.Sequence1 = base.Sequence2 /\ base.Sequence1 \in Sequences
      BY <1>3, <1>7, <2>2 DEF HeaderType
    <3>2. base.Sequence1 <= MaxSequence
      BY <1>3, <3>1
    <3>3. QED
      BY <2>2, <3>1, <3>2, BoundsAssumption DEF Sequences
  <2> HIDE DEF h
  <2>4. PICK N, ops : PlanIn(st, 0, ops, N, h, h.Sequence1, {}, "IoFailed")
    BY <2>2, <2>3, RecoverPlan
  <2>5. StepsOK("HvSyncHiveFromRecover", st)
    BY <2>2, <2>3, RecoverPlan
  <2> HIDE DEF st
  <2>6. /\ Planned(st, h.Data, {}, h.Sequence1)
        /\ Done(st, h.Data, h.Sequence1, v)
        /\ Remains(st, {1, 2, 3, 4, 5})
    <3>1. RestInFile(v, h, {})
      BY <2>2 DEF RestInFile
    <3>2. QED
      BY <2>4, <3>1, FreshPlan
  <2>7. st \in Seq(Operation)
    BY <2>4 DEF PlanIn
  <2>8. /\ call'.name = "HvSyncHiveFromRecover" /\ call'.base = None /\ call'.steps = st
        /\ hive' = h /\ status' = "Loading"
    BY <1>2, <1>7
  <2>9. Types'
    <3>1. call' \in [name : CallNames, base : HeaderType \cup {None, Torn}, steps : Seq(Operation)]
      BY <1>7, <2>7 DEF CallNames
    <3>2. QED
      BY <1>1, <2>2, <2>8, <3>1 DEF IInv, Types
  <2>10. CallsOK'
    BY <1>1, <1>2, <2>2, <2>5, <2>8 DEF CallsOK, SavesPrimary, Replaying, RecoveryCalls, Log
  <2>11. BasesOK' /\ CleanMatches' /\ Settled'
    BY <2>8 DEF BasesOK, CleanMatches, MaySave, Settled
  <2>12. SaveGoesOn'
    <3>1. ToSave' = {}
      BY <2>2, <2>8 DEF ToSave
    <3>2. View("PRIMARY")' = v
      BY <1>1 DEF View, v
    <3>3. QED
      BY <2>3, <2>6, <2>8, <3>1, <3>2 DEF SaveGoesOn
  <2>13. QED
    BY <1>5, <2>9, <2>10, <2>11, <2>12 DEF IInv
<1>8. QED
  BY <1>6, <1>7 DEF DataRecovered

\* Before a load, all that a file holds is on the disk.
LEMMA DownFacts ==
  ASSUME IInv, status = "Down"
  PROVE  /\ call = NoCall /\ pending["PRIMARY"] = << >> /\ View("PRIMARY") = disk["PRIMARY"]
         /\ FileIn("PRIMARY", disk["PRIMARY"]) /\ FileIn("LOG", View("LOG"))
         /\ Outcomes(disk["PRIMARY"], pending["PRIMARY"]) = {disk["PRIMARY"]}
<1>1. call = NoCall /\ pending["PRIMARY"] = << >>
  BY DEF IInv, CallsOK, Files
<1>2. FileIn("PRIMARY", disk["PRIMARY"]) /\ FileIn("LOG", View("LOG"))
  BY TypesFacts DEF IInv, Files
<1>3. disk["PRIMARY"] = [p \in Places |-> disk["PRIMARY"][p]]
  BY <1>2 DEF FileIn
<1>4. QED
  BY <1>1, <1>2, <1>3, WrittenNothing, OutcomesNothing DEF View

\* A load that takes the primary file as it is.
LEMMA InitializeStep ==
  ASSUME IInv, status = "Down", Sound(View("PRIMARY")), Initialize(View("PRIMARY")[HEADER]),
         UNCHANGED <<fileType, disk, pending, changes>>
  PROVE  IInv'
<1> DEFINE v == View("PRIMARY")
           base == v[HEADER]
           h == Loaded(v, base)
<1>1. /\ call = NoCall /\ pending["PRIMARY"] = << >> /\ v = disk["PRIMARY"]
      /\ FileIn("PRIMARY", v)
      /\ Outcomes(disk["PRIMARY"], pending["PRIMARY"]) = {disk["PRIMARY"]}
  BY DownFacts
<1>2. base \in HeaderType /\ base.Sequence1 = base.Sequence2
  BY <1>1 DEF Sound, HvpGetHiveHeader, HvpVerifyHiveHeader, FileIn, FileOK
<1>3. CASE Readable(v, base)
  <2>1. /\ status' = "Up" /\ hive' = h /\ call' = NoCall
        /\ promised' = h.Data /\ attempts' = {}
    BY <1>3 DEF Initialize
  <2>2. PrimaryImage(v) = h.Data
    BY DEF PrimaryImage, Loaded
  <2>3. Sound(v)
    OBVIOUS
  <2> HIDE DEF v, base
  <2>4. /\ h.Dirty = {}
        /\ h \in [Data : Images, Dirty : SUBSET Blocks, Sequence1 : Sequences, Sequence2 : Sequences]
        /\ h.Data \in Images /\ h.Data # << >>
        /\ \A b \in DOMAIN h.Data : v[Block(b)] = h.Data[b]
    BY <1>1, <1>2, <1>3, LoadedFacts
  <2> HIDE DEF h
  <2>5. Types'
    BY <2>1, <2>4, NoCallTypes DEF IInv, Types
  <2>6. CallsOK'
    BY <2>1, <2>4, NoCallTypes DEF CallsOK, StepsOK
  <2>7. BasesOK' /\ SaveGoesOn'
    BY <2>1, NoCallTypes DEF BasesOK, SaveGoesOn, SavesPrimary
  <2>8. CleanMatches'
    <3>1. View("PRIMARY")' = v
      BY DEF View, v
    <3>2. QED
      BY <2>1, <2>4, <3>1 DEF CleanMatches
  <2>9. Settled'
    BY <1>1, <2>1, <2>2, <2>3 DEF Settled
  <2>10. WholeImages'
    BY <1>1, <2>1, <2>2 DEF WholeImages
  <2>11. QED
    BY <2>5, <2>6, <2>7, <2>8, <2>9, <2>10 DEF IInv
<1>4. CASE ~Readable(v, base)
  <2>1. /\ status' = "Corrupt" /\ hive' = NoHive /\ call' = NoCall
        /\ promised' = promised /\ attempts' = attempts
    BY <1>4 DEF Initialize
  <2>2. Types'
    BY <2>1, NoHiveTypes, NoCallTypes DEF IInv, Types
  <2>3. CallsOK' /\ BasesOK' /\ SaveGoesOn' /\ CleanMatches' /\ Settled'
    BY <2>1, NoCallTypes DEF CallsOK, StepsOK, Replaying, RecoveryCalls, SavesPrimary, BasesOK,
                             SaveGoesOn, CleanMatches, MaySave, Settled
  <2>4. WholeImages'
    BY <2>1 DEF IInv, WholeImages, Log
  <2>5. QED
    BY <2>2, <2>3, <2>4 DEF IInv
<1>5. QED
  BY <1>3, <1>4

\* A load that needs the log.
LEMMA RecoverStep ==
  ASSUME IInv, status = "Down", NEW result \in {"RecoverData", "RecoverHeader"},
         NEW base \in HeaderType \cup {None, Torn}, Recover(result, base),
         result = "RecoverData" => base \in HeaderType /\ base.Sequence1 # base.Sequence2,
         UNCHANGED <<fileType, disk, pending, changes>>
  PROVE  IInv'
<1> DEFINE log == View("LOG")
           ops == IF result = "RecoverData" THEN HvpRecoverDataFromLog(log, base, "Fallback")
                  ELSE HvpRecoverHeaderFromLog(log)
<1>1. call = NoCall /\ FileIn("LOG", log)
  BY DownFacts
<1>2. hive' = hive /\ promised' = promised /\ attempts' = attempts
  BY DEF Recover
<1>3. WholeImages'
  BY <1>2 DEF IInv, WholeImages, Log
<1>4. CASE Log
  <2>1. /\ status' = "Loading"
        /\ call' = [name |-> result, base |-> base, steps |-> ops]
    BY <1>4 DEF Recover
  <2>2. View("LOG")' = log
    BY DEF View
  <2>3. result \in RecoveryCalls
    BY DEF RecoveryCalls
  <2> HIDE DEF log
  <2>4. ops \in Seq(Operation) /\ StepsOK(result, ops)
    <3>1. CASE result = "RecoverData"
      BY <1>1, <2>3, <3>1, RecoverDataOps
    <3>2. CASE result # "RecoverData"
      BY <1>1, <2>3, <3>2, RecoverHeaderOps
    <3>3. QED
      BY <3>1, <3>2
  <2>5. result = "RecoverHeader" => RecoveredHeader(log) # None \/ HasError(ops)
    BY <1>1, <2>3, RecoverHeaderOps
  <2> HIDE DEF ops
  <2>6. call'.name = result /\ call'.base = base /\ call'.steps = ops
    BY <2>1
  <2>7. Types'
    <3>1. call' \in [name : CallNames, base : HeaderType \cup {None, Torn}, steps : Seq(Operation)]
      BY <2>1, <2>4 DEF CallNames
    <3>2. QED
      BY <1>2, <2>1, <3>1 DEF IInv, Types
  <2>8. CallsOK'
    BY <1>4, <2>1, <2>3, <2>4, <2>6 DEF CallsOK, SavesPrimary, Replaying, RecoveryCalls, Log
  <2>9. BasesOK'
    BY <2>2, <2>5, <2>6 DEF BasesOK, RecoveredHeader, HvpVerifyHiveHeader
  <2>10. SaveGoesOn' /\ CleanMatches' /\ Settled'
    BY <2>1, <2>6 DEF SaveGoesOn, SavesPrimary, CleanMatches, MaySave, Settled
  <2>11. QED
    BY <1>3, <2>7, <2>8, <2>9, <2>10 DEF IInv
<1>5. CASE ~Log
  <2>1. status' = "Corrupt" /\ call' = NoCall
    BY <1>1, <1>5 DEF Recover
  <2>2. Types'
    BY <1>2, <2>1, NoCallTypes DEF IInv, Types
  <2>3. CallsOK' /\ BasesOK' /\ SaveGoesOn' /\ CleanMatches' /\ Settled'
    BY <2>1, NoCallTypes DEF CallsOK, StepsOK, Replaying, RecoveryCalls, SavesPrimary, BasesOK,
                             SaveGoesOn, CleanMatches, MaySave, Settled
  <2>4. QED
    BY <1>3, <2>2, <2>3 DEF IInv
<1>6. QED
  BY <1>4, <1>5

\* The invariant survives the start of a load.
LEMMA HvLoadHiveStep ==
  ASSUME IInv, HvLoadHive
  PROVE  IInv'
<1> DEFINE v == View("PRIMARY")
<1>1. status = "Down" /\ UNCHANGED <<fileType, disk, pending, changes>>
  BY DEF HvLoadHive
<1>2. v[HEADER] \in HeaderType \cup {None, Torn}
  BY <1>1, DownFacts DEF FileIn, FileOK
<1>3. CASE Recover("RecoverHeader", None)
  BY <1>1, <1>3, RecoverStep
<1>4. CASE HvpGetHiveHeader(v) = "HiveSuccess" /\ Initialize(v[HEADER])
  BY <1>1, <1>4, InitializeStep DEF Sound
<1>5. CASE HvpGetHiveHeader(v) # "HiveSuccess" /\ Recover(HvpGetHiveHeader(v), v[HEADER])
  <2> DEFINE result == HvpGetHiveHeader(v)
             base == v[HEADER]
  <2>1. /\ result \in {"RecoverData", "RecoverHeader"}
        /\ result = "RecoverData" => base \in HeaderType /\ base.Sequence1 # base.Sequence2
    BY <1>2, <1>5 DEF HvpGetHiveHeader
  <2>2. Recover(result, base) /\ base \in HeaderType \cup {None, Torn}
    BY <1>2, <1>5
  <2> HIDE DEF result, base
  <2>3. QED
    BY <1>1, <2>1, <2>2, RecoverStep
<1>6. QED
  BY <1>3, <1>4, <1>5 DEF HvLoadHive

\* The invariant survives a crash.
LEMMA CrashStep ==
  ASSUME IInv, Crash
  PROVE  IInv'
<1>1. PICK outcome \in Outcomes(disk["PRIMARY"], pending["PRIMARY"]),
           log \in Outcomes(disk["LOG"], pending["LOG"]),
           alternate \in Outcomes(disk["ALTERNATE"], pending["ALTERNATE"]) :
             disk' = [f \in Files |-> CASE f = "PRIMARY" -> outcome
                                        [] f = "LOG" -> log
                                        [] OTHER -> alternate]
  BY DEF Crash
<1>2. /\ status' = "Down" /\ hive' = NoHive /\ call' = NoCall
      /\ pending' = [f \in Files |-> << >>]
      /\ UNCHANGED <<fileType, changes, promised, attempts>>
  BY DEF Crash
<1>3. \A f \in Files : FileIn(f, disk[f]) /\ pending[f] \in Seq(WritesTo(f))
  BY TypesFacts DEF IInv
<1>4. /\ FileIn("PRIMARY", outcome) /\ FileIn("LOG", log) /\ FileIn("ALTERNATE", alternate)
  BY <1>3, OutcomesOK DEF Files
<1>5. /\ DOMAIN disk' = Files /\ disk'["PRIMARY"] = outcome
      /\ \A f \in Files : FileIn(f, disk'[f])
      /\ DOMAIN pending' = Files /\ \A f \in Files : pending'[f] = << >>
  BY <1>1, <1>2, <1>4 DEF Files
<1>6. Types'
  <2>1. \A f \in Files : pending'[f] \in Seq(WritesTo(f))
    <3>1. \A S : << >> \in Seq(S)
      OBVIOUS
    <3>2. QED
      BY <1>5, <3>1
  <2>2. QED
    BY <1>2, <1>5, <2>1, NoHiveTypes, NoCallTypes DEF IInv, Types
<1>7. CallsOK' /\ BasesOK' /\ SaveGoesOn' /\ CleanMatches' /\ Settled'
  BY <1>2, <1>5, NoCallTypes DEF CallsOK, StepsOK, Replaying, RecoveryCalls, SavesPrimary, BasesOK,
                           SaveGoesOn, CleanMatches, MaySave, Settled
<1>8. WholeImages'
  <2>1. disk'["PRIMARY"] = outcome /\ pending'["PRIMARY"] = << >>
    BY <1>5 DEF Files
  <2>2. outcome = [p \in Places |-> outcome[p]]
    BY <1>4 DEF FileIn
  <2>3. Outcomes(disk'["PRIMARY"], pending'["PRIMARY"]) = {outcome}
    BY <2>1, <2>2, OutcomesNothing
  <2>4. QED
    BY <1>1, <1>2, <2>3 DEF IInv, WholeImages, Log
<1>9. QED
  BY <1>6, <1>7, <1>8 DEF IInv

-----------------------------------------------------------------------------
(* The theorems *)

\* The invariant survives every step.
LEMMA NextStep ==
  ASSUME IInv, [Next]_vars
  PROVE  IInv'
<1>1. CASE Next
  <2>1. CASE \E b \in DOMAIN hive.Data : HvMarkCellDirty(b)
    BY <2>1, MarkCellDirtyStep
  <2>2. CASE HvpAddBin
    BY <2>2, AddBinStep
  <2>3. CASE HvSyncHive
    BY <2>3, HvSyncHiveStep
  <2>4. CASE HvWriteHive
    BY <2>4, HvWriteHiveStep
  <2>5. CASE HvWriteAlternateHive
    BY <2>5, HvWriteAlternateHiveStep
  <2>6. CASE HvLoadHive
    BY <2>6, HvLoadHiveStep
  <2>7. CASE StepSucceeds
    BY <2>7, StepSucceedsStep
  <2>8. CASE StepFails
    BY <2>8, StepFailsStep
  <2>9. CASE SaveReturns
    BY <2>9, SaveReturnsStep
  <2>10. CASE HeaderRecovered
    BY <2>10, HeaderRecoveredStep
  <2>11. CASE DataRecovered
    BY <2>11, DataRecoveredStep
  <2>12. CASE LoadReturns
    BY <2>12, LoadReturnsStep
  <2>13. CASE Crash
    BY <2>13, CrashStep
  <2>14. QED
    BY <1>1, <2>1, <2>2, <2>3, <2>4, <2>5, <2>6, <2>7, <2>8, <2>9, <2>10, <2>11, <2>12, <2>13
       DEF Next
<1>2. CASE UNCHANGED vars
  <2>1. View("PRIMARY")' = View("PRIMARY") /\ View("LOG")' = View("LOG")
    BY <1>2 DEF View, vars
  <2>2. Types' /\ CallsOK' /\ Settled' /\ WholeImages'
    BY <1>2 DEF IInv, vars, Types, CallsOK, SavesPrimary, Replaying, Settled, WholeImages, Log
  <2>3. BasesOK' /\ SaveGoesOn' /\ CleanMatches'
    BY <1>2, <2>1 DEF IInv, vars, BasesOK, RecoveredHeader, HvpVerifyHiveHeader, SaveGoesOn,
                      SavesPrimary, ToSave, CleanMatches, MaySave
  <2>4. QED
    BY <2>2, <2>3 DEF IInv
<1>3. QED
  BY <1>1, <1>2

\* The inductive invariant: the types of the state, the operations that a call may
\* still make, how much of a save has reached the primary file, and what a crash may
\* leave of it.
THEOREM Invariant == Spec => []IInv
BY InitIInv, NextStep, PTL DEF Spec

\* The state keeps its types: whatever is written, torn or replayed, both files hold
\* headers, bitmaps and blocks where these belong, and sequence numbers stay in range.
THEOREM TypeCorrect == Spec => []TypeOK
<1>1. IInv => TypeOK
  <2> SUFFICES ASSUME IInv PROVE TypeOK
    OBVIOUS
  <2>1. \A f \in Files : FileOK(View(f)) /\ FileOK(disk[f])
    BY TypesFacts DEF IInv, FileIn
  <2>2. QED
    BY <2>1, TypesFacts DEF IInv, Types, TypeOK
<1>2. QED
  BY <1>1, Invariant, PTL

\* When HvSyncHive, HvWriteHive or a load has reported success, no crash can take the
\* image back until the next save starts: every outcome is taken as it is and holds it.
THEOREM SavesDurable == Spec => []SyncedIsDurable
<1>1. IInv => SyncedIsDurable
  <2> SUFFICES ASSUME IInv, status = "Up", attempts = {},
                      NEW p \in Outcomes(disk["PRIMARY"], pending["PRIMARY"])
               PROVE  Sound(p) /\ PrimaryImage(p) = promised
    BY DEF SyncedIsDurable
  <2>1. /\ pending["PRIMARY"] = << >> /\ Sound(disk["PRIMARY"])
        /\ PrimaryImage(disk["PRIMARY"]) = promised
    BY DEF IInv, Settled
  <2>2. disk["PRIMARY"] = [q \in Places |-> disk["PRIMARY"][q]]
    BY TypesFacts DEF IInv, FileIn, Files
  <2>3. p = disk["PRIMARY"]
    BY <2>1, <2>2, OutcomesNothing
  <2>4. QED
    BY <2>1, <2>3
<1>2. QED
  BY <1>1, Invariant, PTL

-----------------------------------------------------------------------------
(* The refinement *)

\* The image in memory, as the abstract specification sees it.
Working == IF status = "Up" THEN hive.Data ELSE << >>

\* A step that the abstract specification does not see.
Unseen == (status' = "Up") = (status = "Up") /\ UNCHANGED <<Working, promised, attempts>>

\* The calls of a hive without a log, seen as steps of the abstract specification.
LEMMA LoadRefines ==
  ASSUME IInv, ~Log, HvLoadHive
  PROVE  Durable!Load \/ Unseen
<1> DEFINE v == View("PRIMARY")
<1>1. status = "Down"
  BY DEF HvLoadHive
<1>2. CASE HvpGetHiveHeader(v) = "HiveSuccess" /\ Initialize(v[HEADER]) /\ Readable(v, v[HEADER])
  <2>1. /\ status' = "Up" /\ hive'.Data = PrimaryImage(v)
        /\ promised' = hive'.Data /\ attempts' = {}
    BY <1>2 DEF Initialize, Loaded, PrimaryImage
  <2>2. v \in Outcomes(disk["PRIMARY"], pending["PRIMARY"])
    BY <1>1, DownFacts
  <2>3. Sound(v)
    BY <1>2 DEF Sound
  <2>4. PrimaryImage(v) \in attempts \cup {promised}
    BY <2>2, <2>3 DEF IInv, WholeImages
  <2>5. QED
    BY <1>1, <2>1, <2>4 DEF Durable!Load
<1>3. CASE HvpGetHiveHeader(v) = "HiveSuccess" /\ Initialize(v[HEADER]) /\ ~Readable(v, v[HEADER])
  BY <1>1, <1>3 DEF Initialize, Unseen, Working
<1>4. ASSUME NEW result, NEW base, Recover(result, base) PROVE Unseen
  BY <1>1, <1>4 DEF Recover, Unseen, Working
<1>5. QED
  BY <1>2, <1>3, <1>4 DEF HvLoadHive

\* Every step of a hive without a log is one of the abstract specification, or unseen.
LEMMA NextRefines ==
  ASSUME IInv, ~Log, Next
  PROVE  Durable!Next \/ Unseen
<1>1. status # "Loading"
  BY DEF IInv, CallsOK
<1>2. call # NoCall => status = "Up"
  BY <1>1 DEF IInv, CallsOK
<1>3. ASSUME NEW data, NEW b, Change(data, b) PROVE Durable!Change
  BY <1>3 DEF Change, Idle, Durable!Change
<1>4. CASE (\E b \in DOMAIN hive.Data : HvMarkCellDirty(b)) \/ HvpAddBin
  BY <1>3, <1>4 DEF HvMarkCellDirty, HvpAddBin, Durable!Next
<1>5. CASE HvSyncHive \/ HvWriteHive
  BY <1>5 DEF HvSyncHive, HvWriteHive, Save, Idle, Durable!Begin, Durable!Next
<1>6. CASE HvWriteAlternateHive
  BY <1>6 DEF HvWriteAlternateHive, Save, Unseen, Working
<1>7. CASE HvLoadHive
  BY <1>7, LoadRefines DEF Durable!Next
<1>8. CASE StepSucceeds
  <2>1. hive'.Data = hive.Data
    BY <1>8, TypesFacts DEF IInv, StepSucceeds
  <2>2. QED
    BY <1>8, <2>1 DEF StepSucceeds, Unseen, Working
<1>9. CASE StepFails
  <2>1. call.steps # << >> /\ Failed(Step.fails) /\ promised' = promised /\ attempts' = attempts
    BY <1>9 DEF StepFails
  <2>2. status = "Up" /\ Step.fails = "return"
    BY <1>1, <2>1, StepAllowed
  <2>3. /\ hive' = [hive EXCEPT !.Sequence1 = Step.Sequence1, !.Sequence2 = Step.Sequence2]
        /\ status' = status
    BY <2>1, <2>2 DEF Failed
  <2>4. hive'.Data = hive.Data
    BY <2>3, TypesFacts DEF IInv
  <2>5. QED
    BY <2>1, <2>3, <2>4 DEF Unseen, Working
<1>10. CASE SaveReturns
  <2>1. call # NoCall
    BY <1>10, NoCallTypes DEF SaveReturns
  <2>2. status = "Up" /\ status' = "Up"
    BY <1>2, <1>10, <2>1 DEF SaveReturns
  <2>3. hive'.Data = hive.Data
    BY <1>10, TypesFacts DEF SaveReturns, IInv
  <2>4. CASE call.name = "HvWriteAlternateHive"
    BY <1>10, <2>2, <2>3, <2>4 DEF SaveReturns, Unseen, Working
  <2>5. CASE call.name # "HvWriteAlternateHive"
    <3>1. hive.Data \in attempts
      BY <1>10, <2>5 DEF SaveReturns, IInv, CallsOK
    <3>2. QED
      BY <1>10, <2>2, <2>3, <2>5, <3>1 DEF SaveReturns, Durable!Report, Durable!Next
  <2>6. QED
    BY <2>4, <2>5
<1>11. CASE HeaderRecovered
  BY <1>11 DEF HeaderRecovered, Unseen, Working
<1>12. ~DataRecovered /\ ~LoadReturns
  <2>1. call.name \in {"RecoverData", "ReplayData", "Fallback", "HvSyncHiveFromRecover"} =>
          call # NoCall
    BY NoCallTypes
  <2>2. call.name \notin {"RecoverData", "ReplayData", "Fallback", "HvSyncHiveFromRecover"}
    BY <1>2, <2>1 DEF IInv, CallsOK
  <2>3. QED
    BY <2>2 DEF DataRecovered, LoadReturns
<1>13. CASE Crash
  <2>1. status' = "Down" /\ promised' = promised /\ attempts' = attempts
    BY <1>13 DEF Crash
  <2>2. CASE status = "Up"
    BY <2>1, <2>2 DEF Durable!Crash, Durable!Next
  <2>3. CASE status # "Up"
    BY <2>1, <2>3 DEF Unseen, Working
  <2>4. QED
    BY <2>2, <2>3
<1>14. QED
  BY <1>4, <1>5, <1>6, <1>7, <1>8, <1>9, <1>10, <1>11, <1>12, <1>13 DEF Next

\* A hive is initialised in the same way each time.
LEMMA FileTypeStays ==
  ASSUME [Next]_vars
  PROVE  fileType' = fileType
BY DEF Next, vars, HvMarkCellDirty, HvpAddBin, Change, HvSyncHive, HvWriteHive, HvWriteAlternateHive,
       Save, HvLoadHive, StepSucceeds, StepFails, SaveReturns, HeaderRecovered, DataRecovered,
       LoadReturns, Crash

\* A hive without a log: whatever operations fail and wherever the process stops, a
\* load yields the promised image or the whole of one that was being saved.
THEOREM ImplementsDurable == Spec /\ ~Log => DurableSpec
<1>1. Init => Durable!Init
  BY DEF Init, Durable!Init
<1>2. ASSUME ~Log, [Next]_vars PROVE ~Log'
  BY <1>2, FileTypeStays DEF Log
<1>3. ASSUME IInv, ~Log, [Next]_vars PROVE [Durable!Next]_(Durable!vars)
  <2>1. CASE Next
    BY <1>3, <2>1, NextRefines DEF Unseen, Working, Durable!vars
  <2>2. CASE UNCHANGED vars
    BY <2>2 DEF vars, Durable!vars
  <2>3. QED
    BY <1>3, <2>1, <2>2
<1>4. QED
  BY <1>1, <1>2, <1>3, Invariant, PTL DEF Spec, DurableSpec, Durable!Spec
=============================================================================
