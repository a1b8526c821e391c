------------------------- MODULE HiveSyncLogProofs --------------------------
(***************************************************************************)
(* Proof that the log covers the primary file of a hive that has one.      *)
(* Until a file operation fails, the hive is in one of two situations:     *)
(* either the primary file is settled, or the log on the disk repeats all  *)
(* that the primary file may lack of one whole image, and the calls that   *)
(* write to the primary file write that image.  The log is rewritten in    *)
(* the first situation only.                                               *)
(*                                                                         *)
(* HvWriteHive, which writes to the primary file without the log, is left  *)
(* out: the program calls it only for a file it has just created           *)
(* (binhive.cpp:43).                                                       *)
(***************************************************************************)
EXTENDS HiveSyncProofs

-----------------------------------------------------------------------------
(* The invariant of a hive with a log *)

NoFaults == faults = [sync |-> MaxSyncFaults, load |-> MaxLoadFaults]

\* Faults are used up and never come back.
FaultsOK == faults \in [sync : 0 .. MaxSyncFaults, load : 0 .. MaxLoadFaults]

\* The primary file asks for no recovery, and nothing of it waits to be flushed.
Settles == pending["PRIMARY"] = << >> /\ Sound(disk["PRIMARY"])

\* A header that asks for the log gives the length n of the image.
HeaderFits(hd, n) ==
  hd \notin {None, Torn} /\ hd.Sequence1 # hd.Sequence2 => hd.Length = n

\* A write to the primary file on the way to the image d, with the blocks B in the log.
WriteFits(w, d, B) ==
  \/ w.place = HEADER /\ HeaderFits(w.value, Len(d))
  \/ \E b \in B : w.place = Block(b)

\* The file p is the image d, but for blocks of B and the header.
FileFits(p, d, B) ==
  HeaderFits(p[HEADER], Len(d)) /\ \A b \in DOMAIN d \ B : p[Block(b)] = d[b]

LogHolds(f, d, B) ==
  /\ f[BITMAP] = B
  /\ \A i \in 1 .. Cardinality(B) : f[Block(i)] = d[Ascending(B)[i]]
  /\ HvpVerifyHiveHeader(f[HEADER], "LOG") /\ f[HEADER].Length = Len(d)

\* The log repeats all that the primary file may lack of the image d.
Covered(d, B) ==
  /\ d \in attempts \cup {promised} /\ d # << >> /\ B \subseteq DOMAIN d
  /\ pending["LOG"] = << >> /\ LogHolds(disk["LOG"], d, B)
  /\ FileFits(disk["PRIMARY"], d, B)
  /\ \A i \in DOMAIN pending["PRIMARY"] : WriteFits(pending["PRIMARY"][i], d, B)

\* The list st is what follows the first k elements of ops.
Suffix(st, ops, k) ==
  /\ k \in 0 .. Len(ops) /\ Len(st) = Len(ops) - k
  /\ \A i \in DOMAIN st : st[i] = ops[k + i]

\* What the log v holds after k operations of HvpWriteLog.
LogOf(v, k, d, B, s) ==
  /\ k >= 1 => v[BITMAP] = B
  /\ \A i \in 1 .. Cardinality(B) : k >= i + 1 => v[Block(i)] = d[Ascending(B)[i]]
  /\ k >= Cardinality(B) + 3 => v[HEADER] = Header(s + 1, s + 1, "LOG", Len(d))

\* A sync is about to write to its log.
WritesLog ==
  /\ call.name = "HvSyncHive"
  /\ \E s \in 0 .. MaxSequence, k \in 0 .. Cardinality(hive.Dirty) + 3 :
       /\ s < MaxSequence
       /\ Suffix(call.steps, SyncOps([hive EXCEPT !.Sequence1 = s]), k)
       /\ LogOf(View("LOG"), k, hive.Data, hive.Dirty, s)

\* Before it touches the log again, a recovered hive is done with the primary file.
LogLast(st) == \A i \in DOMAIN st : st[i].fails # "ignore" => AtPrimary(st[i])

Quiet ==
  /\ Settles
  /\ \/ call = NoCall
     \/ WritesLog
     \/ call.name = "HvSyncHiveFromRecover" /\ ~Remains(call.steps, {1, 2, 3, 4, 5})

ReplayOp(o, d, B) ==
  /\ o.op = "write" /\ AtPrimary(o)
  /\ \/ o.writes = <<At(HEADER, RecoveredHeader(disk["LOG"]))>>
     \/ \E b \in B : WritesBlock(o, d, b)

\* What has not been replayed yet is still to be replayed.
ReplayGoesOn(d) ==
  \A b \in DOMAIN d : \/ View("PRIMARY")[Block(b)] = d[b]
                      \/ \E i \in DOMAIN call.steps : WritesBlock(call.steps[i], d, b)

Repairs(d, B) ==
  \/ status \in {"Down", "Corrupt", "IoFailed"}
  \/ /\ call.name = "HvSyncHive" /\ hive.Data = d /\ hive.Dirty = B
     /\ \A i \in DOMAIN call.steps : AtPrimary(call.steps[i])
  \/ /\ call.name \in {"RecoverHeader", "RecoverData", "ReplayData"}
     /\ \A i \in DOMAIN call.steps : ReplayOp(call.steps[i], d, B)
     /\ call.name = "ReplayData" => call.base.Length = Len(d) /\ ReplayGoesOn(d)
  \/ /\ call.name = "HvSyncHiveFromRecover" /\ hive.Data = d /\ hive.Dirty = {}
     /\ LogLast(call.steps)

LogSafe == NoFaults => Quiet \/ \E d, B : Covered(d, B) /\ Repairs(d, B)

-----------------------------------------------------------------------------
(* Files that fit an image *)

\* Writes that fit an image keep a file fitting.
LEMMA WrittenFits ==
  ASSUME NEW f, FileIn("PRIMARY", f), NEW S, NEW ws \in Seq(S),
         NEW d, DOMAIN d \subseteq Blocks, NEW B, FileFits(f, d, B),
         \A i \in DOMAIN ws : WriteFits(ws[i], d, B)
  PROVE  FileFits(Written(f, ws), d, B)
<1> DEFINE u == Written(f, ws)
<1>1. DOMAIN f = Places /\ Len(ws) \in Nat /\ DOMAIN ws = 1 .. Len(ws)
  BY DEF FileIn, FileOK
<1>2. \A p \in Places :
        u[p] = IF WritesAt(ws, p) = {} THEN f[p] ELSE ws[Max(WritesAt(ws, p))].value
  BY <1>1 DEF Written
<1> HIDE DEF u
<1>3. ASSUME NEW p \in Places, WritesAt(ws, p) # {}
      PROVE  \E i \in DOMAIN ws : ws[i].place = p /\ u[p] = ws[i].value
  <2>1. WritesAt(ws, p) \in SUBSET (1 .. Len(ws))
    BY <1>1 DEF WritesAt
  <2>2. Max(WritesAt(ws, p)) \in WritesAt(ws, p)
    BY <1>1, <1>3, <2>1, MaxFacts
  <2>3. Max(WritesAt(ws, p)) \in DOMAIN ws /\ ws[Max(WritesAt(ws, p))].place = p
    BY <2>2 DEF WritesAt
  <2>4. QED
    BY <1>2, <1>3, <2>3
<1>4. HeaderFits(u[HEADER], Len(d))
  <2>1. CASE WritesAt(ws, HEADER) = {}
    BY <1>2, <2>1, PlaceFacts DEF FileFits
  <2>2. CASE WritesAt(ws, HEADER) # {}
    <3>1. PICK i \in DOMAIN ws : ws[i].place = HEADER /\ u[HEADER] = ws[i].value
      BY <1>3, <2>2, PlaceFacts
    <3>2. WriteFits(ws[i], d, B)
      OBVIOUS
    <3>3. HeaderFits(ws[i].value, Len(d))
      BY <3>1, <3>2, PlaceFacts DEF WriteFits
    <3>4. QED
      BY <3>1, <3>3
  <2>3. QED
    BY <2>1, <2>2
<1>5. ASSUME NEW b \in DOMAIN d \ B PROVE u[Block(b)] = d[b]
  <2>1. b \in Blocks /\ Block(b) \in Places
    BY PlaceFacts
  <2>2. WritesAt(ws, Block(b)) = {}
    <3> SUFFICES ASSUME NEW i \in DOMAIN ws, ws[i].place = Block(b) PROVE FALSE
      BY DEF WritesAt
    <3>1. WriteFits(ws[i], d, B)
      OBVIOUS
    <3>2. QED
      BY <3>1, PlaceFacts DEF WriteFits
  <2>3. QED
    BY <1>2, <2>1, <2>2 DEF FileFits
<1>6. QED
  BY <1>4, <1>5 DEF FileFits, u

\* Whatever a crash leaves of such writes fits as well.
LEMMA OutcomesFit ==
  ASSUME NEW f, FileIn("PRIMARY", f), NEW ws \in Seq(WritesTo("PRIMARY")),
         NEW d, DOMAIN d \subseteq Blocks, NEW B, FileFits(f, d, B),
         \A i \in DOMAIN ws : WriteFits(ws[i], d, B),
         NEW p \in Outcomes(f, ws)
  PROVE  FileFits(p, d, B)
<1> DEFINE S == WritesTo("PRIMARY")
<1>1. Len(ws) \in Nat /\ DOMAIN ws = 1 .. Len(ws)
  OBVIOUS
<1>2. ASSUME NEW n \in 0 .. Len(ws)
      PROVE  /\ SubSeq(ws, 1, n) \in Seq(S) /\ Len(SubSeq(ws, 1, n)) = n
             /\ \A i \in 1 .. n : SubSeq(ws, 1, n)[i] = ws[i]
  BY <1>1
<1>3. CASE \E n \in 0 .. Len(ws) : p = Written(f, SubSeq(ws, 1, n))
  <2>1. PICK n \in 0 .. Len(ws) : p = Written(f, SubSeq(ws, 1, n))
    BY <1>3
  <2>2. \A i \in DOMAIN SubSeq(ws, 1, n) : WriteFits(SubSeq(ws, 1, n)[i], d, B)
    BY <1>1, <1>2
  <2>3. QED
    BY <1>2, <2>1, <2>2, WrittenFits
<1>4. CASE \E n \in 1 .. Len(ws) :
             p = Written(f, Append(SubSeq(ws, 1, n - 1), TornWrite(ws[n]))) /\ Tearable(ws[n])
  <2>1. PICK n \in 1 .. Len(ws) :
               p = Written(f, Append(SubSeq(ws, 1, n - 1), TornWrite(ws[n]))) /\ Tearable(ws[n])
    BY <1>4
  <2> DEFINE a == SubSeq(ws, 1, n - 1)
             t == TornWrite(ws[n])
  <2>2. n - 1 \in 0 .. Len(ws)
    BY <1>1
  <2>3. a \in Seq(S) /\ Len(a) = n - 1 /\ \A i \in 1 .. n - 1 : a[i] = ws[i]
    BY <1>2, <2>2
  <2>4. t \in S /\ WriteFits(t, d, B)
    <3>1. ws[n] \in S /\ WriteFits(ws[n], d, B)
      BY <1>1
    <3>2. t \in S /\ t.place = ws[n].place
      BY <2>1, <3>1, TornOK
    <3>3. t.value = Torn
      BY DEF TornWrite, At
    <3>4. QED
      BY <3>1, <3>2, <3>3 DEF WriteFits, HeaderFits
  <2> HIDE DEF a, t
  <2>5. Append(a, t) \in Seq(S)
    BY <2>3, <2>4
  <2>6. ASSUME NEW i \in DOMAIN Append(a, t) PROVE WriteFits(Append(a, t)[i], d, B)
    <3>1. i \in 1 .. n
      BY <2>3, <2>4, <1>1
    <3>2. CASE i = n
      BY <2>3, <2>4, <3>2, <1>1
    <3>3. CASE i # n
      <4>1. i \in 1 .. n - 1 /\ i \in 1 .. Len(ws)
        BY <3>1, <3>3, <1>1
      <4>2. Append(a, t)[i] = ws[i]
        BY <2>3, <2>4, <4>1
      <4>3. QED
        BY <4>1, <4>2, <1>1
    <3>4. QED
      BY <3>2, <3>3
  <2>7. p = Written(f, Append(a, t))
    BY <2>1 DEF a, t
  <2>8. QED
    BY <2>5, <2>6, <2>7, WrittenFits
<1>5. QED
  BY <1>3, <1>4 DEF Outcomes

-----------------------------------------------------------------------------
(* Replaying the log *)

\* The operations ops write the blocks B of the image d, in ascending order.
CopyShape(ops, d, B, fails) ==
  /\ Cardinality(B) \in Nat /\ DOMAIN ops = 1 .. Cardinality(B)
  /\ \A i \in 1 .. Cardinality(B) : Ascending(B)[i] \in B /\
        ops[i] = Write("PRIMARY", <<At(Block(Ascending(B)[i]), d[Ascending(B)[i]])>>, 0, 0, fails)
  /\ \A b \in B : \E i \in 1 .. Cardinality(B) : Ascending(B)[i] = b

\* The operations that copy the blocks of the log are those of the image.
LEMMA Replays ==
  ASSUME NEW log, NEW d \in Images, d # << >>, NEW B \in SUBSET DOMAIN d, LogHolds(log, d, B),
         NEW base, base.Length = Len(d), NEW fails
  PROVE  CopyShape(HvpRecoverDataFromLog(log, base, fails), d, B, fails)
<1>1. /\ Len(d) \in Nat /\ DOMAIN d = 1 .. Len(d) /\ DOMAIN d \subseteq Blocks
      /\ \A i \in DOMAIN d : d[i] # None
  BY ImageFacts, Sentinels
<1>2. B \in SUBSET Blocks /\ B \in SUBSET Nat /\ IsFiniteSet(B)
  <2>1. IsFiniteSet(1 .. Len(d))
    BY <1>1, FS_Interval
  <2>2. IsFiniteSet(B)
    BY <1>1, <2>1, FS_Subset
  <2>3. QED
    BY <1>1, <2>2
<1>3. /\ Cardinality(B) \in Nat /\ Ascending(B) \in [1 .. Cardinality(B) -> B]
      /\ \A n \in B : \E i \in 1 .. Cardinality(B) : Ascending(B)[i] = n
  BY <1>2, AscendingFacts
<1>4. log[BITMAP] = B /\ log[BITMAP] # None
  BY <1>2, Sentinels DEF LogHolds
<1>5. log[BITMAP] \cap 1 .. base.Length = B
  BY <1>1, <1>4
<1>6. Len(Ascending(B)) = Cardinality(B)
  BY <1>3 DEF Ascending
<1>7. \A i \in 1 .. Cardinality(B) : log[Block(i)] = d[Ascending(B)[i]] /\ log[Block(i)] # None
  <2> TAKE i \in 1 .. Cardinality(B)
  <2>1. Ascending(B)[i] \in DOMAIN d
    BY <1>3
  <2>2. log[Block(i)] = d[Ascending(B)[i]]
    BY DEF LogHolds
  <2>3. QED
    BY <1>1, <2>1, <2>2
<1>8. HvpRecoverDataFromLog(log, base, fails) =
        [i \in 1 .. Cardinality(B) |->
           IF log[Block(i)] = None THEN Op("error", "LOG", << >>, 0, 0, fails)
           ELSE Write("PRIMARY", <<At(Block(Ascending(B)[i]), log[Block(i)])>>, 0, 0, fails)]
  BY <1>4, <1>5, <1>6 DEF HvpRecoverDataFromLog
<1>9. QED
  BY <1>3, <1>7, <1>8 DEF CopyShape

-----------------------------------------------------------------------------
(* What the invariant says of a crash *)

\* Replaying a log that holds what a file lacks of an image gives that image.
LEMMA ReplayGives ==
  ASSUME NEW log, NEW d \in Images, d # << >>, NEW B \in SUBSET DOMAIN d, LogHolds(log, d, B),
         NEW p, FileIn("PRIMARY", p), FileFits(p, d, B)
  PROVE  Covers(p, log) \/ d \notin attempts \cup {promised}
<1> SUFFICES ASSUME HvpGetHiveHeader(p) = "RecoverData", d \in attempts \cup {promised}
             PROVE  /\ \A i \in DOMAIN ReplayOps(p, log) : ReplayOps(p, log)[i].op = "write"
                    /\ PrimaryImage(Replayed(p, log)) = d
  BY DEF Covers
<1> DEFINE N == Cardinality(B)
           ops == ReplayOps(p, log)
           ws == [i \in DOMAIN ops |-> ops[i].writes[1]]
           u == Replayed(p, log)
<1>1. p[HEADER] \notin {None, Torn} /\ p[HEADER].Sequence1 # p[HEADER].Sequence2
  BY DEF HvpGetHiveHeader
<1>2. p[HEADER].Length = Len(d)
  BY <1>1 DEF FileFits, HeaderFits
<1>3. CopyShape(ops, d, B, "return")
  BY <1>2, Replays DEF ReplayOps
<1> HIDE DEF ops
<1>4. /\ N \in Nat /\ DOMAIN ops = 1 .. N
      /\ \A i \in 1 .. N : Ascending(B)[i] \in B /\
            ops[i] = Write("PRIMARY", <<At(Block(Ascending(B)[i]), d[Ascending(B)[i]])>>, 0, 0, "return")
      /\ \A b \in B : \E i \in 1 .. N : Ascending(B)[i] = b
  BY <1>3 DEF CopyShape
<1> HIDE DEF N
<1>5. /\ DOMAIN ws = 1 .. N /\ \A i \in DOMAIN ops : ops[i].op = "write"
      /\ \A i \in 1 .. N : /\ ws[i].place = Block(Ascending(B)[i])
                           /\ ws[i].value = d[Ascending(B)[i]] /\ Ascending(B)[i] \in B
  <2>1. ASSUME NEW i \in 1 .. N
        PROVE  /\ ops[i].op = "write"
               /\ ops[i].writes[1] = At(Block(Ascending(B)[i]), d[Ascending(B)[i]])
    BY <1>4 DEF Write, Op
  <2>2. DOMAIN ws = 1 .. N /\ \A i \in 1 .. N : ws[i] = ops[i].writes[1]
    BY <1>4
  <2> HIDE DEF ws
  <2>3. ASSUME NEW i \in 1 .. N
        PROVE  ws[i].place = Block(Ascending(B)[i]) /\ ws[i].value = d[Ascending(B)[i]]
    <3>1. ws[i] = At(Block(Ascending(B)[i]), d[Ascending(B)[i]])
      BY <2>1, <2>2
    <3>2. QED
      BY <3>1 DEF At
  <2>4. QED
    BY <1>4, <2>1, <2>2, <2>3
<1>6. u = Written(p, ws)
  BY DEF Replayed, ops
<1> HIDE DEF ws, u
<1>7. DOMAIN p = Places
  BY DEF FileIn, FileOK
<1>8. \A q \in Places :
        u[q] = IF WritesAt(ws, q) = {} THEN p[q] ELSE ws[Max(WritesAt(ws, q))].value
  BY <1>6, <1>7 DEF Written
<1>9. u[HEADER] = p[HEADER]
  <2>1. WritesAt(ws, HEADER) = {}
    BY <1>5, PlaceFacts DEF WritesAt
  <2>2. QED
    BY <1>8, <2>1, PlaceFacts
<1>10. ASSUME NEW b \in DOMAIN d PROVE u[Block(b)] = d[b]
  <2>1. Block(b) \in Places
    BY ImageFacts, PlaceFacts
  <2>2. CASE b \in B
    <3>1. PICK i \in 1 .. N : Ascending(B)[i] = b
      BY <1>4, <2>2
    <3>2. i \in WritesAt(ws, Block(b))
      BY <1>5, <3>1 DEF WritesAt
    <3>3. WritesAt(ws, Block(b)) \in SUBSET (1 .. N)
      BY <1>5 DEF WritesAt
    <3>4. Max(WritesAt(ws, Block(b))) \in WritesAt(ws, Block(b))
      BY <1>4, <3>2, <3>3, MaxFacts
    <3>5. PICK m \in 1 .. N : m = Max(WritesAt(ws, Block(b))) /\ ws[m].place = Block(b)
      BY <1>5, <3>4 DEF WritesAt
    <3>6. Ascending(B)[m] = b
      BY <1>5, <3>5, PlaceFacts
    <3>7. u[Block(b)] = ws[m].value
      BY <1>8, <2>1, <3>2, <3>5
    <3>8. QED
      BY <1>5, <3>6, <3>7
  <2>3. CASE b \notin B
    <3>1. WritesAt(ws, Block(b)) = {}
      BY <1>5, <2>3, PlaceFacts DEF WritesAt
    <3>2. QED
      BY <1>8, <2>1, <2>3, <3>1 DEF FileFits
  <2>4. QED
    BY <2>2, <2>3
<1>11. PrimaryImage(u) = d
  <2>1. Len(d) \in Nat /\ DOMAIN d = 1 .. Len(d) /\ d = [i \in 1 .. Len(d) |-> d[i]]
    BY ImageFacts DEF Images
  <2>2. PrimaryImage(u) = [i \in 1 .. Len(d) |-> u[Block(i)]]
    BY <1>2, <1>9 DEF PrimaryImage
  <2>3. \A i \in 1 .. Len(d) : u[Block(i)] = d[i]
    BY <1>10, <2>1
  <2>4. QED
    BY <2>1, <2>2, <2>3
<1>12. QED
  BY <1>5, <1>11 DEF ops, u

\* What the types say of a covered image.
LEMMA CoveredFacts ==
  ASSUME Types, NEW d, NEW B, Covered(d, B)
  PROVE  /\ d \in Images /\ d # << >> /\ B \in SUBSET DOMAIN d /\ DOMAIN d \subseteq Blocks
         /\ Len(d) \in 1 .. MaxLength /\ DOMAIN d = 1 .. Len(d)
         /\ FileIn("PRIMARY", disk["PRIMARY"]) /\ pending["PRIMARY"] \in Seq(WritesTo("PRIMARY"))
         /\ FileIn("LOG", disk["LOG"]) /\ View("LOG") = disk["LOG"]
         /\ FileIn("PRIMARY", View("PRIMARY")) /\ FileFits(View("PRIMARY"), d, B)
<1>1. d \in Images /\ d # << >> /\ B \in SUBSET DOMAIN d
  BY DEF Covered, Types
<1>2. DOMAIN d \subseteq Blocks /\ Len(d) \in 1 .. MaxLength /\ DOMAIN d = 1 .. Len(d)
  BY <1>1, ImageFacts
<1>3. /\ FileIn("PRIMARY", disk["PRIMARY"]) /\ pending["PRIMARY"] \in Seq(WritesTo("PRIMARY"))
      /\ FileIn("LOG", disk["LOG"]) /\ FileIn("PRIMARY", View("PRIMARY"))
  BY TypesFacts DEF Files
<1>4. View("LOG") = disk["LOG"]
  <2>1. disk["LOG"] = [p \in Places |-> disk["LOG"][p]] /\ pending["LOG"] = << >>
    BY <1>3 DEF FileIn, Covered
  <2>2. QED
    BY <2>1, WrittenNothing DEF View
<1>5. FileFits(View("PRIMARY"), d, B)
  BY <1>2, <1>3, WrittenFits DEF Covered, View
<1>6. QED
  BY <1>1, <1>2, <1>3, <1>4, <1>5

\* The invariant gives the property.
LEMMA SafeCovers ==
  ASSUME IInv, LogSafe
  PROVE  LogCoversUntilFailure
<1> SUFFICES ASSUME NoFaults, NEW p \in Outcomes(disk["PRIMARY"], pending["PRIMARY"]),
                    NEW log \in Outcomes(disk["LOG"], pending["LOG"])
             PROVE  Covers(p, log)
  BY DEF LogCoversUntilFailure, LogCovers, NoFaults
<1>1. Types
  BY DEF IInv
<1>2. CASE Quiet
  <2>1. disk["PRIMARY"] = [q \in Places |-> disk["PRIMARY"][q]]
    BY <1>1, TypesFacts DEF FileIn, Files
  <2>2. p = disk["PRIMARY"]
    BY <1>2, <2>1, OutcomesNothing DEF Quiet, Settles
  <2>3. QED
    BY <1>2, <2>2 DEF Quiet, Settles, Sound, Covers
<1>3. CASE \E d, B : Covered(d, B) /\ Repairs(d, B)
  <2>1. PICK d, B : Covered(d, B)
    BY <1>3
  <2>2. log = disk["LOG"]
    <3>1. disk["LOG"] = [q \in Places |-> disk["LOG"][q]]
      BY <1>1, TypesFacts DEF FileIn, Files
    <3>2. QED
      BY <2>1, <3>1, OutcomesNothing DEF Covered
  <2>3. FileIn("PRIMARY", p)
    BY <1>1, <2>1, CoveredFacts, OutcomesOK
  <2>4. FileFits(p, d, B)
    BY <1>1, <2>1, CoveredFacts, OutcomesFit DEF Covered
  <2>5. LogHolds(log, d, B) /\ d \in attempts \cup {promised}
    BY <2>1, <2>2 DEF Covered
  <2>6. QED
    BY <1>1, <2>1, <2>3, <2>4, <2>5, CoveredFacts, ReplayGives
<1>4. QED
  BY <1>2, <1>3 DEF LogSafe

-----------------------------------------------------------------------------
(* Failures *)

\* Failures are used up: while none has happened, none happens.
LEMMA FaultsStep ==
  ASSUME FaultsOK, [Next]_vars
  PROVE  /\ FaultsOK'
         /\ NoFaults' => NoFaults /\ faults' = faults
<1>1. /\ faults = [sync |-> faults.sync, load |-> faults.load]
      /\ faults.sync \in 0 .. MaxSyncFaults /\ faults.load \in 0 .. MaxLoadFaults
  BY DEF FaultsOK
<1>2. MaxSyncFaults \in Nat /\ MaxLoadFaults \in Nat
  BY BoundsAssumption
<1>3. CASE faults' = faults
  BY <1>3 DEF FaultsOK, NoFaults
<1>4. CASE faults.load > 0 /\ faults' = [faults EXCEPT !.load = @ - 1]
  <2>1. faults' = [sync |-> faults.sync, load |-> faults.load - 1]
    BY <1>1, <1>4
  <2>2. QED
    BY <1>1, <1>2, <1>4, <2>1 DEF FaultsOK, NoFaults
<1>5. CASE faults.sync > 0 /\ faults' = [faults EXCEPT !.sync = @ - 1]
  <2>1. faults' = [sync |-> faults.sync - 1, load |-> faults.load]
    BY <1>1, <1>5
  <2>2. QED
    BY <1>1, <1>2, <1>5, <2>1 DEF FaultsOK, NoFaults
<1>6. CASE HvLoadHive
  BY <1>3, <1>4, <1>6 DEF HvLoadHive
<1>7. CASE StepFails
  BY <1>3, <1>4, <1>5, <1>7 DEF StepFails
<1>8. CASE ~HvLoadHive /\ ~StepFails
  <2>1. faults' = faults
    BY <1>8 DEF Next, vars, HvMarkCellDirty, HvpAddBin, Change, HvSyncHive, HvWriteHive,
                HvWriteAlternateHive, Save, StepSucceeds, SaveReturns, HeaderRecovered,
                DataRecovered, LoadReturns, Crash
  <2>2. QED
    BY <1>3, <2>1
<1>9. QED
  BY <1>6, <1>7, <1>8

\* An operation that fails, and is not a refusal of the call itself, uses one up.
LEMMA FailureUses ==
  ASSUME FaultsOK, StepFails, faults' = faults
  PROVE  Step.op = "error"
<1> SUFFICES ASSUME Step.op # "error" PROVE FALSE
  OBVIOUS
<1>1. /\ faults = [sync |-> faults.sync, load |-> faults.load]
      /\ faults.sync \in 0 .. MaxSyncFaults /\ faults.load \in 0 .. MaxLoadFaults
  BY DEF FaultsOK
<1>2. MaxSyncFaults \in Nat /\ MaxLoadFaults \in Nat
  BY BoundsAssumption
<1>3. \/ faults' = [faults EXCEPT !.load = @ - 1]
      \/ faults' = [faults EXCEPT !.sync = @ - 1]
  BY DEF StepFails
<1>4. faults'.load = faults.load - 1 \/ faults'.sync = faults.sync - 1
  BY <1>1, <1>3
<1>5. QED
  BY <1>1, <1>2, <1>4

\* Nothing fails while the log covers the primary file.
LEMMA NothingFails ==
  ASSUME IInv, FaultsOK, NoFaults, LogSafe, StepFails
  PROVE  faults' # faults
<1> SUFFICES ASSUME faults' = faults PROVE FALSE
  OBVIOUS
<1>1. Step.op = "error" /\ call.steps # << >>
  BY FailureUses DEF StepFails
<1>2. Replaying /\ status = "Loading"
  BY <1>1, StepAllowed DEF Replaying, RecoveryCalls
<1>3. ~Quiet
  BY <1>2 DEF Quiet, WritesLog, Replaying, RecoveryCalls, NoCall
<1>4. PICK d, B : Covered(d, B) /\ Repairs(d, B)
  BY <1>3 DEF LogSafe
<1>5. \A i \in DOMAIN call.steps : ReplayOp(call.steps[i], d, B)
  BY <1>2, <1>4 DEF Repairs, Replaying, RecoveryCalls
<1>6. 1 \in DOMAIN call.steps /\ Step = call.steps[1]
  BY <1>1, StepFacts DEF IInv
<1>7. QED
  BY <1>1, <1>5, <1>6 DEF ReplayOp

-----------------------------------------------------------------------------
(* Calls that leave the primary file alone *)

\* A hive that is not busy is settled.
LEMMA IdleQuiet ==
  ASSUME LogSafe, NoFaults, Idle
  PROVE  Quiet
BY NoCallTypes DEF LogSafe, Idle, Repairs

\* A settled hive is settled after a step that leaves the primary file alone.
LEMMA SettlesStays ==
  ASSUME Settles, disk'["PRIMARY"] = disk["PRIMARY"], pending'["PRIMARY"] = pending["PRIMARY"]
  PROVE  Settles'
BY DEF Settles

\* A change leaves the files alone.
LEMMA ChangeSafe ==
  ASSUME LogSafe, NoFaults, NEW data, NEW b, Change(data, b)
  PROVE  LogSafe'
<1>1. Quiet /\ call = NoCall /\ UNCHANGED <<call, disk, pending>>
  BY IdleQuiet DEF Change, Idle
<1>2. Settles'
  BY <1>1, SettlesStays DEF Quiet
<1>3. QED
  BY <1>1, <1>2 DEF LogSafe, Quiet

\* The operations of HvSyncHive depend on the image, the dirty blocks and the first number.
LEMMA SyncOpsSame ==
  ASSUME NEW g, NEW h, g.Data = h.Data, g.Dirty = h.Dirty, g.Sequence1 = h.Sequence1
  PROVE  SyncOps(g) = SyncOps(h)
BY DEF SyncOps, HvpWriteLog, HvpWriteHive

\* A save that starts has all of the log before it.
LEMMA SyncSafe ==
  ASSUME IInv, LogSafe, NoFaults, HvSyncHive
  PROVE  LogSafe'
<1>1. /\ Quiet /\ UNCHANGED <<fileType, hive, disk, pending>>
      /\ call' = [name |-> "HvSyncHive", base |-> None, steps |-> SyncOps(hive)]
      /\ hive.Sequence1 < MaxSequence /\ Idle
  BY IdleQuiet DEF HvSyncHive, Save
<1>2. Settles'
  BY <1>1, SettlesStays DEF Quiet
<1>3. /\ hive.Data \in Images /\ hive.Dirty \subseteq DOMAIN hive.Data
      /\ hive.Sequence1 \in Sequences
  BY TypesFacts DEF IInv
<1>4. hive.Sequence1 \in 0 .. MaxSequence
  BY <1>1, <1>3, BoundsAssumption DEF Sequences
<1>5. hive.Data # << >>
  BY <1>1 DEF IInv, CallsOK, Idle
<1>6. Cardinality(hive.Dirty) \in Nat
  <2>1. PICK N \in Nat : WriteLogShape(HvpWriteLog(hive), N, hive)
    BY <1>1, <1>3, <1>5, WriteLogFacts
  <2>2. QED
    BY <2>1 DEF WriteLogShape
<1> DEFINE ops == SyncOps(hive)
<1>7. ops \in Seq(Operation)
  BY <1>1, <1>3, <1>5, SyncPlan DEF SyncShape, PlanIn
<1> HIDE DEF ops
<1>8. Suffix(ops, ops, 0)
  BY <1>7 DEF Suffix
<1>9. PICK h : h = [hive EXCEPT !.Sequence1 = hive.Sequence1]
  OBVIOUS
<1>10. h.Data = hive.Data /\ h.Dirty = hive.Dirty /\ h.Sequence1 = hive.Sequence1
  BY <1>9, TypesFacts DEF IInv
<1>11. SyncOps(h) = ops
  BY <1>10, SyncOpsSame DEF ops
<1>12. WritesLog'
  <2>1. SyncOps(h)' = SyncOps(h)
    BY <1>1 DEF SyncOps, Log, Alternate
  <2>2. PICK s \in 0 .. MaxSequence : s = hive.Sequence1
    BY <1>4
  <2>3. Suffix(call'.steps, SyncOps(h)', 0)
    BY <1>1, <1>8, <1>11, <2>1 DEF ops
  <2>4. h = [hive' EXCEPT !.Sequence1 = s]
    BY <1>1, <1>9, <2>2
  <2>5. LogOf(View("LOG")', 0, hive'.Data, hive'.Dirty, s)
    BY <1>6, <1>1 DEF LogOf
  <2>6. 0 \in 0 .. Cardinality(hive'.Dirty) + 3
    BY <1>1, <1>6
  <2>7. QED
    BY <1>1, <2>2, <2>3, <2>4, <2>5, <2>6 DEF WritesLog
<1>13. QED
  BY <1>2, <1>12 DEF LogSafe, Quiet

-----------------------------------------------------------------------------
(* The operations on the log *)

(***************************************************************************)
(* A sync of the hive h that has done k operations: the rest of the N + 4  *)
(* operations on the log, and then operations on the primary file.         *)
(***************************************************************************)
LogGoesOn(st, h, k, N, s) ==
  /\ h.Data = hive.Data /\ h.Dirty = hive.Dirty /\ h.Sequence1 = s
  /\ s \in 0 .. MaxSequence /\ s < MaxSequence /\ k \in 0 .. N + 3
  /\ Suffix(st, SyncOps(h), k) /\ LogOf(View("LOG"), k, hive.Data, hive.Dirty, s)
  /\ WriteLogShape(HvpWriteLog(h), N, h)
  /\ N + 4 <= Len(SyncOps(h))
  /\ \A i \in 1 .. N + 4 : SyncOps(h)[i] = HvpWriteLog(h)[i]
  /\ \A i \in DOMAIN SyncOps(h) : i > N + 4 => AtPrimary(SyncOps(h)[i])

\* A sync that is about to write to its log goes on in that way.
LEMMA LogPlan ==
  ASSUME IInv, Log, WritesLog
  PROVE  \E h, k, N, s : LogGoesOn(call.steps, h, k, N, s)
<1>1. PICK s \in 0 .. MaxSequence, k \in 0 .. Cardinality(hive.Dirty) + 3 :
        /\ s < MaxSequence
        /\ Suffix(call.steps, SyncOps([hive EXCEPT !.Sequence1 = s]), k)
        /\ LogOf(View("LOG"), k, hive.Data, hive.Dirty, s)
  BY DEF WritesLog
<1>2. PICK h : h = [hive EXCEPT !.Sequence1 = s]
  OBVIOUS
<1>3. h.Data = hive.Data /\ h.Dirty = hive.Dirty /\ h.Sequence1 = s
  BY <1>2, TypesFacts DEF IInv
<1>4. h.Data \in Images /\ h.Data # << >> /\ h.Dirty \subseteq DOMAIN h.Data
  BY <1>3, TypesFacts DEF IInv, CallsOK, SavesPrimary, WritesLog
<1>5. s \in Sequences
  BY BoundsAssumption DEF Sequences
<1>6. \E a, M, ops, n : SyncShape(SyncOps(h), h, a, ops, M, n)
  BY <1>1, <1>3, <1>4, <1>5, SyncPlan
<1>7. PICK a, M, ops, n : SyncShape(SyncOps(h), h, a, ops, M, n)
  BY <1>6
<1>8. PICK N \in Nat : a = N + 4 /\ WriteLogShape(HvpWriteLog(h), N, h)
  BY <1>7 DEF SyncShape
<1>9. /\ \A i \in 1 .. a : i \in DOMAIN SyncOps(h) /\ SyncOps(h)[i] = HvpWriteLog(h)[i]
      /\ DOMAIN SyncOps(h) = 1 .. a + M + 4
  BY <1>7 DEF SyncShape
<1>10. PlanIn(SyncOps(h), a, ops, M, h, n, h.Dirty, "return")
  BY <1>7 DEF SyncShape
<1>11. /\ WriteHiveShape(ops, M, h, n, h.Dirty, "PRIMARY", "return")
       /\ M \in Nat /\ DOMAIN ops = 1 .. M + 4 /\ SyncOps(h) \in Seq(Operation)
       /\ \A i \in 1 .. M + 4 : SyncOps(h)[a + i] = ops[i]
  <2>1. /\ WriteHiveShape(ops, M, h, n, h.Dirty, "PRIMARY", "return")
        /\ SyncOps(h) \in Seq(Operation)
        /\ \A i \in 1 .. M + 4 : SyncOps(h)[a + i] = ops[i]
    BY <1>10 DEF PlanIn
  <2>2. M \in Nat /\ ops \in Seq(Operation) /\ Len(ops) = M + 4
    BY <2>1 DEF WriteHiveShape
  <2>3. QED
    BY <2>1, <2>2
<1>12. \A i \in DOMAIN ops : AtPrimary(ops[i])
  BY <1>11, ShapeOps DEF AtPrimary
<1>13. ASSUME NEW i \in DOMAIN SyncOps(h), i > N + 4 PROVE AtPrimary(SyncOps(h)[i])
  <2>1. PICK m \in 1 .. M + 4 : i = a + m
    <3>1. i - a \in 1 .. M + 4 /\ i = a + (i - a)
      BY <1>8, <1>9, <1>11, <1>13
    <3>2. QED
      BY <3>1
  <2>2. SyncOps(h)[i] = ops[m]
    BY <1>11, <2>1
  <2>3. QED
    BY <1>11, <1>12, <2>2
<1>14. N = Cardinality(hive.Dirty)
  BY <1>3, <1>8 DEF WriteLogShape
<1>15. N + 4 <= Len(SyncOps(h))
  <2>1. Len(SyncOps(h)) \in Nat /\ DOMAIN SyncOps(h) = 1 .. Len(SyncOps(h))
    BY <1>11
  <2>2. N + 4 \in DOMAIN SyncOps(h)
    BY <1>8, <1>9
  <2>3. QED
    BY <2>1, <2>2
<1>16. \A i \in 1 .. N + 4 : SyncOps(h)[i] = HvpWriteLog(h)[i]
  BY <1>8, <1>9
<1> QED
  BY <1>1, <1>2, <1>3, <1>8, <1>13, <1>14, <1>15, <1>16 DEF LogGoesOn

\* What remains after a step, of the operations that remained before it.
LEMMA SuffixTail ==
  ASSUME NEW S, NEW st \in Seq(S), st # << >>, NEW ops \in Seq(S), NEW k, Suffix(st, ops, k)
  PROVE  /\ Head(st) = ops[k + 1] /\ k + 1 \in 1 .. Len(ops)
         /\ Suffix(Tail(st), ops, k + 1)
<1>1. /\ k \in 0 .. Len(ops) /\ Len(st) = Len(ops) - k /\ Len(ops) \in Nat /\ Len(st) \in Nat
      /\ DOMAIN st = 1 .. Len(st)
      /\ \A i \in DOMAIN st : st[i] = ops[k + i]
  BY DEF Suffix
<1>2. /\ Head(st) = st[1] /\ 1 \in DOMAIN st /\ Tail(st) \in Seq(S)
      /\ \A i \in DOMAIN Tail(st) : i \in Nat /\ i + 1 \in DOMAIN st /\ Tail(st)[i] = st[i + 1]
  BY TailFacts
<1>3. Len(Tail(st)) = Len(st) - 1
  OBVIOUS
<1>4. \A i \in DOMAIN Tail(st) : Tail(st)[i] = ops[k + 1 + i]
  <2> TAKE i \in DOMAIN Tail(st)
  <2>1. i \in Nat /\ Tail(st)[i] = ops[k + (i + 1)]
    BY <1>1, <1>2
  <2>2. k + (i + 1) = k + 1 + i
    BY <1>1, <2>1
  <2>3. QED
    BY <2>1, <2>2
<1>5. k + 1 \in 0 .. Len(ops) /\ k + 1 \in 1 .. Len(ops) /\ Len(Tail(st)) = Len(ops) - (k + 1)
  BY <1>1, <1>2, <1>3
<1>6. QED
  BY <1>1, <1>2, <1>4, <1>5 DEF Suffix

\* The operations of HvpWriteLog by their number.
LEMMA LogWrites ==
  ASSUME NEW ops, NEW N, NEW h, WriteLogShape(ops, N, h), NEW k \in 0 .. N + 3
  PROVE  /\ N \in Nat /\ N = Cardinality(h.Dirty) /\ ops[k + 1].file = "LOG"
         /\ k = 0 =>
              /\ ops[k + 1].op = "write"
              /\ ops[k + 1].writes =
                   <<At(HEADER, LogHeader(h.Data, h.Sequence1 + 1, h.Sequence1)), At(BITMAP, h.Dirty)>>
         /\ k \in 1 .. N =>
              /\ ops[k + 1].op = "write"
              /\ ops[k + 1].writes = <<At(Block(k), h.Data[Ascending(h.Dirty)[k]])>>
         /\ k \in {N + 1, N + 3} => ops[k + 1].op = "flush"
         /\ k = N + 2 =>
              /\ ops[k + 1].op = "write"
              /\ ops[k + 1].writes =
                   <<At(HEADER, LogHeader(h.Data, h.Sequence1 + 1, h.Sequence1 + 1))>>
<1> DEFINE s == h.Sequence1
<1>1. /\ N = Cardinality(h.Dirty) /\ N \in Nat /\ Len(ops) = N + 4 /\ ops \in Seq(Operation)
      /\ ops[1] = Write("LOG", <<At(HEADER, LogHeader(h.Data, s + 1, s)), At(BITMAP, h.Dirty)>>,
                        s + 1, s, "return")
      /\ \A i \in 1 .. N :
           ops[i + 1] = Write("LOG", <<At(Block(i), h.Data[Ascending(h.Dirty)[i]])>>, s + 1, s, "return")
      /\ ops[N + 2] = Flush("LOG", s + 1, s, "return")
      /\ ops[N + 3] =
           Write("LOG", <<At(HEADER, LogHeader(h.Data, s + 1, s + 1))>>, s + 1, s + 1, "return")
      /\ ops[N + 4] = Flush("LOG", s + 1, s + 1, "return")
  BY DEF WriteLogShape
<1> HIDE DEF s
<1>2. ops[k + 1].file = "LOG"
  <2>1. k + 1 \in DOMAIN ops
    BY <1>1
  <2>2. QED
    BY <2>1, LogOps
<1>3. CASE k = 0
  <2>1. ops[k + 1] = Write("LOG", <<At(HEADER, LogHeader(h.Data, s + 1, s)), At(BITMAP, h.Dirty)>>,
                           s + 1, s, "return")
    BY <1>1, <1>3
  <2>2. k \notin 1 .. N /\ k # N + 1 /\ k # N + 2 /\ k # N + 3
    BY <1>1, <1>3
  <2>3. QED
    BY <1>1, <1>2, <2>1, <2>2 DEF Write, Op, s
<1>4. CASE k \in 1 .. N
  <2>1. ops[k + 1] = Write("LOG", <<At(Block(k), h.Data[Ascending(h.Dirty)[k]])>>, s + 1, s, "return")
    BY <1>1, <1>4
  <2>2. k # 0 /\ k # N + 1 /\ k # N + 2 /\ k # N + 3
    BY <1>1, <1>4
  <2>3. QED
    BY <1>1, <1>2, <2>1, <2>2 DEF Write, Op
<1>5. CASE k = N + 1
  <2>1. k + 1 = N + 2 /\ k # 0 /\ k \notin 1 .. N /\ k # N + 2
    BY <1>1, <1>5
  <2>2. ops[k + 1] = Flush("LOG", s + 1, s, "return")
    BY <1>1, <2>1
  <2>3. QED
    BY <1>1, <1>2, <2>1, <2>2 DEF Flush, Op
<1>6. CASE k = N + 2
  <2>1. k + 1 = N + 3 /\ k # 0 /\ k \notin 1 .. N /\ k # N + 1 /\ k # N + 3
    BY <1>1, <1>6
  <2>2. ops[k + 1] =
          Write("LOG", <<At(HEADER, LogHeader(h.Data, s + 1, s + 1))>>, s + 1, s + 1, "return")
    BY <1>1, <2>1
  <2>3. QED
    BY <1>1, <1>2, <2>1, <2>2 DEF Write, Op, s
<1>7. CASE k = N + 3
  <2>1. k + 1 = N + 4 /\ k # 0 /\ k \notin 1 .. N /\ k # N + 2
    BY <1>1, <1>7
  <2>2. ops[k + 1] = Flush("LOG", s + 1, s + 1, "return")
    BY <1>1, <2>1
  <2>3. QED
    BY <1>1, <1>2, <2>1, <2>2 DEF Flush, Op
<1>8. QED
  <2>1. k = 0 \/ k \in 1 .. N \/ k = N + 1 \/ k = N + 2 \/ k = N + 3
    BY <1>1
  <2>2. QED
    BY <2>1, <1>3, <1>4, <1>5, <1>6, <1>7

\* One operation more.
LEMMA LogOfNext ==
  ASSUME NEW ops, NEW N, NEW h, WriteLogShape(ops, N, h), N <= MaxLength, NEW k \in 0 .. N + 3,
         NEW v, v = [p \in Places |-> v[p]], LogOf(v, k, h.Data, h.Dirty, h.Sequence1)
  PROVE  /\ ops[k + 1].op # "flush" =>
              LogOf(Written(v, ops[k + 1].writes), k + 1, h.Data, h.Dirty, h.Sequence1)
         /\ ops[k + 1].op = "flush" => LogOf(v, k + 1, h.Data, h.Dirty, h.Sequence1)
<1> DEFINE d == h.Data
           B == h.Dirty
           s == h.Sequence1
           hd == LogHeader(d, s + 1, s + 1)
<1>1. N \in Nat /\ N = Cardinality(B)
  BY LogWrites
<1>2. /\ k >= 1 => v[BITMAP] = B
      /\ \A i \in 1 .. N : k >= i + 1 => v[Block(i)] = d[Ascending(B)[i]]
      /\ k >= N + 3 => v[HEADER] = hd
  BY <1>1 DEF LogOf, LogHeader
<1> DEFINE Goal(u) == LogOf(u, k + 1, d, B, s)
<1>3. ASSUME NEW u, u[BITMAP] = B,
             \A i \in 1 .. N : k + 1 >= i + 1 => u[Block(i)] = d[Ascending(B)[i]],
             k + 1 >= N + 3 => u[HEADER] = hd
      PROVE  Goal(u)
  BY <1>1, <1>3 DEF LogOf, LogHeader
<1> HIDE DEF Goal, hd
<1>4. CASE k = 0
  <2> DEFINE u == Written(v, ops[k + 1].writes)
             a == At(HEADER, LogHeader(d, s + 1, s))
             c == At(BITMAP, B)
             ws == <<a, c>>
  <2>1. ops[k + 1].op = "write" /\ ops[k + 1].writes = ws
    BY <1>4, LogWrites
  <2>2. a.place # BITMAP /\ c.place = BITMAP /\ c.value = B
    BY PlaceFacts DEF At
  <2> HIDE DEF a, c
  <2>3. WritesAt(ws, BITMAP) = {2}
    BY <2>2 DEF WritesAt
  <2>4. Max({2}) = 2
    <3>1. {2} \in SUBSET (1 .. 2) /\ {2} # {} /\ 2 \in Nat
      OBVIOUS
    <3>2. Max({2}) \in {2}
      BY <3>1, MaxFacts
    <3>3. QED
      BY <3>2
  <2>5. u[BITMAP] = B
    <3>1. u = Written(v, ws)
      BY <2>1
    <3>2. BITMAP \in DOMAIN v
      BY PlaceFacts
    <3>3. u[BITMAP] = ws[Max({2})].value
      BY <2>3, <3>1, <3>2 DEF Written
    <3>4. QED
      BY <2>2, <2>4, <3>3
  <2> HIDE DEF u
  <2>6. Goal(u)
    BY <1>1, <1>3, <1>4, <2>5
  <2>7. QED
    BY <2>1, <2>6 DEF u, Goal
<1>5. CASE k \in 1 .. N
  <2> DEFINE u == Written(v, ops[k + 1].writes)
  <2>1. /\ ops[k + 1].op = "write"
        /\ u = Written(v, <<At(Block(k), d[Ascending(B)[k]])>>)
    BY <1>5, LogWrites
  <2> HIDE DEF u
  <2>2. Block(k) \in Places
    <3>1. k \in Blocks
      BY <1>1, <1>5, BoundsAssumption DEF Blocks
    <3>2. QED
      BY <3>1, PlaceFacts
  <2>3. u[Block(k)] = d[Ascending(B)[k]] /\ \A p \in Places : p # Block(k) => u[p] = v[p]
    BY <2>1, <2>2, OneWrite
  <2>4. u[BITMAP] = B
    BY <1>1, <1>2, <1>5, <2>3, PlaceFacts
  <2>5. ASSUME NEW i \in 1 .. N, k + 1 >= i + 1 PROVE u[Block(i)] = d[Ascending(B)[i]]
    <3>1. CASE i = k
      BY <2>3, <3>1
    <3>2. CASE i # k
      <4>1. k >= i + 1
        BY <1>1, <1>5, <2>5, <3>2
      <4>2. i \in Blocks
        BY <1>1, BoundsAssumption DEF Blocks
      <4>3. Block(i) \in Places /\ Block(i) # Block(k)
        BY <3>2, <4>2, PlaceFacts
      <4>4. QED
        BY <1>2, <2>3, <4>1, <4>3
    <3>3. QED
      BY <3>1, <3>2
  <2>6. ~(k + 1 >= N + 3)
    BY <1>1, <1>5
  <2>7. Goal(u)
    BY <1>3, <2>4, <2>5, <2>6
  <2>8. QED
    BY <2>1, <2>7 DEF u, Goal
<1>6. CASE k = N + 1
  <2>1. ops[k + 1].op = "flush"
    BY <1>6, LogWrites
  <2>2. Goal(v)
    BY <1>1, <1>2, <1>3, <1>6
  <2>3. QED
    BY <2>1, <2>2 DEF Goal
<1>7. CASE k = N + 2
  <2> DEFINE u == Written(v, ops[k + 1].writes)
  <2>1. ops[k + 1].op = "write" /\ u = Written(v, <<At(HEADER, hd)>>)
    BY <1>7, LogWrites DEF hd
  <2> HIDE DEF u
  <2>2. u[HEADER] = hd /\ \A p \in Places : p # HEADER => u[p] = v[p]
    BY <2>1, PlaceFacts, OneWrite
  <2>3. u[BITMAP] = B
    BY <1>1, <1>2, <1>7, <2>2, PlaceFacts
  <2>4. ASSUME NEW i \in 1 .. N PROVE u[Block(i)] = d[Ascending(B)[i]]
    <3>1. i \in Blocks /\ k >= i + 1
      BY <1>1, <1>7, BoundsAssumption DEF Blocks
    <3>2. Block(i) \in Places /\ Block(i) # HEADER
      BY <3>1, PlaceFacts
    <3>3. QED
      BY <1>2, <2>2, <3>1, <3>2
  <2>5. Goal(u)
    BY <1>3, <2>2, <2>3, <2>4
  <2>6. QED
    BY <2>1, <2>5 DEF u, Goal
<1>8. CASE k = N + 3
  <2>1. ops[k + 1].op = "flush"
    BY <1>8, LogWrites
  <2>2. v[BITMAP] = B /\ v[HEADER] = hd
    BY <1>1, <1>2, <1>8
  <2>3. \A i \in 1 .. N : v[Block(i)] = d[Ascending(B)[i]]
    <3> TAKE i \in 1 .. N
    <3>1. k >= i + 1
      BY <1>1, <1>8
    <3>2. QED
      BY <1>2, <3>1
  <2>4. Goal(v)
    BY <1>3, <2>2, <2>3
  <2>5. QED
    BY <2>1, <2>4 DEF Goal
<1>9. QED
  <2>1. k = 0 \/ k \in 1 .. N \/ k = N + 1 \/ k = N + 2 \/ k = N + 3
    BY <1>1
  <2>2. QED
    BY <2>1, <1>4, <1>5, <1>6, <1>7, <1>8

\* A settled primary file has all the blocks that are not dirty.
LEMMA SettledFits ==
  ASSUME IInv, Settles, call.name = "HvSyncHive"
  PROVE  FileFits(disk["PRIMARY"], hive.Data, hive.Dirty)
<1>1. SavesPrimary /\ ToSave = hive.Dirty
  BY DEF SavesPrimary, ToSave
<1>2. PICK s : Progress(call.steps, hive.Data, ToSave, s, View("PRIMARY"))
  BY <1>1, SaveFacts
<1>3. \A b \in DOMAIN hive.Data \ hive.Dirty : View("PRIMARY")[Block(b)] = hive.Data[b]
  BY <1>1, <1>2, ProgressClean
<1>4. View("PRIMARY") = disk["PRIMARY"]
  <2>1. disk["PRIMARY"] = [p \in Places |-> disk["PRIMARY"][p]]
    BY <1>1, SaveFacts DEF FileIn
  <2>2. QED
    BY <2>1, WrittenNothing DEF Settles, View
<1>5. HeaderFits(disk["PRIMARY"][HEADER], Len(hive.Data))
  BY DEF Settles, Sound, HvpGetHiveHeader, HeaderFits
<1>6. QED
  BY <1>3, <1>4, <1>5 DEF FileFits

\* An operation on the log: the primary file is settled, or the log has been written
\* and flushed.
LEMMA LogStep ==
  ASSUME IInv, Log, Settles, WritesLog, StepSucceeds
  PROVE  Quiet' \/ \E d, B : Covered(d, B)' /\ Repairs(d, B)'
<1>1. PICK h, k, N, s : LogGoesOn(call.steps, h, k, N, s)
  BY LogPlan
<1> DEFINE all == SyncOps(h)
           log == HvpWriteLog(h)
           v == View("LOG")
           v1 == Written(disk'["LOG"], pending'["LOG"])
           d == hive.Data
           B == hive.Dirty
<1>2. /\ h.Data = d /\ h.Dirty = B /\ h.Sequence1 = s
      /\ s \in 0 .. MaxSequence /\ s < MaxSequence /\ k \in 0 .. N + 3
      /\ Suffix(call.steps, all, k) /\ LogOf(v, k, h.Data, h.Dirty, h.Sequence1)
      /\ WriteLogShape(log, N, h)
      /\ \A i \in 1 .. N + 4 : all[i] = log[i]
      /\ \A i \in DOMAIN all : i > N + 4 => AtPrimary(all[i])
      /\ N + 4 <= Len(all)
  BY <1>1 DEF LogGoesOn
<1>3. /\ d \in Images /\ B \subseteq DOMAIN d /\ DOMAIN d \subseteq Blocks
      /\ call.steps \in Seq(Operation) /\ FileIn("LOG", v) /\ FileIn("PRIMARY", disk["PRIMARY"])
  BY TypesFacts DEF IInv, Files
<1>4. call.steps # << >> /\ d # << >> /\ call.name = "HvSyncHive" /\ status = "Up"
      /\ d \in attempts
  BY DEF StepSucceeds, WritesLog, IInv, CallsOK, SavesPrimary, NoCall, Replaying, RecoveryCalls
<1>5. N \in Nat /\ N = Cardinality(B) /\ N <= MaxLength
  <2>1. N \in Nat /\ N = Cardinality(B)
    BY <1>2, LogWrites
  <2>2. IsFiniteSet(Blocks) /\ Cardinality(Blocks) = MaxLength
    <3>1. MaxLength \in Nat /\ 1 <= MaxLength
      BY BoundsAssumption
    <3>2. IsFiniteSet(1 .. MaxLength) /\ Cardinality(1 .. MaxLength) = MaxLength - 1 + 1
      BY <3>1, FS_Interval
    <3>3. QED
      BY <3>1, <3>2 DEF Blocks
  <2>3. Cardinality(B) <= Cardinality(Blocks)
    BY <1>3, <2>2, FS_Subset
  <2>4. QED
    BY <2>1, <2>2, <2>3
<1>6. all \in Seq(Operation)
  BY <1>2, <1>3, <1>4, SyncPlan, BoundsAssumption DEF SyncShape, PlanIn, Sequences
<1> HIDE DEF all, log, v, v1
<1>7. /\ Step = all[k + 1] /\ k + 1 \in 1 .. Len(all) /\ Suffix(Tail(call.steps), all, k + 1)
  BY <1>2, <1>3, <1>4, <1>6, SuffixTail DEF Step
<1>8. Step = log[k + 1]
  BY <1>2, <1>5, <1>7
<1>9. Step.file = "LOG"
  BY <1>2, <1>8, LogWrites
<1>10. /\ disk'["PRIMARY"] = disk["PRIMARY"] /\ pending'["PRIMARY"] = pending["PRIMARY"]
       /\ v1 = IF Step.op # "flush" THEN Written(v, Step.writes) ELSE v
       /\ Step.op = "flush" => disk'["LOG"] = v /\ pending'["LOG"] = << >>
  BY <1>9, StepFiles DEF IInv, Files, v, v1
<1>11. LogOf(v1, k + 1, h.Data, h.Dirty, h.Sequence1)
  <2>1. v = [p \in Places |-> v[p]]
    BY <1>3 DEF FileIn
  <2>2. CASE Step.op # "flush"
    BY <1>2, <1>5, <1>8, <1>10, <2>1, <2>2, LogOfNext
  <2>3. CASE Step.op = "flush"
    BY <1>2, <1>5, <1>8, <1>10, <2>1, <2>3, LogOfNext
  <2>4. QED
    BY <2>2, <2>3
<1>12. /\ call'.name = "HvSyncHive" /\ call'.steps = Tail(call.steps)
       /\ hive'.Data = d /\ hive'.Dirty = B /\ fileType' = fileType /\ status' = status
       /\ attempts' = attempts /\ promised' = promised
       /\ hive' \in [Data : Images, Dirty : SUBSET Blocks, Sequence1 : Sequences, Sequence2 : Sequences]
  <2>1. /\ hive' = [hive EXCEPT !.Sequence1 = Step.Sequence1, !.Sequence2 = Step.Sequence2]
        /\ call' = [call EXCEPT !.steps = Tail(@)]
        /\ UNCHANGED <<fileType, status, attempts, promised>>
    BY DEF StepSucceeds
  <2>2. /\ hive = [Data |-> hive.Data, Dirty |-> hive.Dirty,
                   Sequence1 |-> hive.Sequence1, Sequence2 |-> hive.Sequence2]
        /\ call = [name |-> call.name, base |-> call.base, steps |-> call.steps]
    BY TypesFacts DEF IInv
  <2>3. Step.Sequence1 \in Sequences /\ Step.Sequence2 \in Sequences
    BY <1>4, StepFacts DEF IInv
  <2>4. /\ hive' = [Data |-> d, Dirty |-> B, Sequence1 |-> Step.Sequence1, Sequence2 |-> Step.Sequence2]
        /\ call' = [name |-> call.name, base |-> call.base, steps |-> Tail(call.steps)]
    BY <2>1, <2>2
  <2>5. B \subseteq Blocks
    BY <1>3
  <2>6. QED
    BY <1>3, <1>4, <2>1, <2>3, <2>4, <2>5
<1>13. CASE k # N + 3
  <2>1. PICK g : g = [hive' EXCEPT !.Sequence1 = s]
    OBVIOUS
  <2>2. g.Data = h.Data /\ g.Dirty = h.Dirty /\ g.Sequence1 = h.Sequence1
    BY <1>2, <1>12, <2>1
  <2>3. SyncOps(g) = all
    BY <2>2, SyncOpsSame DEF all
  <2>4. SyncOps(g)' = SyncOps(g)
    BY <1>12 DEF SyncOps, Log, Alternate
  <2>5. k + 1 \in 0 .. Cardinality(hive'.Dirty) + 3
    BY <1>2, <1>5, <1>12, <1>13
  <2>6. Suffix(call'.steps, SyncOps(g)', k + 1)
    BY <1>7, <1>12, <2>3, <2>4
  <2>7. LogOf(View("LOG")', k + 1, hive'.Data, hive'.Dirty, s)
    BY <1>2, <1>11, <1>12 DEF View, v1
  <2>8. WritesLog'
    BY <1>2, <1>12, <2>1, <2>5, <2>6, <2>7 DEF WritesLog
  <2>9. Settles'
    BY <1>10, SettlesStays
  <2>10. QED
    BY <2>8, <2>9 DEF Quiet
<1>14. CASE k = N + 3
  <2>1. disk'["LOG"] = v1 /\ pending'["LOG"] = << >>
    <3>1. Step.op = "flush"
      BY <1>2, <1>8, <1>14, LogWrites
    <3>2. QED
      BY <1>10, <3>1
  <2>2. LogHolds(v1, d, B)
    <3>1. k + 1 >= 1 /\ k + 1 >= N + 3 /\ \A i \in 1 .. N : k + 1 >= i + 1
      BY <1>5, <1>14
    <3>2. /\ v1[BITMAP] = B /\ v1[HEADER] = Header(s + 1, s + 1, "LOG", Len(d))
          /\ \A i \in 1 .. Cardinality(B) : v1[Block(i)] = d[Ascending(B)[i]]
      BY <1>2, <1>5, <1>11, <3>1 DEF LogOf
    <3>3. s + 1 \in Sequences
      BY <1>2, BoundsAssumption DEF Sequences
    <3>4. Header(s + 1, s + 1, "LOG", Len(d)) \in HeaderType
      BY <1>3, <1>4, <3>3, HeaderTypes
    <3>5. HvpVerifyHiveHeader(v1[HEADER], "LOG") /\ v1[HEADER].Length = Len(d)
      BY <3>2, <3>4, Sentinels DEF HvpVerifyHiveHeader, Header
    <3>6. QED
      BY <3>2, <3>5 DEF LogHolds
  <2>3. FileFits(disk'["PRIMARY"], d, B) /\ pending'["PRIMARY"] = << >>
    BY <1>4, <1>10, SettledFits DEF Settles
  <2>4. PICK D, C : D = d /\ C = B
    OBVIOUS
  <2>5. Covered(D, C)'
    BY <1>3, <1>4, <1>12, <2>1, <2>2, <2>3, <2>4 DEF Covered
  <2>6. \A i \in DOMAIN Tail(call.steps) : AtPrimary(Tail(call.steps)[i])
    <3> TAKE i \in DOMAIN Tail(call.steps)
    <3>1. Len(all) \in Nat /\ DOMAIN all = 1 .. Len(all)
      BY <1>6
    <3>2. /\ Len(Tail(call.steps)) = Len(all) - (k + 1) /\ i \in 1 .. Len(Tail(call.steps))
          /\ Tail(call.steps)[i] = all[k + 1 + i]
      <4>1. Tail(call.steps) \in Seq(Operation)
        BY <1>4, StepFacts DEF IInv
      <4>2. QED
        BY <1>7, <4>1 DEF Suffix
    <3>3. k + 1 + i \in DOMAIN all /\ k + 1 + i > N + 4
      BY <1>5, <1>14, <3>1, <3>2
    <3>4. QED
      BY <1>2, <3>2, <3>3
  <2>7. Repairs(D, C)'
    <3>1. call'.name = "HvSyncHive" /\ hive'.Data = D /\ hive'.Dirty = C
      BY <1>12, <2>4
    <3>2. \A i \in DOMAIN call'.steps : AtPrimary(call'.steps[i])
      BY <1>12, <2>6
    <3>3. QED
      BY <3>1, <3>2 DEF Repairs, AtPrimary
  <2>8. QED
    BY <2>5, <2>7
<1>15. QED
  BY <1>13, <1>14

-----------------------------------------------------------------------------
(* The operations on the primary file *)

\* What a step does to all but the files.
LEMMA StepRest ==
  ASSUME Types, StepSucceeds
  PROVE  /\ call'.name = call.name /\ call'.base = call.base /\ call'.steps = Tail(call.steps)
         /\ hive'.Data = hive.Data /\ hive'.Dirty = hive.Dirty
         /\ fileType' = fileType /\ status' = status /\ attempts' = attempts /\ promised' = promised
<1>1. /\ hive' = [hive EXCEPT !.Sequence1 = Step.Sequence1, !.Sequence2 = Step.Sequence2]
      /\ call' = [call EXCEPT !.steps = Tail(@)]
      /\ UNCHANGED <<fileType, status, attempts, promised>>
  BY DEF StepSucceeds
<1>2. /\ hive = [Data |-> hive.Data, Dirty |-> hive.Dirty,
                 Sequence1 |-> hive.Sequence1, Sequence2 |-> hive.Sequence2]
      /\ call = [name |-> call.name, base |-> call.base, steps |-> call.steps]
  BY TypesFacts
<1>3. /\ hive' = [Data |-> hive.Data, Dirty |-> hive.Dirty,
                  Sequence1 |-> Step.Sequence1, Sequence2 |-> Step.Sequence2]
      /\ call' = [name |-> call.name, base |-> call.base, steps |-> Tail(call.steps)]
  BY <1>1, <1>2
<1>4. QED
  BY <1>1, <1>3

\* The log covers the primary file after an operation that writes what fits.
LEMMA CoveredStep ==
  ASSUME Types, StepSucceeds, NEW d, NEW B, Covered(d, B), AtPrimary(Step),
         Step.op # "flush" => \A i \in DOMAIN Step.writes : WriteFits(Step.writes[i], d, B)
  PROVE  Covered(d, B)'
<1>1. /\ disk'["LOG"] = disk["LOG"] /\ pending'["LOG"] = pending["LOG"]
      /\ Step.op = "flush" => disk'["PRIMARY"] = View("PRIMARY") /\ pending'["PRIMARY"] = << >>
      /\ Step.op # "flush" => /\ disk'["PRIMARY"] = disk["PRIMARY"]
                              /\ pending'["PRIMARY"] = pending["PRIMARY"] \o Step.writes
  BY StepFiles DEF AtPrimary, Files
<1>2. /\ d \in attempts \cup {promised} /\ d # << >> /\ B \subseteq DOMAIN d
      /\ pending["LOG"] = << >> /\ LogHolds(disk["LOG"], d, B)
      /\ FileFits(disk["PRIMARY"], d, B)
      /\ \A i \in DOMAIN pending["PRIMARY"] : WriteFits(pending["PRIMARY"][i], d, B)
  BY DEF Covered
<1>3. /\ FileFits(disk'["PRIMARY"], d, B)
      /\ \A i \in DOMAIN pending'["PRIMARY"] : WriteFits(pending'["PRIMARY"][i], d, B)
  <2>1. CASE Step.op = "flush"
    BY <1>1, <2>1, CoveredFacts
  <2>2. CASE Step.op # "flush"
    <3>1. PICK a, b : a = pending["PRIMARY"] /\ b = Step.writes
      OBVIOUS
    <3>2. a \in Seq(WritesTo("PRIMARY")) /\ b \in Seq(WritesTo("PRIMARY"))
      BY <3>1, CoveredFacts, StepFacts DEF AtPrimary, StepSucceeds
    <3>3. ASSUME NEW i \in DOMAIN (a \o b) PROVE WriteFits((a \o b)[i], d, B)
      <4>1. /\ Len(a) \in Nat /\ Len(b) \in Nat /\ i \in 1 .. Len(a) + Len(b)
            /\ DOMAIN a = 1 .. Len(a) /\ DOMAIN b = 1 .. Len(b)
        BY <3>2
      <4>2. CASE i <= Len(a)
        <5>1. (a \o b)[i] = a[i] /\ i \in DOMAIN a
          BY <3>2, <4>1, <4>2
        <5>2. QED
          BY <1>2, <3>1, <5>1
      <4>3. CASE i > Len(a)
        <5>1. (a \o b)[i] = b[i - Len(a)] /\ i - Len(a) \in DOMAIN b
          BY <3>2, <4>1, <4>3
        <5>2. QED
          BY <2>2, <3>1, <5>1
      <4>4. QED
        BY <4>1, <4>2, <4>3
    <3>4. pending'["PRIMARY"] = a \o b
      BY <1>1, <2>2, <3>1
    <3>5. QED
      BY <1>1, <1>2, <2>2, <3>3, <3>4
  <2>3. QED
    BY <2>1, <2>2
<1>4. attempts' = attempts /\ promised' = promised
  BY StepRest
<1>5. QED
  BY <1>1, <1>2, <1>3, <1>4 DEF Covered

\* The save that the log covers: the rest of its operations write what fits.
LEMMA SaveFits ==
  ASSUME IInv, SavesPrimary, call.steps # << >>, AtPrimary(Step), Step.op # "flush",
         NEW B, ToSave \subseteq B, NEW i \in DOMAIN Step.writes
  PROVE  WriteFits(Step.writes[i], hive.Data, B)
<1>1. PICK s : Progress(call.steps, hive.Data, ToSave, s, View("PRIMARY"))
  BY SaveFacts
<1>2. /\ call.steps \in Seq(Operation) /\ s \in Nat
      /\ Planned(call.steps, hive.Data, ToSave, s)
  BY <1>1, ProgressFacts
<1>3. PlannedOp(Step, hive.Data, ToSave, s) /\ Stage(Step) \in {1, 2, 3, 4, 5}
  BY <1>2, PlannedTail DEF Step
<1>4. Stage(Step) \in {1, 2, 4}
  BY <1>2, <1>3, PlannedWrite
<1>5. CASE Stage(Step) = 1
  <2>1. Step.writes = <<At(HEADER, PrimaryHeader(hive.Data, s + 1, s))>>
    BY <1>2, <1>3, <1>5, PlannedWrite
  <2>2. i = 1 /\ Step.writes[i] = At(HEADER, PrimaryHeader(hive.Data, s + 1, s))
    BY <2>1
  <2>3. QED
    BY <2>2 DEF WriteFits, At, HeaderFits, PrimaryHeader, Header
<1>6. CASE Stage(Step) = 4
  <2>1. Step.writes = <<At(HEADER, PrimaryHeader(hive.Data, s + 1, s + 1))>>
    BY <1>2, <1>3, <1>6, PlannedWrite
  <2>2. i = 1 /\ Step.writes[i] = At(HEADER, PrimaryHeader(hive.Data, s + 1, s + 1))
    BY <2>1
  <2>3. QED
    BY <2>2 DEF WriteFits, At, HeaderFits, PrimaryHeader, Header
<1>7. CASE Stage(Step) = 2
  <2>1. PICK b \in ToSave : Step.writes = <<At(Block(b), hive.Data[b])>>
    BY <1>2, <1>3, <1>7, PlannedWrite
  <2>2. i = 1 /\ Step.writes[i] = At(Block(b), hive.Data[b])
    BY <2>1
  <2>3. QED
    BY <2>2 DEF WriteFits, At
<1>8. QED
  BY <1>4, <1>5, <1>6, <1>7

\* A recovered hive that is done with the primary file is settled.
LEMMA RecoveredQuiet ==
  ASSUME IInv, call.name = "HvSyncHiveFromRecover", ~Remains(call.steps, {1, 2, 3, 4, 5})
  PROVE  Quiet
<1>1. SavesPrimary
  BY DEF SavesPrimary
<1>2. PICK s : Progress(call.steps, hive.Data, ToSave, s, View("PRIMARY"))
  BY <1>1, SaveFacts
<1>3. Sound(View("PRIMARY")) /\ pending["PRIMARY"] = << >>
  BY <1>1, <1>2, ProgressEnd, SaveFacts
<1>4. View("PRIMARY") = disk["PRIMARY"]
  <2>1. disk["PRIMARY"] = [p \in Places |-> disk["PRIMARY"][p]]
    BY <1>1, SaveFacts DEF FileIn
  <2>2. QED
    BY <1>3, <2>1, WrittenNothing DEF View
<1>5. QED
  BY <1>3, <1>4 DEF Quiet, Settles

\* The last operations of a recovered hive are on the log.
LEMMA QuietStep ==
  ASSUME IInv, Settles, call.name = "HvSyncHiveFromRecover",
         ~Remains(call.steps, {1, 2, 3, 4, 5}), StepSucceeds
  PROVE  Quiet'
<1>1. call.steps \in Seq(Operation) /\ call.steps # << >>
  BY TypesFacts DEF IInv, StepSucceeds
<1>2. ~Remains(Tail(call.steps), {1, 2, 3, 4, 5}) /\ ~AtPrimary(Step)
  <2>1. Stage(Head(call.steps)) \in {1, 2, 3, 4, 5}
    BY DEF Stage
  <2>2. QED
    BY <1>1, <2>1, RemainsTail DEF Step
<1>3. disk'["PRIMARY"] = disk["PRIMARY"] /\ pending'["PRIMARY"] = pending["PRIMARY"]
  BY <1>2, StepFiles DEF IInv, AtPrimary, Files
<1>4. call'.name = "HvSyncHiveFromRecover" /\ call'.steps = Tail(call.steps)
  BY StepRest DEF IInv
<1>5. ~Remains(call.steps, {1, 2, 3, 4, 5})'
  BY <1>2, <1>4 DEF Remains, AtPrimary, Stage
<1>6. QED
  BY <1>3, <1>4, <1>5, SettlesStays DEF Quiet

\* An operation that replays the log writes what fits.
LEMMA ReplayFits ==
  ASSUME Types, NEW d, NEW B, Covered(d, B), NEW o, ReplayOp(o, d, B)
  PROVE  /\ o.op = "write" /\ AtPrimary(o)
         /\ \E w : o.writes = <<w>> /\ WriteFits(w, d, B)
         /\ \/ o.writes = <<At(HEADER, RecoveredHeader(disk["LOG"]))>>
            \/ \E b \in B : o.writes = <<At(Block(b), d[b])>>
<1>1. CASE o.writes = <<At(HEADER, RecoveredHeader(disk["LOG"]))>>
  <2> DEFINE hd == RecoveredHeader(disk["LOG"])
  <2>1. HvpVerifyHiveHeader(disk["LOG"][HEADER], "LOG")
    BY DEF Covered, LogHolds
  <2>2. disk["LOG"][HEADER] \in HeaderType
    <3>1. FileIn("LOG", disk["LOG"])
      BY CoveredFacts
    <3>2. disk["LOG"][HEADER] \in HeaderType \cup {None, Torn}
      BY <3>1 DEF FileIn, FileOK
    <3>3. QED
      BY <2>1, <3>2 DEF HvpVerifyHiveHeader
  <2>3. hd = [disk["LOG"][HEADER] EXCEPT !.Type = "PRIMARY"]
    BY <2>1 DEF RecoveredHeader
  <2>4. hd.Sequence1 = hd.Sequence2
    BY <2>1, <2>2, <2>3 DEF HvpVerifyHiveHeader, HeaderType
  <2> HIDE DEF hd
  <2>5. WriteFits(At(HEADER, hd), d, B)
    BY <2>4 DEF WriteFits, HeaderFits, At
  <2>6. QED
    BY <1>1, <2>5 DEF ReplayOp, hd
<1>2. CASE \E b \in B : WritesBlock(o, d, b)
  <2>1. PICK b \in B : o.writes = <<At(Block(b), d[b])>>
    BY <1>2 DEF WritesBlock
  <2>2. WriteFits(At(Block(b), d[b]), d, B)
    BY DEF WriteFits, At
  <2>3. QED
    BY <2>1, <2>2 DEF ReplayOp
<1>3. QED
  BY <1>1, <1>2 DEF ReplayOp

\* What remains to be replayed after a step.
LEMMA ReplayTail ==
  ASSUME IInv, StepSucceeds, NEW d, NEW B, Covered(d, B), Replaying,
         \A i \in DOMAIN call.steps : ReplayOp(call.steps[i], d, B), ReplayGoesOn(d)
  PROVE  ReplayGoesOn(d)'
<1> DEFINE st == call.steps
           v == View("PRIMARY")
           u == Written(disk'["PRIMARY"], pending'["PRIMARY"])
<1>1. /\ st \in Seq(Operation) /\ st # << >> /\ Step = st[1] /\ 1 \in DOMAIN st
      /\ v = [p \in Places |-> v[p]]
  BY TypesFacts, StepFacts, CoveredFacts DEF IInv, StepSucceeds, FileIn
<1>2. ReplayOp(Step, d, B)
  BY <1>1
<1>3. Step.op = "write" /\ AtPrimary(Step)
  BY <1>2 DEF ReplayOp
<1>4. u = Written(v, Step.writes)
  <2>1. Written(disk'["PRIMARY"], pending'["PRIMARY"]) = Written(View("PRIMARY"), Step.writes)
    BY <1>3, StepFiles DEF IInv, Files, AtPrimary
  <2>2. QED
    BY <2>1
<1>5. \A i \in DOMAIN st : i \in Nat /\ (i # 1 => i - 1 \in DOMAIN Tail(st) /\ i > 1
                                         /\ Tail(st)[i - 1] = st[i])
  <2>1. /\ \A i \in DOMAIN Tail(st) : i \in Nat /\ i + 1 \in DOMAIN st /\ Tail(st)[i] = st[i + 1]
        /\ \A i \in DOMAIN st : i \in Nat /\ (i # 1 => i - 1 \in DOMAIN Tail(st) /\ i > 1)
    BY <1>1, TailFacts
  <2> TAKE i \in DOMAIN st
  <2>2. CASE i # 1
    <3>1. i \in Nat /\ i - 1 \in DOMAIN Tail(st) /\ i > 1
      BY <2>1, <2>2
    <3>2. Tail(st)[i - 1] = st[(i - 1) + 1] /\ (i - 1) + 1 = i
      BY <2>1, <3>1
    <3>3. QED
      BY <3>1, <3>2
  <2>3. QED
    BY <2>1, <2>2
<1>6. DOMAIN d \subseteq Blocks /\ B \subseteq DOMAIN d
  BY CoveredFacts DEF IInv
<1> HIDE DEF v, u
<1>7. ASSUME NEW b \in DOMAIN d
      PROVE  u[Block(b)] = d[b] \/ \E i \in DOMAIN Tail(st) : WritesBlock(Tail(st)[i], d, b)
  <2>0. b \in Blocks /\ Block(b) \in Places
    BY <1>6, PlaceFacts
  <2>1. CASE v[Block(b)] = d[b]
    <3>1. CASE Step.writes = <<At(HEADER, RecoveredHeader(disk["LOG"]))>>
      <4>1. u = Written(v, <<At(HEADER, RecoveredHeader(disk["LOG"]))>>)
        BY <1>4, <3>1
      <4>2. \A p \in Places : p # HEADER => u[p] = v[p]
        BY <1>1, <4>1, PlaceFacts, OneWrite
      <4>3. QED
        BY <2>0, <2>1, <4>2, PlaceFacts
    <3>2. CASE \E c \in B : WritesBlock(Step, d, c)
      <4>1. PICK c \in B : Step.writes = <<At(Block(c), d[c])>>
        BY <3>2 DEF WritesBlock
      <4>2. u = Written(v, <<At(Block(c), d[c])>>)
        BY <1>4, <4>1
      <4>3. c \in Blocks /\ Block(c) \in Places
        BY <1>6, PlaceFacts
      <4>4. u[Block(c)] = d[c] /\ \A p \in Places : p # Block(c) => u[p] = v[p]
        BY <1>1, <4>2, <4>3, OneWrite
      <4>5. QED
        BY <2>0, <2>1, <4>4, PlaceFacts
    <3>3. QED
      BY <1>2, <3>1, <3>2 DEF ReplayOp
  <2>2. CASE \E i \in DOMAIN st : WritesBlock(st[i], d, b)
    <3>1. PICK i \in DOMAIN st : WritesBlock(st[i], d, b)
      BY <2>2
    <3>2. CASE i = 1
      <4>1. Step.writes = <<At(Block(b), d[b])>>
        BY <1>1, <3>1, <3>2 DEF WritesBlock
      <4>2. u = Written(v, <<At(Block(b), d[b])>>)
        BY <1>4, <4>1
      <4>3. QED
        BY <1>1, <2>0, <4>2, OneWrite
    <3>3. CASE i # 1
      BY <1>5, <3>1, <3>3
    <3>4. QED
      BY <3>2, <3>3
  <2>3. QED
    BY <2>1, <2>2 DEF ReplayGoesOn, v
<1>8. call'.steps = Tail(st)
  BY StepRest DEF IInv
<1>9. QED
  BY <1>7, <1>8 DEF ReplayGoesOn, View, WritesBlock, u

\* The invariant survives an operation.
LEMMA StepSafe ==
  ASSUME IInv, Log, LogSafe, NoFaults, StepSucceeds
  PROVE  LogSafe'
<1> SUFFICES Quiet' \/ \E d, B : Covered(d, B)' /\ Repairs(d, B)'
  BY DEF LogSafe
<1>1. call.steps # << >> /\ Types
  BY DEF StepSucceeds, IInv
<1>2. /\ call.name # "none" /\ status \in {"Up", "Loading"}
      /\ 1 \in DOMAIN call.steps /\ Step = call.steps[1] /\ call.steps \in Seq(Operation)
  BY <1>1, StepAllowed, StepFacts, TypesFacts
<1>3. CASE Quiet
  <2>1. CASE WritesLog
    BY <1>3, <2>1, LogStep DEF Quiet
  <2>2. CASE call.name = "HvSyncHiveFromRecover" /\ ~Remains(call.steps, {1, 2, 3, 4, 5})
    BY <1>3, <2>2, QuietStep DEF Quiet
  <2>3. call # NoCall
    BY <1>2, NoCallTypes
  <2>4. QED
    BY <1>3, <2>1, <2>2, <2>3 DEF Quiet
<1>4. CASE ~Quiet
  <2>1. PICK d, B : Covered(d, B) /\ Repairs(d, B)
    BY <1>4 DEF LogSafe
  <2>2. /\ call'.name = call.name /\ call'.base = call.base /\ call'.steps = Tail(call.steps)
        /\ hive'.Data = hive.Data /\ hive'.Dirty = hive.Dirty
    BY <1>1, StepRest
  <2>3. \A i \in DOMAIN Tail(call.steps) :
          i + 1 \in DOMAIN call.steps /\ Tail(call.steps)[i] = call.steps[i + 1]
    BY <1>1, <1>2, TailFacts
  <2>4. CASE /\ call.name = "HvSyncHive" /\ hive.Data = d /\ hive.Dirty = B
             /\ \A i \in DOMAIN call.steps : AtPrimary(call.steps[i])
    <3>1. AtPrimary(Step) /\ SavesPrimary /\ ToSave \subseteq B
      BY <1>2, <2>4 DEF SavesPrimary, ToSave
    <3>2. Step.op # "flush" => \A i \in DOMAIN Step.writes : WriteFits(Step.writes[i], d, B)
      BY <1>1, <2>4, <3>1, SaveFits
    <3>3. Covered(d, B)'
      BY <1>1, <2>1, <3>1, <3>2, CoveredStep
    <3>4. Repairs(d, B)'
      BY <2>2, <2>3, <2>4 DEF Repairs, AtPrimary
    <3>5. QED
      BY <3>3, <3>4
  <2>5. CASE /\ call.name \in {"RecoverHeader", "RecoverData", "ReplayData"}
             /\ \A i \in DOMAIN call.steps : ReplayOp(call.steps[i], d, B)
             /\ call.name = "ReplayData" => call.base.Length = Len(d) /\ ReplayGoesOn(d)
    <3>1. ReplayOp(Step, d, B)
      BY <1>2, <2>5
    <3>2. /\ AtPrimary(Step) /\ \A i \in DOMAIN Step.writes : WriteFits(Step.writes[i], d, B)
      <4>1. AtPrimary(Step) /\ \E w : Step.writes = <<w>> /\ WriteFits(w, d, B)
        BY <1>1, <2>1, <3>1, ReplayFits
      <4>2. PICK w : Step.writes = <<w>> /\ WriteFits(w, d, B)
        BY <4>1
      <4>3. \A i \in DOMAIN Step.writes : Step.writes[i] = w
        BY <4>2
      <4>4. QED
        BY <4>1, <4>2, <4>3
    <3>3. Covered(d, B)'
      BY <1>1, <2>1, <3>2, CoveredStep
    <3>4. disk'["LOG"] = disk["LOG"]
      BY <1>1, <3>2, StepFiles DEF AtPrimary, Files
    <3>5. (\A i \in DOMAIN call.steps : ReplayOp(call.steps[i], d, B))'
      <4> SUFFICES ASSUME NEW i \in DOMAIN call'.steps PROVE ReplayOp(call.steps[i], d, B)'
        OBVIOUS
      <4>1. i + 1 \in DOMAIN call.steps /\ call'.steps[i] = call.steps[i + 1]
        BY <2>2, <2>3
      <4>2. ReplayOp(call.steps[i + 1], d, B)
        BY <2>5, <4>1
      <4>3. QED
        BY <3>4, <4>1, <4>2 DEF ReplayOp, AtPrimary, WritesBlock, RecoveredHeader,
                                HvpVerifyHiveHeader
    <3>6. call.name = "ReplayData" => ReplayGoesOn(d)'
      BY <2>1, <2>5, ReplayTail DEF Replaying, RecoveryCalls
    <3>7. Repairs(d, B)'
      BY <2>2, <2>5, <3>5, <3>6 DEF Repairs
    <3>8. QED
      BY <3>3, <3>7
  <2>6. CASE /\ call.name = "HvSyncHiveFromRecover" /\ hive.Data = d /\ hive.Dirty = {}
             /\ LogLast(call.steps)
    <3>1. Step.fails # "ignore"
      <4>1. Remains(call.steps, {1, 2, 3, 4, 5})
        BY <1>4, <2>6, RecoveredQuiet
      <4>2. QED
        BY <1>1, <2>6, <4>1, StepAllowed DEF Remains
    <3>2. AtPrimary(Step)
      BY <1>2, <2>6, <3>1 DEF LogLast
    <3>3. SavesPrimary /\ ToSave \subseteq B
      BY <2>6 DEF SavesPrimary, ToSave
    <3>4. Step.op # "flush" => \A i \in DOMAIN Step.writes : WriteFits(Step.writes[i], d, B)
      BY <1>1, <2>6, <3>2, <3>3, SaveFits
    <3>5. Covered(d, B)'
      BY <1>1, <2>1, <3>2, <3>4, CoveredStep
    <3>6. LogLast(call.steps)'
      BY <2>2, <2>3, <2>6 DEF LogLast, AtPrimary
    <3>7. Repairs(d, B)'
      BY <2>2, <2>6, <3>6 DEF Repairs
    <3>8. QED
      BY <3>5, <3>7
  <2>7. QED
    BY <1>2, <2>1, <2>4, <2>5, <2>6 DEF Repairs
<1>5. QED
  BY <1>3, <1>4

-----------------------------------------------------------------------------
(* The ends of calls, and loading *)

\* The primary file that a call has saved is settled.
LEMMA ReturnSafe ==
  ASSUME IInv, SavesPrimary, call.steps = << >>, call' = NoCall, UNCHANGED <<disk, pending>>
  PROVE  LogSafe'
<1>1. Settles
  BY SaveEnds DEF Settles
<1>2. Settles'
  BY <1>1, SettlesStays
<1>3. QED
  BY <1>2 DEF LogSafe, Quiet

\* A call that reports success has saved the primary file.
LEMMA SaveReturnsSafe ==
  ASSUME IInv, LogSafe, NoFaults, SaveReturns
  PROVE  LogSafe'
<1>1. call.steps = << >> /\ call' = NoCall /\ UNCHANGED <<disk, pending>>
      /\ call.name \in {"HvSyncHive", "HvWriteHive", "HvWriteAlternateHive"}
  BY DEF SaveReturns
<1>2. call.name # "HvWriteAlternateHive"
  <2> SUFFICES ASSUME call.name = "HvWriteAlternateHive" PROVE FALSE
    OBVIOUS
  <2>1. ~Quiet
    BY NoCallTypes DEF Quiet, WritesLog
  <2>2. status \notin {"Down", "Corrupt", "IoFailed"}
    BY NoCallTypes DEF IInv, CallsOK
  <2>3. QED
    BY <2>1, <2>2 DEF LogSafe, Repairs
<1>3. QED
  BY <1>1, <1>2, ReturnSafe DEF SavesPrimary

\* So has a load that recovered the hive.
LEMMA LoadReturnsSafe ==
  ASSUME IInv, LoadReturns
  PROVE  LogSafe'
BY ReturnSafe DEF LoadReturns, SavesPrimary

\* What the log covers does not depend on the call.
LEMMA CoveredStays ==
  ASSUME NEW d, NEW B, Covered(d, B), UNCHANGED <<disk, pending, promised, attempts>>
  PROVE  Covered(d, B)'
BY DEF Covered

\* Operations that copy the blocks of the log replay it.
LEMMA CopyReplays ==
  ASSUME NEW ops, NEW d, NEW B, NEW fails, CopyShape(ops, d, B, fails)
  PROVE  /\ \A i \in DOMAIN ops : ReplayOp(ops[i], d, B)
         /\ \A b \in B : \E i \in DOMAIN ops : WritesBlock(ops[i], d, b)
BY DEF CopyShape, ReplayOp, WritesBlock, AtPrimary, Write, Op

\* A load takes the primary file as it is, or starts to replay the log.
LEMMA LoadSafe ==
  ASSUME IInv, Log, LogSafe, NoFaults, HvLoadHive, faults' = faults, FaultsOK
  PROVE  LogSafe'
<1> SUFFICES Quiet' \/ \E d, B : Covered(d, B)' /\ Repairs(d, B)'
  BY DEF LogSafe
<1> DEFINE primary == View("PRIMARY")
           log == View("LOG")
           result == HvpGetHiveHeader(primary)
<1>1. /\ status = "Down" /\ UNCHANGED <<fileType, disk, pending, changes>>
      /\ IF result = "HiveSuccess" THEN Initialize(primary[HEADER])
         ELSE Recover(result, primary[HEADER])
  <2>1. ~(faults.load > 0 /\ faults' = [faults EXCEPT !.load = @ - 1])
    <3> SUFFICES ASSUME faults' = [faults EXCEPT !.load = @ - 1] PROVE FALSE
      OBVIOUS
    <3>1. faults = [sync |-> faults.sync, load |-> faults.load] /\ faults.load \in 0 .. MaxLoadFaults
      BY DEF FaultsOK
    <3>2. faults' = [sync |-> faults.sync, load |-> faults.load - 1]
      BY <3>1
    <3>3. faults'.load = faults.load - 1
      BY <3>2
    <3>4. faults.load \in Int
      BY <3>1, BoundsAssumption
    <3>5. QED
      BY <3>3, <3>4
  <2>2. QED
    BY <2>1 DEF HvLoadHive
<1>2. primary = disk["PRIMARY"] /\ pending["PRIMARY"] = << >>
  BY <1>1, DownFacts
<1>3. CASE result = "HiveSuccess"
  <2>1. call' = NoCall
    BY <1>1, <1>3 DEF Initialize
  <2>2. Settles
    BY <1>2, <1>3 DEF Settles, Sound
  <2>3. Settles'
    BY <1>1, <2>2, SettlesStays
  <2>4. QED
    BY <2>1, <2>3 DEF Quiet
<1>4. CASE result # "HiveSuccess"
  <2>1. ~Quiet
    BY <1>2, <1>4 DEF Quiet, Settles, Sound
  <2>2. PICK d, B : Covered(d, B)
    BY <2>1 DEF LogSafe
  <2>3. /\ status' = "Loading" /\ UNCHANGED <<promised, attempts>>
        /\ call' = [name |-> result, base |-> primary[HEADER],
                    steps |-> IF result = "RecoverData"
                              THEN HvpRecoverDataFromLog(log, primary[HEADER], "Fallback")
                              ELSE HvpRecoverHeaderFromLog(log)]
    BY <1>1, <1>4 DEF Recover
  <2>4. Covered(d, B)'
    BY <1>1, <2>2, <2>3, CoveredStays
  <2>5. log = disk["LOG"] /\ disk'["LOG"] = disk["LOG"]
    BY <1>1, <2>2, CoveredFacts DEF IInv
  <2>6. /\ LogHolds(log, d, B) /\ FileFits(primary, d, B)
        /\ d \in Images /\ d # << >> /\ B \in SUBSET DOMAIN d
    BY <1>2, <2>2, <2>5, CoveredFacts DEF IInv, Covered
  <2>7. \A o : ReplayOp(o, d, B) => ReplayOp(o, d, B)'
    BY <2>5 DEF ReplayOp, AtPrimary, WritesBlock, RecoveredHeader, HvpVerifyHiveHeader
  <2> HIDE DEF log, primary
  <2>8. result \in {"RecoverData", "RecoverHeader"}
    BY <1>4 DEF HvpGetHiveHeader
  <2> HIDE DEF result
  <2>9. CASE result = "RecoverData"
    <3>1. primary[HEADER].Length = Len(d)
      BY <2>6, <2>9 DEF result, HvpGetHiveHeader, FileFits, HeaderFits
    <3> DEFINE ops == HvpRecoverDataFromLog(log, primary[HEADER], "Fallback")
    <3>2. CopyShape(ops, d, B, "Fallback")
      BY <2>6, <3>1, Replays
    <3>3. call'.name = "RecoverData" /\ call'.steps = ops
      BY <2>3, <2>9
    <3> HIDE DEF ops
    <3>4. (\A i \in DOMAIN call.steps : ReplayOp(call.steps[i], d, B))'
      <4> SUFFICES ASSUME NEW i \in DOMAIN call'.steps PROVE ReplayOp(call.steps[i], d, B)'
        OBVIOUS
      <4>1. PICK o : o = ops[i]
        OBVIOUS
      <4>2. ReplayOp(o, d, B)'
        BY <2>7, <3>2, <3>3, <4>1, CopyReplays
      <4>3. call'.steps[i] = o
        BY <3>3, <4>1
      <4>4. QED
        BY <4>2, <4>3 DEF ReplayOp, AtPrimary, WritesBlock
    <3>5. Repairs(d, B)'
      BY <3>3, <3>4 DEF Repairs
    <3>6. QED
      BY <2>4, <3>5
  <2>10. CASE result = "RecoverHeader"
    <3> DEFINE hd == RecoveredHeader(log)
    <3>1. HvpVerifyHiveHeader(log[HEADER], "LOG")
      BY <2>6 DEF LogHolds
    <3>2. hd # None
      <4>1. FileIn("LOG", log)
        BY <2>2, <2>5, CoveredFacts DEF IInv
      <4>2. log[HEADER] \in HeaderType
        BY <3>1, <4>1 DEF FileIn, FileOK, HvpVerifyHiveHeader
      <4>3. hd = [log[HEADER] EXCEPT !.Type = "PRIMARY"]
        BY <3>1 DEF RecoveredHeader
      <4>4. hd \in HeaderType
        BY <4>2, <4>3 DEF HeaderType
      <4>5. QED
        BY <4>4, Sentinels
    <3> DEFINE o == Write("PRIMARY", <<At(HEADER, hd)>>, 0, 0, "Corrupt")
    <3>3. HvpRecoverHeaderFromLog(log) = <<o>>
      BY <3>2 DEF HvpRecoverHeaderFromLog
    <3>4. call'.name = "RecoverHeader" /\ call'.steps = <<o>>
      BY <2>3, <2>10, <3>3
    <3>5. ReplayOp(o, d, B)
      BY <2>5 DEF ReplayOp, AtPrimary, Write, Op
    <3> HIDE DEF o, hd
    <3>6. (\A i \in DOMAIN call.steps : ReplayOp(call.steps[i], d, B))'
      <4> SUFFICES ASSUME NEW i \in DOMAIN call'.steps PROVE ReplayOp(call.steps[i], d, B)'
        OBVIOUS
      <4>1. PICK q : q = o
        OBVIOUS
      <4>2. ReplayOp(q, d, B)'
        BY <2>7, <3>5, <4>1
      <4>3. call'.steps[i] = q
        BY <3>4, <4>1
      <4>4. QED
        BY <4>2, <4>3 DEF ReplayOp, AtPrimary, WritesBlock
    <3>7. Repairs(d, B)'
      BY <3>4, <3>6 DEF Repairs
    <3>8. QED
      BY <2>4, <3>7
  <2>11. QED
    BY <2>8, <2>9, <2>10
<1>5. QED
  BY <1>3, <1>4

\* From the header of the log to its data.
LEMMA HeaderRecoveredSafe ==
  ASSUME IInv, LogSafe, NoFaults, HeaderRecovered
  PROVE  LogSafe'
<1> DEFINE log == View("LOG")
           base == RecoveredHeader(log)
           ops == HvpRecoverDataFromLog(log, base, "Corrupt")
<1>1. /\ call.name = "RecoverHeader" /\ call.steps = << >>
      /\ call' = [name |-> "ReplayData", base |-> base, steps |-> ops]
      /\ UNCHANGED <<disk, pending, promised, attempts>>
  BY DEF HeaderRecovered
<1>2. PICK d, B : Covered(d, B)
  BY <1>1 DEF LogSafe, Quiet, WritesLog, NoCall
<1>3. Covered(d, B)'
  BY <1>1, <1>2, CoveredStays
<1>4. log = disk["LOG"] /\ disk'["LOG"] = disk["LOG"] /\ FileIn("LOG", log)
  BY <1>1, <1>2, CoveredFacts DEF IInv
<1>5. /\ LogHolds(log, d, B) /\ FileFits(View("PRIMARY"), d, B)
      /\ d \in Images /\ d # << >> /\ B \in SUBSET DOMAIN d
  BY <1>2, <1>4, CoveredFacts DEF IInv, Covered
<1>6. \A o : ReplayOp(o, d, B) => ReplayOp(o, d, B)'
  BY <1>4 DEF ReplayOp, AtPrimary, WritesBlock, RecoveredHeader, HvpVerifyHiveHeader
<1> HIDE DEF log
<1>7. base.Length = Len(d)
  <2>1. HvpVerifyHiveHeader(log[HEADER], "LOG") /\ log[HEADER].Length = Len(d)
    BY <1>5 DEF LogHolds
  <2>2. log[HEADER] \in HeaderType
    BY <1>4, <2>1 DEF FileIn, FileOK, HvpVerifyHiveHeader
  <2>3. base = [log[HEADER] EXCEPT !.Type = "PRIMARY"]
    BY <2>1 DEF RecoveredHeader
  <2>4. QED
    BY <2>1, <2>2, <2>3 DEF HeaderType
<1> HIDE DEF base
<1>8. CopyShape(ops, d, B, "Corrupt")
  BY <1>5, <1>7, Replays
<1> HIDE DEF ops
<1>9. call'.name = "ReplayData" /\ call'.steps = ops /\ call'.base = base
  BY <1>1
<1>10. (\A i \in DOMAIN call.steps : ReplayOp(call.steps[i], d, B))'
  <2> SUFFICES ASSUME NEW i \in DOMAIN call'.steps PROVE ReplayOp(call.steps[i], d, B)'
    OBVIOUS
  <2>1. PICK o : o = ops[i]
    OBVIOUS
  <2>2. ReplayOp(o, d, B)'
    BY <1>6, <1>8, <1>9, <2>1, CopyReplays
  <2>3. call'.steps[i] = o
    BY <1>9, <2>1
  <2>4. QED
    BY <2>2, <2>3 DEF ReplayOp, AtPrimary, WritesBlock
<1>11. ReplayGoesOn(d)'
  <2>1. View("PRIMARY")' = View("PRIMARY")
    BY <1>1 DEF View
  <2>2. ASSUME NEW b \in DOMAIN d
        PROVE  View("PRIMARY")[Block(b)] = d[b] \/ \E i \in DOMAIN ops : WritesBlock(ops[i], d, b)
    BY <1>5, <1>8, CopyReplays DEF FileFits
  <2>3. QED
    BY <1>9, <2>1, <2>2 DEF ReplayGoesOn, WritesBlock
<1>12. Repairs(d, B)'
  BY <1>7, <1>9, <1>10, <1>11 DEF Repairs
<1>13. QED
  BY <1>3, <1>12 DEF LogSafe

\* A recovered hive is refused, or flushed with nothing more to write than the header.
LEMMA DataRecoveredSafe ==
  ASSUME IInv, LogSafe, NoFaults, DataRecovered
  PROVE  LogSafe'
<1> DEFINE v == View("PRIMARY")
           h == Loaded(v, call.base)
<1>1. /\ call.name \in {"RecoverData", "ReplayData", "Fallback"} /\ call.steps = << >>
      /\ UNCHANGED <<disk, pending, promised, attempts>>
      /\ \/ status' \in {"Corrupt", "IoFailed"}
         \/ /\ Readable(v, call.base) /\ h.Sequence1 = h.Sequence2
            /\ hive' = h
            /\ call' = [name |-> "HvSyncHiveFromRecover", base |-> None,
                        steps |-> HvSyncHiveFromRecover(h)]
  BY DEF DataRecovered
<1>2. PICK d, B : Covered(d, B) /\ Repairs(d, B)
  BY <1>1 DEF LogSafe, Quiet, WritesLog, NoCall
<1>3. Covered(d, B)'
  BY <1>1, <1>2, CoveredStays
<1>4. CASE status' \in {"Corrupt", "IoFailed"}
  <2>1. Repairs(d, B)'
    BY <1>4 DEF Repairs
  <2>2. QED
    BY <1>3, <2>1 DEF LogSafe
<1>5. CASE /\ Readable(v, call.base) /\ h.Sequence1 = h.Sequence2
           /\ hive' = h
           /\ call' = [name |-> "HvSyncHiveFromRecover", base |-> None,
                       steps |-> HvSyncHiveFromRecover(h)]
  <2>1. /\ d \in Images /\ d # << >> /\ DOMAIN d = 1 .. Len(d) /\ Len(d) \in 1 .. MaxLength
        /\ FileIn("PRIMARY", v)
    BY <1>2, CoveredFacts DEF IInv
  <2>2. call.name # "RecoverData" /\ call.name # "Fallback"
    <3>1. h.Sequence1 = call.base.Sequence1 /\ h.Sequence2 = call.base.Sequence2
      BY DEF Loaded
    <3>2. call.name # "RecoverData"
      BY <1>5, <3>1 DEF IInv, BasesOK
    <3>3. status \notin {"Down", "Corrupt", "IoFailed"}
      BY <1>1 DEF IInv, CallsOK, NoCall
    <3>4. QED
      BY <1>2, <3>2, <3>3, <1>1 DEF Repairs
  <2>3. call.name = "ReplayData" /\ call.base.Length = Len(d) /\ ReplayGoesOn(d)
    <3>1. status \notin {"Down", "Corrupt", "IoFailed"} /\ call.name = "ReplayData"
      BY <1>1, <2>2 DEF IInv, CallsOK, NoCall
    <3>2. QED
      BY <1>2, <3>1 DEF Repairs
  <2>4. \A b \in DOMAIN d : v[Block(b)] = d[b]
    BY <1>1, <2>3 DEF ReplayGoesOn
  <2>5. call.base \in HeaderType /\ call.base.Sequence1 \in 0 .. MaxSequence
    <3>1. call.base \in HeaderType /\ call.base.Sequence1 <= MaxSequence
      BY <2>3 DEF IInv, BasesOK
    <3>2. QED
      BY <3>1, BoundsAssumption DEF HeaderType, Sequences
  <2>6. h.Data = d /\ h.Dirty = {} /\ h.Sequence1 \in 0 .. MaxSequence
    <3>1. h.Data = [i \in 1 .. Len(d) |-> v[Block(i)]] /\ h.Dirty = {}
          /\ h.Sequence1 = call.base.Sequence1
      BY <2>3 DEF Loaded
    <3> HIDE DEF h, v
    <3>2. d = [i \in 1 .. Len(d) |-> d[i]]
      BY <2>1 DEF Images
    <3>3. \A i \in 1 .. Len(d) : v[Block(i)] = d[i]
      BY <2>1, <2>4
    <3>4. h.Data = d
      BY <3>1, <3>2, <3>3
    <3>5. QED
      BY <2>5, <3>1, <3>4
  <2> DEFINE ops == HvSyncHiveFromRecover(h)
  <2>7. LogLast(ops)
    <3> HIDE DEF h
    <3> DEFINE a == HvpWriteHive(h, h.Sequence1, h.Dirty, "PRIMARY", "IoFailed")
               n == h.Sequence1 + 1
               b == HvpTruncateLog(n)
    <3>1. h.Sequence1 \in Sequences /\ h.Sequence1 + 1 \in Sequences /\ h.Dirty \in SUBSET DOMAIN h.Data
      BY <2>6, BoundsAssumption DEF Sequences
    <3>2. \E N \in Nat : WriteHiveShape(a, N, h, h.Sequence1, h.Dirty, "PRIMARY", "IoFailed")
      BY <2>1, <2>6, <3>1, WriteHiveFacts
    <3>3. PICK N \in Nat : WriteHiveShape(a, N, h, h.Sequence1, h.Dirty, "PRIMARY", "IoFailed")
      BY <3>2
    <3>4. a \in Seq(Operation) /\ \A i \in DOMAIN a : a[i].file = "PRIMARY"
      <4> HIDE DEF a
      <4>1. a \in Seq(Operation)
        BY <3>3 DEF WriteHiveShape
      <4>2. \A i \in DOMAIN a : a[i].file = "PRIMARY"
        BY <3>3, ShapeOps
      <4>3. QED
        BY <4>1, <4>2
    <3>5. Len(b) = 2 /\ b[1].fails = "ignore" /\ b[2].fails = "ignore"
      BY DEF HvpTruncateLog, Write, Flush, Op
    <3>6. \E T : b \in Seq(T) /\ a \in Seq(T)
      <4>1. b \in Seq({b[1], b[2]})
        BY DEF HvpTruncateLog
      <4>2. PICK T : T = Operation \cup {b[1], b[2]}
        OBVIOUS
      <4>3. b \in Seq(T)
        BY <4>1, <4>2
      <4>4. a \in Seq(T)
        BY <3>4, <4>2
      <4>5. QED
        BY <4>3, <4>4
    <3>7. ops = a \o b
      BY DEF HvSyncHiveFromRecover
    <3> HIDE DEF a, b, ops
    <3>8. PICK T : b \in Seq(T) /\ a \in Seq(T)
      BY <3>6
    <3>9. ASSUME NEW i \in DOMAIN ops PROVE ops[i].fails # "ignore" => AtPrimary(ops[i])
      <4>1. Len(a) \in Nat /\ DOMAIN a = 1 .. Len(a) /\ i \in 1 .. Len(a) + 2
        <5>1. Len(a) \in Nat /\ DOMAIN a = 1 .. Len(a)
          BY <3>8
        <5>2. Len(a \o b) = Len(a) + Len(b) /\ DOMAIN (a \o b) = 1 .. Len(a \o b)
          BY <3>8
        <5>3. QED
          BY <3>5, <3>7, <5>1, <5>2
      <4>2. CASE i <= Len(a)
        <5>1. ops[i] = a[i] /\ i \in DOMAIN a
          BY <3>7, <3>8, <4>1, <4>2
        <5>2. QED
          BY <3>4, <5>1 DEF AtPrimary
      <4>3. CASE i > Len(a)
        <5>1. ops[i] = b[i - Len(a)] /\ i - Len(a) \in {1, 2}
          BY <3>5, <3>7, <3>8, <4>1, <4>3
        <5>2. QED
          BY <3>5, <5>1
      <4>4. QED
        BY <4>1, <4>2, <4>3
    <3>10. QED
      BY <3>9 DEF LogLast
  <2>8. call'.name = "HvSyncHiveFromRecover" /\ call'.steps = ops /\ hive' = h
    BY <1>5
  <2> HIDE DEF ops, h
  <2>9. LogLast(call.steps)'
    BY <2>7, <2>8 DEF LogLast, AtPrimary
  <2>10. Repairs(d, B)'
    BY <2>6, <2>8, <2>9 DEF Repairs
  <2>11. QED
    BY <1>3, <2>10 DEF LogSafe
<1>6. QED
  BY <1>1, <1>4, <1>5

\* A crash loses or tears what has not been flushed, which the log repeats.
LEMMA CrashSafe ==
  ASSUME IInv, LogSafe, NoFaults, Crash
  PROVE  LogSafe'
<1>1. PICK outcome \in Outcomes(disk["PRIMARY"], pending["PRIMARY"]),
           log \in Outcomes(disk["LOG"], pending["LOG"]),
           alternate \in Outcomes(disk["ALTERNATE"], pending["ALTERNATE"]) :
             disk' = [f \in Files |-> CASE f = "PRIMARY" -> outcome
                                        [] f = "LOG" -> log
                                        [] OTHER -> alternate]
  BY DEF Crash
<1>2. /\ status' = "Down" /\ call' = NoCall /\ pending' = [f \in Files |-> << >>]
      /\ UNCHANGED <<promised, attempts>>
  BY DEF Crash
<1>3. /\ disk'["PRIMARY"] = outcome /\ disk'["LOG"] = log
      /\ pending'["PRIMARY"] = << >> /\ pending'["LOG"] = << >>
  BY <1>1, <1>2 DEF Files
<1>4. /\ disk["PRIMARY"] = [p \in Places |-> disk["PRIMARY"][p]]
      /\ disk["LOG"] = [p \in Places |-> disk["LOG"][p]]
  BY TypesFacts DEF IInv, Files, FileIn
<1>5. CASE Quiet
  <2>1. outcome = disk["PRIMARY"]
    BY <1>4, <1>5, OutcomesNothing DEF Quiet, Settles
  <2>2. QED
    BY <1>2, <1>3, <1>5, <2>1 DEF LogSafe, Quiet, Settles
<1>6. CASE ~Quiet
  <2>1. PICK d, B : Covered(d, B)
    BY <1>6 DEF LogSafe
  <2>2. log = disk["LOG"]
    BY <1>4, <2>1, OutcomesNothing DEF Covered
  <2>3. FileFits(outcome, d, B)
    BY <2>1, CoveredFacts, OutcomesFit DEF Covered, IInv
  <2>4. Covered(d, B)'
    BY <1>2, <1>3, <2>1, <2>2, <2>3 DEF Covered
  <2>5. Repairs(d, B)'
    BY <1>2 DEF Repairs
  <2>6. QED
    BY <2>4, <2>5 DEF LogSafe
<1>7. QED
  BY <1>5, <1>6

-----------------------------------------------------------------------------
(* The theorem *)

LogIInv == IInv /\ FaultsOK /\ (Log /\ ~FullWrites => LogSafe)

\* At the start the primary file is settled.
LEMMA InitSafe == Init => LogIInv
<1> SUFFICES ASSUME Init PROVE FaultsOK /\ LogSafe
  BY InitIInv DEF LogIInv
<1>1. FaultsOK
  BY BoundsAssumption DEF Init, FaultsOK
<1>2. pending["PRIMARY"] = << >> /\ call = NoCall /\ disk["PRIMARY"] = OneBlockHive
  BY DEF Init, Files
<1>3. OneBlockHive[HEADER] = Header(2, 2, "PRIMARY", 1)
  BY PlaceFacts DEF OneBlockHive, EmptyFile
<1>4. Header(2, 2, "PRIMARY", 1) \in HeaderType
  BY BoundsAssumption DEF Header, HeaderType, Sequences
<1>5. Sound(OneBlockHive)
  BY <1>3, <1>4, Sentinels DEF Sound, HvpGetHiveHeader, HvpVerifyHiveHeader, Header
<1>6. QED
  BY <1>1, <1>2, <1>5 DEF LogSafe, Quiet, Settles

\* Every step preserves the invariant.
LEMMA NextSafe ==
  ASSUME LogIInv, [Next]_vars
  PROVE  LogIInv'
<1>1. IInv /\ IInv' /\ FaultsOK /\ FaultsOK' /\ fileType' = fileType
  BY NextStep, FaultsStep, FileTypeStays DEF LogIInv
<1> SUFFICES ASSUME Log, ~FullWrites, NoFaults' PROVE LogSafe'
  BY <1>1 DEF LogIInv, Log, LogSafe
<1>2. LogSafe /\ NoFaults /\ faults' = faults
  BY FaultsStep DEF LogIInv
<1>3. CASE Next
  <2>1. CASE \E b \in DOMAIN hive.Data : HvMarkCellDirty(b)
    BY <1>2, <2>1, ChangeSafe DEF HvMarkCellDirty
  <2>2. CASE HvpAddBin
    BY <1>2, <2>2, ChangeSafe DEF HvpAddBin
  <2>3. CASE HvSyncHive
    BY <1>1, <1>2, <2>3, SyncSafe
  <2>4. CASE HvWriteHive
    BY <2>4 DEF HvWriteHive
  <2>5. CASE HvWriteAlternateHive
    BY <2>5 DEF HvWriteAlternateHive
  <2>6. CASE HvLoadHive
    BY <1>1, <1>2, <2>6, LoadSafe
  <2>7. CASE StepSucceeds
    BY <1>1, <1>2, <2>7, StepSafe
  <2>8. CASE StepFails
    BY <1>1, <1>2, <2>8, NothingFails
  <2>9. CASE SaveReturns
    BY <1>1, <1>2, <2>9, SaveReturnsSafe
  <2>10. CASE HeaderRecovered
    BY <1>1, <1>2, <2>10, HeaderRecoveredSafe
  <2>11. CASE DataRecovered
    BY <1>1, <1>2, <2>11, DataRecoveredSafe
  <2>12. CASE LoadReturns
    BY <1>1, <2>12, LoadReturnsSafe
  <2>13. CASE Crash
    BY <1>1, <1>2, <2>13, CrashSafe
  <2>14. QED
    BY <1>3, <2>1, <2>2, <2>3, <2>4, <2>5, <2>6, <2>7, <2>8, <2>9, <2>10, <2>11, <2>12, <2>13
       DEF Next
<1>4. CASE UNCHANGED vars
  <2>1. Settles' = Settles /\ View("PRIMARY")' = View("PRIMARY") /\ View("LOG")' = View("LOG")
    BY <1>4 DEF vars, Settles, View
  <2>2. ASSUME Quiet PROVE Quiet'
    <3>1. CASE WritesLog
      <4>1. \A h : SyncOps(h)' = SyncOps(h)
        BY <1>4 DEF vars, SyncOps, Log, Alternate
      <4>2. WritesLog'
        BY <1>4, <2>1, <3>1, <4>1 DEF vars, WritesLog
      <4>3. QED
        BY <2>1, <2>2, <4>2 DEF Quiet
    <3>2. CASE ~WritesLog
      BY <1>4, <2>1, <2>2, <3>2 DEF vars, Quiet, Remains, AtPrimary, Stage
    <3>3. QED
      BY <3>1, <3>2
  <2>3. ASSUME NEW d, NEW B, Covered(d, B), Repairs(d, B) PROVE Covered(d, B)' /\ Repairs(d, B)'
    <3>1. Covered(d, B)'
      BY <1>4, <2>3, CoveredStays DEF vars
    <3>2. Repairs(d, B)'
      BY <1>4, <2>1, <2>3 DEF vars, Repairs, AtPrimary, ReplayOp, RecoveredHeader, HvpVerifyHiveHeader,
                              WritesBlock, ReplayGoesOn, LogLast
    <3>3. QED
      BY <3>1, <3>2
  <2>4. QED
    BY <1>2, <2>2, <2>3 DEF LogSafe
<1>5. QED
  BY <1>3, <1>4

\* Until a file operation fails, whatever a crash leaves of the primary file of a hive
\* with a log, the replay of the log that HvpRecoverDataFromLog makes turns it into one
\* whole image, the promised one or one that was being saved.
THEOREM LogCovered == Spec /\ Log /\ ~FullWrites => []LogCoversUntilFailure
<1> SUFFICES ASSUME ~FullWrites PROVE Spec /\ Log => []LogCoversUntilFailure
  OBVIOUS
<1>1. LogIInv /\ Log => LogCoversUntilFailure
  BY SafeCovers DEF LogIInv
<1>2. Log /\ [Next]_vars => Log'
  BY FileTypeStays DEF Log
<1>3. QED
  BY <1>1, <1>2, InitSafe, NextSafe, PTL DEF Spec
=============================================================================
