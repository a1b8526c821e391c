------------------------------ MODULE HiveSync ------------------------------
(***************************************************************************)
(* Saving a hive and loading it back (core/hivewrt.cpp, core/hiveinit.cpp).*)
(*                                                                         *)
(* A hive is a row of blocks, of which those changed since the last sync   *)
(* are dirty.  HvSyncHive writes the dirty blocks to the log, if the hive  *)
(* has one, and then over the primary file.  Each file starts with a       *)
(* header of two sequence numbers: the first is raised and written before  *)
(* the blocks, the second after they have been flushed, so that a header   *)
(* whose numbers differ marks a file whose writing was cut short.          *)
(* HvLoadHive finds such a file when it starts and repairs it from the     *)
(* log.                                                                    *)
(*                                                                         *)
(* A call is the list of its file operations.  An operation may fail, and  *)
(* the process may stop between any two of them.  Of what was written to a *)
(* file and not flushed since then, a first part survives.                 *)
(***************************************************************************)
EXTENDS Integers, FiniteSets, SequencesExt

CONSTANTS
  FileTypes,      \* how hives may be initialised: "PRIMARY", "LOG", "ALTERNATE"
  FullWrites,     \* do callers also use HvWriteHive (and HvWriteAlternateHive)?
  MaxLength,      \* bound: blocks of the hive
  MaxChanges,     \* bound: changes made to the hive
  MaxSequence,    \* bound: the sequence number up to which calls start
  MaxSyncFaults,  \* bound: failed file operations while saving
  MaxLoadFaults,  \* bound: failed file operations while loading
  TornHeaders,    \* may a crash tear a header?
  None,           \* what was never written
  Torn            \* what a crash left half-written

ASSUME FileTypesAssumption == FileTypes \subseteq {"PRIMARY", "LOG", "ALTERNATE"}
ASSUME SwitchAssumption == {FullWrites, TornHeaders} \subseteq BOOLEAN
ASSUME BoundsAssumption ==
  /\ {MaxLength, MaxChanges, MaxSequence, MaxSyncFaults, MaxLoadFaults} \subseteq Nat
  /\ MaxLength > 0

VARIABLES
  fileType,   \* how this hive is initialised, each time
  status,     \* "Down", "Loading", "Up", or why the load failed
  hive,       \* the hive in memory
  call,       \* the call in progress
  disk,       \* what each file holds for certain
  pending,    \* what was written to each file since its last flush
  changes,    \* the changes made so far; the last one is the newest content
  faults,     \* the failures that may still happen, while saving and loading
  promised,   \* history: the image last reported as saved, or loaded
  attempts    \* history: the images that calls have tried to save since then

vars == <<fileType, status, hive, call, disk, pending, changes, faults, promised, attempts>>

Log       == fileType = "LOG"
Alternate == fileType = "ALTERNATE"

-----------------------------------------------------------------------------
(* Files *)

Files    == {"PRIMARY", "LOG", "ALTERNATE"}
Blocks   == 1 .. MaxLength
Contents == 0 .. MaxChanges
HEADER   == <<"header", 0>>
BITMAP   == <<"bitmap", 0>>
Block(i) == <<"block", i>>
Places   == {HEADER, BITMAP} \cup {Block(i) : i \in Blocks}

EmptyFile == [p \in Places |-> None]

Header(s1, s2, type, length) ==
  [Sequence1 |-> s1, Sequence2 |-> s2, Type |-> type, Length |-> length]

At(p, v) == [place |-> p, value |-> v]

\* The writes ws made to the file f: the last one at a place is what it holds.
WritesAt(ws, p) == {i \in DOMAIN ws : ws[i].place = p}

Written(f, ws) ==
  [p \in DOMAIN f |-> IF WritesAt(ws, p) = {} THEN f[p] ELSE ws[Max(WritesAt(ws, p))].value]

\* What a read of the running process sees.
View(f) == Written(disk[f], pending[f])

\* A crash may tear the write it interrupts: a block, or perhaps a header.
Tearable(w) == w.place[1] = "block" \/ (TornHeaders /\ w.place = HEADER)

(***************************************************************************)
(* What the unflushed writes ws may leave of the file f when the process   *)
(* stops: the first of them, the last one perhaps torn.                    *)
(***************************************************************************)
TornWrite(w) == At(w.place, Torn)

Outcomes(f, ws) ==
  {Written(f, SubSeq(ws, 1, n)) : n \in 0 .. Len(ws)} \cup
  {Written(f, Append(SubSeq(ws, 1, n - 1), TornWrite(ws[n]))) :
     n \in {m \in 1 .. Len(ws) : Tearable(ws[m])}}

-----------------------------------------------------------------------------
(* Calls *)

(***************************************************************************)
(* An operation of a call: the sequence numbers that the header in memory  *)
(* has when it is issued, the file, the writes it makes (none for a flush) *)
(* and what the call does if the operation fails.                          *)
(***************************************************************************)
Op(op, file, writes, s1, s2, fails) ==
  [op |-> op, file |-> file, writes |-> writes,
   Sequence1 |-> s1, Sequence2 |-> s2, fails |-> fails]

Write(file, writes, s1, s2, fails) == Op("write", file, writes, s1, s2, fails)
Flush(file, s1, s2, fails) == Op("flush", file, << >>, s1, s2, fails)

NoCall == [name |-> "none", base |-> None, steps |-> << >>]
NoHive == [Data |-> << >>, Dirty |-> {}, Sequence1 |-> 0, Sequence2 |-> 0]

\* The numbers of S in ascending order.
Below(S, n) == {m \in S : m < n}
Ascending(S) ==
  [i \in 1 .. Cardinality(S) |-> CHOOSE n \in S : Cardinality(Below(S, n)) = i - 1]

(***************************************************************************)
(* HvpWriteLog: header and dirty bitmap in one write; the dirty blocks one *)
(* after the other, packed; a flush; the header once more; a flush.        *)
(***************************************************************************)
HvpWriteLog(h) ==
  LET s     == h.Sequence1
      hd(n) == At(HEADER, Header(s + 1, n, "LOG", Len(h.Data)))
      dirty == Ascending(h.Dirty)
  IN  <<Write("LOG", <<hd(s), At(BITMAP, h.Dirty)>>, s + 1, s, "return")>>
      \o [i \in 1 .. Len(dirty) |->
            Write("LOG", <<At(Block(i), h.Data[dirty[i]])>>, s + 1, s, "return")]
      \o <<Flush("LOG", s + 1, s, "return"),
           Write("LOG", <<hd(s + 1)>>, s + 1, s + 1, "return"),
           Flush("LOG", s + 1, s + 1, "return")>>

\* Mutant of HvpWriteHive: the header is not flushed at the end.
HvpWriteHiveUnflushed(h, s, blocks, file, fails) ==
  LET hd(n) == At(HEADER, Header(s + 1, n, "PRIMARY", Len(h.Data)))
      order == Ascending(blocks)
  IN  <<Write(file, <<hd(s)>>, s + 1, s, fails)>>
      \o [i \in 1 .. Len(order) |->
            Write(file, <<At(Block(order[i]), h.Data[order[i]])>>, s + 1, s, fails)]
      \o <<Flush(file, s + 1, s, fails), Write(file, <<hd(s + 1)>>, s + 1, s + 1, fails)>>

\* Mutant of HvpWriteHive: one header, with both numbers raised, before the blocks.
HvpWriteHiveOnce(h, s, blocks, file, fails) ==
  LET order == Ascending(blocks)
  IN  <<Write(file, <<At(HEADER, Header(s + 1, s + 1, "PRIMARY", Len(h.Data)))>>,
              s + 1, s + 1, fails)>>
      \o [i \in 1 .. Len(order) |->
            Write(file, <<At(Block(order[i]), h.Data[order[i]])>>, s + 1, s + 1, fails)]
      \o <<Flush(file, s + 1, s + 1, fails)>>

(***************************************************************************)
(* HvpWriteHive, from the sequence number s on: the header; the blocks, at *)
(* their places; a flush; the header once more; a flush.  The header has   *)
(* type PRIMARY in the alternate file, too.                                *)
(***************************************************************************)
HvpWriteHive(h, s, blocks, file, fails) ==
  LET hd(n) == At(HEADER, Header(s + 1, n, "PRIMARY", Len(h.Data)))
      order == Ascending(blocks)
  IN  <<Write(file, <<hd(s)>>, s + 1, s, fails)>>
      \o [i \in 1 .. Len(order) |->
            Write(file, <<At(Block(order[i]), h.Data[order[i]])>>, s + 1, s, fails)]
      \o <<Flush(file, s + 1, s, fails),
           Write(file, <<hd(s + 1)>>, s + 1, s + 1, fails),
           Flush(file, s + 1, s + 1, fails)>>

\* Mutant of SyncOps: the log is written after the primary file.
SyncOpsLogLast(h) ==
  LET later == [h EXCEPT !.Sequence1 = @ + 1]
  IN  HvpWriteHive(h, h.Sequence1, h.Dirty, "PRIMARY", "return")
      \o (IF Log THEN HvpWriteLog(later) ELSE << >>)

\* The operations of HvSyncHive: the log, the primary file, the alternate file.
SyncOps(h) ==
  LET s == h.Sequence1 + (IF Log THEN 1 ELSE 0)
  IN  (IF Log THEN HvpWriteLog(h) ELSE << >>)
      \o HvpWriteHive(h, s, h.Dirty, "PRIMARY", "return")
      \o (IF Alternate THEN HvpWriteHive(h, s + 1, h.Dirty, "ALTERNATE", "return") ELSE << >>)

(***************************************************************************)
(* HvpTruncateLog overwrites the header (with one that HvpVerifyHiveHeader *)
(* rejects, its major version is 0), the bitmap and the start of the first *)
(* block.  Its caller ignores a failure.                                   *)
(***************************************************************************)
HvpTruncateLog(s) ==
  <<Write("LOG", <<At(HEADER, None), At(BITMAP, None), At(Block(1), Torn)>>, s, s, "ignore"),
    Flush("LOG", s, s, "ignore")>>

HvSyncHiveFromRecover(h) ==
  HvpWriteHive(h, h.Sequence1, h.Dirty, "PRIMARY", "IoFailed") \o HvpTruncateLog(h.Sequence1 + 1)

-----------------------------------------------------------------------------
(* Loading *)

HvpVerifyHiveHeader(hd, type) ==
  /\ hd \notin {None, Torn}
  /\ hd.Type = type
  /\ hd.Sequence1 = hd.Sequence2

HvpGetHiveHeader(f) ==
  IF f[HEADER] \notin {None, Torn} /\ f[HEADER].Sequence1 # f[HEADER].Sequence2
  THEN "RecoverData"
  ELSE IF HvpVerifyHiveHeader(f[HEADER], "PRIMARY") THEN "HiveSuccess"
  ELSE "RecoverHeader"

(***************************************************************************)
(* HvpRecoverDataFromLog: copy the blocks of the log's bitmap below the    *)
(* length in "base" back to their places, reading them from the log in the *)
(* order in which they were packed.  It fails without a valid bitmap and   *)
(* at a block that the log does not hold.                                  *)
(***************************************************************************)
HvpRecoverDataFromLog(log, base, fails) ==
  LET blocks  == Ascending(log[BITMAP] \cap 1 .. base.Length)
      copy(i) == IF log[Block(i)] = None
                 THEN Op("error", "LOG", << >>, 0, 0, fails)
                 ELSE Write("PRIMARY", <<At(Block(blocks[i]), log[Block(i)])>>, 0, 0, fails)
  IN  IF log[BITMAP] = None THEN <<Op("error", "LOG", << >>, 0, 0, fails)>>
      ELSE [i \in 1 .. Len(blocks) |-> copy(i)]

(***************************************************************************)
(* HvpRecoverHeaderFromLog: write the header of the log, which must be     *)
(* valid, over the header of the primary file.  It also compares the time  *)
(* stamps of the files, but KeQuerySystemTime gives 0 whenever one is set. *)
(***************************************************************************)
RecoveredHeader(log) ==
  IF HvpVerifyHiveHeader(log[HEADER], "LOG") THEN [log[HEADER] EXCEPT !.Type = "PRIMARY"]
  ELSE None

HvpRecoverHeaderFromLog(log) ==
  IF RecoveredHeader(log) # None
  THEN <<Write("PRIMARY", <<At(HEADER, RecoveredHeader(log))>>, 0, 0, "Corrupt")>>
  ELSE <<Op("error", "LOG", << >>, 0, 0, "Corrupt")>>

\* HvpInitializeFileHive: the blocks that the header "base" says there are.
Readable(f, base) == \A i \in 1 .. base.Length : f[Block(i)] # None

\* Mutant of Loaded: all bits of the dirty bitmap are set, those past the end too.
LoadedDirty(f, base) ==
  [Data      |-> [i \in 1 .. base.Length |-> f[Block(i)]],
   Dirty     |-> Blocks,
   Sequence1 |-> base.Sequence1,
   Sequence2 |-> base.Sequence2]

\* The hive as it is after it has been read in: clean.
Loaded(f, base) ==
  [Data      |-> [i \in 1 .. base.Length |-> f[Block(i)]],
   Dirty     |-> {},
   Sequence1 |-> base.Sequence1,
   Sequence2 |-> base.Sequence2]

-----------------------------------------------------------------------------

PrimaryImage(f) == [i \in 1 .. f[HEADER].Length |-> f[Block(i)]]

OneBlockHive == [EmptyFile EXCEPT ![HEADER] = Header(2, 2, "PRIMARY", 1), ![Block(1)] = 0]

Init ==
  /\ fileType \in FileTypes
  /\ status = "Down"
  /\ hive = NoHive
  /\ call = NoCall
  /\ disk = [f \in Files |-> IF f = "PRIMARY" \/ (f = "ALTERNATE" /\ Alternate)
                             THEN OneBlockHive ELSE EmptyFile]
  /\ pending = [f \in Files |-> << >>]
  /\ changes = 0
  /\ faults = [sync |-> MaxSyncFaults, load |-> MaxLoadFaults]
  /\ promised = <<0>>
  /\ attempts = {}

Idle == status = "Up" /\ call = NoCall

(***************************************************************************)
(* The rest of the program changes a cell of the block b, which sets the   *)
(* dirty bit of the block, or adds a bin.                                  *)
(***************************************************************************)
Change(data, b) ==
  /\ Idle /\ changes < MaxChanges
  /\ hive' = [hive EXCEPT !.Data = data, !.Dirty = @ \cup {b}]
  /\ changes' = changes + 1
  /\ UNCHANGED <<fileType, status, call, disk, pending, faults, promised, attempts>>

HvMarkCellDirty(b) == Change([hive.Data EXCEPT ![b] = changes + 1], b)

HvpAddBin ==
  /\ Len(hive.Data) < MaxLength
  /\ Change(Append(hive.Data, changes + 1), Len(hive.Data) + 1)

(***************************************************************************)
(* The start of a call that saves.  A header whose numbers differ, which   *)
(* an earlier failure leaves behind, makes it return FALSE at once.        *)
(***************************************************************************)
Save(name, steps) ==
  /\ Idle
  /\ hive.Sequence1 = hive.Sequence2 /\ hive.Sequence1 < MaxSequence
  /\ call' = [name |-> name, base |-> None, steps |-> steps]
  /\ UNCHANGED <<fileType, status, hive, disk, pending, changes, faults, promised>>

HvSyncHive ==
  /\ hive.Dirty # {}
  /\ Save("HvSyncHive", SyncOps(hive))
  /\ attempts' = attempts \cup {hive.Data}

AllBlocks == DOMAIN hive.Data

HvWriteHive ==
  /\ FullWrites
  /\ Save("HvWriteHive", HvpWriteHive(hive, hive.Sequence1, AllBlocks, "PRIMARY", "return"))
  /\ attempts' = attempts \cup {hive.Data}

HvWriteAlternateHive ==
  /\ FullWrites /\ Alternate
  /\ Save("HvWriteAlternateHive",
          HvpWriteHive(hive, hive.Sequence1, AllBlocks, "ALTERNATE", "return"))
  /\ UNCHANGED attempts

(***************************************************************************)
(* HvLoadHive.  A failed read of the header counts as a damaged header as  *)
(* long as the first block can be read, which we let it.                   *)
(***************************************************************************)
Initialize(base) ==
  IF Readable(View("PRIMARY"), base)
  THEN /\ status' = "Up"
       /\ hive' = Loaded(View("PRIMARY"), base)
       /\ call' = NoCall
       /\ promised' = hive'.Data /\ attempts' = {}
  ELSE /\ status' = "Corrupt"
       /\ hive' = NoHive
       /\ call' = NoCall
       /\ UNCHANGED <<promised, attempts>>

Recover(result, base) ==
  /\ IF Log
     THEN /\ status' = "Loading"
          /\ call' = [name |-> result, base |-> base,
                      steps |-> IF result = "RecoverData"
                                THEN HvpRecoverDataFromLog(View("LOG"), base, "Fallback")
                                ELSE HvpRecoverHeaderFromLog(View("LOG"))]
     ELSE /\ status' = "Corrupt"
          /\ UNCHANGED call
  /\ UNCHANGED <<hive, promised, attempts>>

HvLoadHive ==
  /\ status = "Down"
  /\ LET primary == View("PRIMARY")
     IN  \/ /\ IF HvpGetHiveHeader(primary) = "HiveSuccess"
               THEN Initialize(primary[HEADER])
               ELSE Recover(HvpGetHiveHeader(primary), primary[HEADER])
            /\ UNCHANGED faults
         \/ /\ faults.load > 0
            /\ faults' = [faults EXCEPT !.load = @ - 1]
            /\ Recover("RecoverHeader", None)
  /\ UNCHANGED <<fileType, disk, pending, changes>>

-----------------------------------------------------------------------------
(* The operations of the call in progress *)

Step == Head(call.steps)

StepSucceeds ==
  /\ call.steps # << >> /\ Step.op # "error"
  /\ hive' = [hive EXCEPT !.Sequence1 = Step.Sequence1, !.Sequence2 = Step.Sequence2]
  /\ call' = [call EXCEPT !.steps = Tail(@)]
  /\ IF Step.op = "flush"
     THEN /\ disk' = [disk EXCEPT ![Step.file] = View(Step.file)]
          /\ pending' = [pending EXCEPT ![Step.file] = << >>]
     ELSE /\ pending' = [pending EXCEPT ![Step.file] = @ \o Step.writes]
          /\ UNCHANGED disk
  /\ UNCHANGED <<fileType, status, changes, faults, promised, attempts>>

\* What the call does about a failed operation.
Failed(how) ==
  CASE how = "return" ->
         /\ hive' = [hive EXCEPT !.Sequence1 = Step.Sequence1, !.Sequence2 = Step.Sequence2]
         /\ call' = NoCall
         /\ UNCHANGED status
    [] how = "ignore" ->
         /\ call' = [call EXCEPT !.steps = << >>]
         /\ UNCHANGED <<status, hive>>
    [] how = "Fallback" ->
         /\ call' = [name |-> "Fallback", base |-> RecoveredHeader(View("LOG")),
                     steps |-> HvpRecoverHeaderFromLog(View("LOG"))]
         /\ UNCHANGED <<status, hive>>
    [] how \in {"Corrupt", "IoFailed"} ->
         /\ status' = how
         /\ hive' = NoHive
         /\ call' = NoCall

\* A failed write leaves nothing behind, or part of what it should have written.
StepFails ==
  /\ call.steps # << >>
  /\ IF Step.op = "error" THEN UNCHANGED faults
     ELSE LET kind == IF status = "Up" THEN "sync" ELSE "load"
          IN  faults[kind] > 0 /\ faults' = [faults EXCEPT ![kind] = @ - 1]
  /\ \/ UNCHANGED pending
     \/ /\ Step.writes # << >> /\ Tearable(Step.writes[1])
        /\ pending' = [pending EXCEPT ![Step.file] = Append(@, TornWrite(Step.writes[1]))]
  /\ Failed(Step.fails)
  /\ UNCHANGED <<fileType, disk, changes, promised, attempts>>

\* HvSyncHive and HvWriteHive report success; only the former cleans the blocks.
SaveReturns ==
  /\ call.name \in {"HvSyncHive", "HvWriteHive", "HvWriteAlternateHive"}
  /\ call.steps = << >>
  /\ call' = NoCall
  /\ hive' = IF call.name = "HvSyncHive" THEN [hive EXCEPT !.Dirty = {}] ELSE hive
  /\ IF call.name = "HvWriteAlternateHive" THEN UNCHANGED <<promised, attempts>>
     ELSE promised' = hive.Data /\ attempts' = {}
  /\ UNCHANGED <<fileType, status, disk, pending, changes, faults>>

\* The header has been recovered: now the data.
HeaderRecovered ==
  /\ call.name = "RecoverHeader" /\ call.steps = << >>
  /\ LET base == RecoveredHeader(View("LOG"))
     IN  call' = [name |-> "ReplayData", base |-> base,
                  steps |-> HvpRecoverDataFromLog(View("LOG"), base, "Corrupt")]
  /\ UNCHANGED <<fileType, status, hive, disk, pending, changes, faults, promised, attempts>>

(***************************************************************************)
(* The repaired file is read in, and HvInitialize flushes it with          *)
(* HvSyncHiveFromRecover, which like every save refuses a header whose     *)
(* numbers differ.                                                         *)
(***************************************************************************)
DataRecovered ==
  /\ call.name \in {"RecoverData", "ReplayData", "Fallback"} /\ call.steps = << >>
  /\ IF ~Readable(View("PRIMARY"), call.base)
     THEN status' = "Corrupt" /\ hive' = NoHive /\ call' = NoCall
     ELSE LET h == Loaded(View("PRIMARY"), call.base)
          IN  IF h.Sequence1 # h.Sequence2
              THEN status' = "IoFailed" /\ hive' = NoHive /\ call' = NoCall
              ELSE /\ hive' = h
                   /\ call' = [name |-> "HvSyncHiveFromRecover", base |-> None,
                               steps |-> HvSyncHiveFromRecover(h)]
                   /\ UNCHANGED status
  /\ UNCHANGED <<fileType, disk, pending, changes, faults, promised, attempts>>

LoadReturns ==
  /\ call.name = "HvSyncHiveFromRecover" /\ call.steps = << >>
  /\ status' = "Up"
  /\ call' = NoCall
  /\ promised' = hive.Data /\ attempts' = {}
  /\ UNCHANGED <<fileType, hive, disk, pending, changes, faults>>

\* The process stops, or gives up after a failed load; it may load again later.
Crash ==
  /\ status # "Down"
  /\ status' = "Down" /\ hive' = NoHive /\ call' = NoCall
  /\ \E outcome \in Outcomes(disk["PRIMARY"], pending["PRIMARY"]),
        log \in Outcomes(disk["LOG"], pending["LOG"]),
        alternate \in Outcomes(disk["ALTERNATE"], pending["ALTERNATE"]) :
       disk' = [f \in Files |-> CASE f = "PRIMARY" -> outcome
                                  [] f = "LOG" -> log
                                  [] OTHER -> alternate]
  /\ pending' = [f \in Files |-> << >>]
  /\ UNCHANGED <<fileType, changes, faults, promised, attempts>>

Next ==
  \/ \E b \in DOMAIN hive.Data : HvMarkCellDirty(b)
  \/ HvpAddBin
  \/ HvSyncHive \/ HvWriteHive \/ HvWriteAlternateHive
  \/ HvLoadHive
  \/ StepSucceeds \/ StepFails
  \/ SaveReturns \/ HeaderRecovered \/ DataRecovered \/ LoadReturns
  \/ Crash

Spec == Init /\ [][Next]_vars
-----------------------------------------------------------------------------

Images     == UNION {[1 .. n -> Contents \cup {Torn}] : n \in 0 .. MaxLength}
Sequences  == 0 .. MaxSequence + 3
HeaderType == [Sequence1 : Sequences, Sequence2 : Sequences,
               Type : {"PRIMARY", "LOG"}, Length : 1 .. MaxLength]

\* What was never or half written is not mistaken for anything that was.
ASSUME SentinelAssumption ==
  /\ None # Torn
  /\ {None, Torn} \cap (Contents \cup HeaderType) = {}
  /\ \A B \in SUBSET Blocks : B \notin {None, Torn}

FileOK(f) ==
  /\ DOMAIN f = Places
  /\ f[HEADER] \in HeaderType \cup {None, Torn}
  /\ f[BITMAP] \in {None} \cup SUBSET Blocks
  /\ \A i \in Blocks : f[Block(i)] \in Contents \cup {None, Torn}

\* The variables have their types.
TypeOK ==
  /\ fileType \in FileTypes
  /\ status \in {"Down", "Loading", "Up", "Corrupt", "IoFailed"}
  /\ hive.Data \in Images /\ hive.Dirty \subseteq DOMAIN hive.Data
  /\ hive.Sequence1 \in Sequences /\ hive.Sequence2 \in Sequences
  /\ \A f \in Files : FileOK(View(f)) /\ FileOK(disk[f])
  /\ changes \in Contents
  /\ promised \in Images /\ attempts \subseteq Images

\* Does a load that finds the file p take it as it is?
Sound(p) == HvpGetHiveHeader(p) = "HiveSuccess"

(***************************************************************************)
(* When a save has reported success, and nothing has been written since,   *)
(* the next load finds that very image: whatever happens to the process,   *)
(* no part of it waits in a buffer, and the header does not ask for a      *)
(* recovery (which might fail).                                            *)
(***************************************************************************)
SyncedIsDurable ==
  status = "Up" /\ attempts = {} =>
    \A p \in Outcomes(disk["PRIMARY"], pending["PRIMARY"]) :
      Sound(p) /\ PrimaryImage(p) = promised

(***************************************************************************)
(* The log is written and flushed before the primary file is touched, and  *)
(* repeats all that the primary file may lack: whenever a crash would      *)
(* leave a primary file that asks for the log, replaying the log, as       *)
(* HvpRecoverDataFromLog does, gives a whole image, the promised one or    *)
(* one that was being saved.  The code keeps to it until a file operation  *)
(* fails: a sync that is retried after its last header write failed        *)
(* rewrites the log that the primary file still needs (hivewrt.cpp:301).   *)
(***************************************************************************)
ReplayOps(p, log) == HvpRecoverDataFromLog(log, p[HEADER], "return")

Replayed(p, log) ==
  Written(p, [i \in DOMAIN ReplayOps(p, log) |-> ReplayOps(p, log)[i].writes[1]])

Covers(p, log) ==
  HvpGetHiveHeader(p) = "RecoverData" =>
    /\ \A i \in DOMAIN ReplayOps(p, log) : ReplayOps(p, log)[i].op = "write"
    /\ PrimaryImage(Replayed(p, log)) \in attempts \cup {promised}

LogCovers ==
  Log => \A p \in Outcomes(disk["PRIMARY"], pending["PRIMARY"]),
            log \in Outcomes(disk["LOG"], pending["LOG"]) : Covers(p, log)

\* The same, as long as no file operation has failed.
LogCoversUntilFailure ==
  faults = [sync |-> MaxSyncFaults, load |-> MaxLoadFaults] => LogCovers

(***************************************************************************)
(* The primary file on its own: a load that succeeds yields the promised   *)
(* image or the whole of one that was being saved.                         *)
(***************************************************************************)
Durable == INSTANCE DurableHive
             WITH up      <- status = "Up",
                  working <- IF status = "Up" THEN hive.Data ELSE << >>

DurableSpec == Durable!Spec

(***************************************************************************)
(* A hive that was recovered from its log is flushed and comes up, unless  *)
(* a file operation fails.  The code does not keep to it: the header still *)
(* has two different numbers, which the flush refuses (hiveinit.cpp:1457). *)
(***************************************************************************)
RecoveredIsFlushed == faults.load = MaxLoadFaults => status # "IoFailed"

\* A hive that comes up has no block that was cut short by a crash.
NoTornBlock == status = "Up" => \A i \in DOMAIN hive.Data : hive.Data[i] # Torn

(***************************************************************************)
(* The alternate file is a backup of the primary one: as long as its       *)
(* header is sound and nothing is being saved, it holds what was promised. *)
(* The code does not keep to it: after a crash between the two files the   *)
(* next sync writes newly dirty blocks only (hivewrt.cpp:394).             *)
(***************************************************************************)
AlternateIsBackup ==
  Idle /\ attempts = {} /\ Sound(View("ALTERNATE")) =>
    PrimaryImage(View("ALTERNATE")) = promised

=============================================================================
