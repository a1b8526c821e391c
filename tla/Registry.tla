------------------------------ MODULE Registry ------------------------------
(***************************************************************************)
(* The registry as its callers see it (core/registry_api.cpp,              *)
(* core/reg_hive_mgmt.cpp, core/reg_path.cpp, core/reg_keyops.cpp,         *)
(* core/hive_init.cpp): one hive, SYSTEM, in memory and in its file, from  *)
(* initialisation to shutdown, over several processes.                     *)
(*                                                                         *)
(* A hive is loaded from its file, or made in memory to be exported, or    *)
(* left in memory by an initialisation that found no file.  Keys are       *)
(* reached by their paths, with one link on the way: CurrentControlSet is  *)
(* a volatile key that stands for ControlSet001.  One key may be held      *)
(* open.  Shutting down writes the blocks that hold dirty cells.  All runs *)
(* in one thread, so that a call is one step; what a crash in the middle   *)
(* of the writing may leave is the subject of HiveSync.                    *)
(***************************************************************************)
EXTENDS KeyCells

CONSTANTS
  ControlSet001, CurrentControlSet,  \* the keys that every initialisation makes
  UserNames,       \* the names that callers give to keys of their own
  Foreign,         \* may the first file be one with two descriptors?
  MaxSessions,     \* bound: how often the registry is initialised
  MaxChanges,      \* bound: calls that create or delete keys
  MaxFailures,     \* bound: failures to enter a new key in its parent
  None             \* no file, no link, no key held open

ASSUME BoundsAssumption == {MaxSessions, MaxChanges, MaxFailures} \subseteq Nat

\* A hive has room for its descriptor, and for what the first file holds.
ASSUME RoomAssumption ==
  /\ StableCells # {RootCell}
  /\ Foreign => Cardinality(StableCells) > 3

ASSUME NamesAssumption == ControlSet001 # CurrentControlSet

Names == UserNames \cup {ControlSet001, CurrentControlSet}

\* What a cell may hold, and hives of such cells.
Nodes ==
  [kind : {"key"}, Name : Names \cup {""}, Parent : Cells \cup {HCELL_NIL},
   Security : Cells \cup {HCELL_NIL},
   SubKeys : [Stable : SUBSET StableCells, Volatile : SUBSET VolatileCells]]

Descriptors ==
  [kind : {"security"}, ReferenceCount : Int,
   Flink : Cells \cup {HCELL_NIL}, Blink : Cells \cup {HCELL_NIL}]

Contents == Nodes \cup Descriptors \cup {FreeCell}

Hives == [cell : [Cells -> Contents], dirty : SUBSET {BlockOf[c] : c \in StableCells}]

ASSUME NoneAssumption == None \notin [StableCells -> Contents]

VARIABLES
  phase,    \* "down", "loaded" from the file, or a hive in "memory" only
  handle,   \* the FILE of the hive: "none", "open", "closed"
  api,      \* is the instance of the C++ API set?
  hive,     \* the hive in memory
  file,     \* the cells that the file holds, or None
  link,     \* the reparse point: [source, target, path], the path of the target's
            \* key, and none once that key is deleted; or None
  key,      \* the key held open: [cell, path], no path once deleted; or None
  left      \* what may still happen: sessions, changes, failures

vars == <<phase, handle, api, hive, file, link, key, left>>

Up == phase # "down"

\* One more of the sessions that are looked at.
Begins == ~Up /\ left.sessions > 0 /\ left' = [left EXCEPT !.sessions = @ - 1]

-----------------------------------------------------------------------------
(* Paths *)

\* Mutant of Resolved: a path leads to the source of the link and not through it.
ResolvedNot(c) == c

\* The destination of the link, for the key that is its source.
Resolved(c) == IF link # None /\ c = link.source THEN link.target ELSE c

\* The key that the names of a path lead to from start.
Step(c, name) ==
  IF Is(hive, c, "key") THEN Resolved(CmpFindSubKeyByName(hive, c, name)) ELSE HCELL_NIL

RegpOpenKey(start, path) == FoldLeft(Step, start, path)

(***************************************************************************)
(* RegpCreateOrOpenKey with AllowCreation: each name of the path is looked *)
(* up, and a key is made of it if there is none.  A failure ends the walk, *)
(* and the keys made so far stay.  What a walk through a link whose target *)
(* was deleted does is undefined; here it ends there as well.              *)
(***************************************************************************)
RegpCreateKey(h, start, path, type, fails) ==
  LET enter(at, name) ==
        LET found == CmpFindSubKeyByName(at.hive, at.cell, name)
        IN  IF ~Is(at.hive, at.cell, "key") THEN [at EXCEPT !.cell = HCELL_NIL]
            ELSE IF found = HCELL_NIL
            THEN CmiAddSubKey(at.hive, at.cell, name, type, fails)
            ELSE [at EXCEPT !.cell = Resolved(found)]
  IN  FoldLeft(enter, [hive |-> h, cell |-> start], path)

\* The keys from the root down, each with its path: one without links.
Tree(h) ==
  LET children(p) == {[cell |-> k, path |-> Append(p.path, h.cell[k].Name)] :
                        k \in {c \in SubKeysOf(h, p.cell) : Is(h, c, "key")}}
      level[n \in 0 .. Cardinality(KeyCellsOf(h))] ==
        IF n = 0 THEN {[cell |-> RootCell, path |-> << >>]}
        ELSE UNION {children(p) : p \in level[n - 1]}
  IN  UNION {level[n] : n \in DOMAIN level}

PathsOf(h, c) == {p.path : p \in {q \in Tree(h) : q.cell = c}}

-----------------------------------------------------------------------------
(* Files *)

\* HvSyncHive: the dirty blocks are written.
Synced(h) ==
  [c \in StableCells |->
     IF BlockOf[c] \in h.dirty THEN h.cell[c] ELSE file[c]]

\* A file as another program leaves it: two descriptors in one ring.
ForeignFile ==
  LET keyAt(s, subs) == [CM_KEY_NODE("", HCELL_NIL, s) EXCEPT !.SubKeys.Stable = subs]
      child(s)       == CM_KEY_NODE(ControlSet001, RootCell, s)
      free           == StableCells \ {RootCell}
      first          == Min(free)
      second         == Min(free \ {first})
      third          == Min(free \ {first, second})
  IN  [c \in StableCells |->
        CASE c = RootCell -> keyAt(first, {third})
          [] c = first    -> CM_KEY_SECURITY(1, second, second)
          [] c = second   -> CM_KEY_SECURITY(1, first, first)
          [] c = third    -> child(second)
          [] OTHER        -> FreeCell]

-----------------------------------------------------------------------------
(* Life of the registry *)

Init ==
  /\ phase = "down" /\ handle = "none" /\ api = FALSE
  /\ hive = EmptyHive /\ link = None /\ key = None
  /\ file \in {None} \cup (IF Foreign THEN {ForeignFile} ELSE {})
  /\ left = [sessions |-> MaxSessions, changes |-> MaxChanges, failures |-> MaxFailures]

\* ConnectRegistry: a hive in memory, with the descriptor that all keys share.
Connected == CmiCreateSecurityKey(CmiInitializeHive, RootCell)

\* ControlSet001, and CurrentControlSet as a link to it.
WithControlSet(h) == RegpCreateKey(h, RootCell, <<ControlSet001>>, "Stable", FALSE)
WithLink(at) == RegpCreateKey(at.hive, RootCell, <<CurrentControlSet>>, "Volatile", FALSE)

Linked(at, linked) ==
  /\ at.cell # HCELL_NIL /\ linked.cell # HCELL_NIL  \* the bounds leave room
  /\ hive' = linked.hive
  /\ link' = [source |-> linked.cell, target |-> at.cell, path |-> <<ControlSet001>>]

\* Mutant of RegInitializeRegistry: the hive keeps the FILE of an earlier session.
RegInitializeRegistryKept(h, p, f) ==
  /\ Linked(WithControlSet(h), WithLink(WithControlSet(h)))
  /\ phase' = p /\ handle' = (IF handle = "open" THEN handle ELSE f)

\* The list of links starts empty, so that the paths of this call are plain.
RegInitializeRegistry(h, p, f) ==
  /\ Linked(WithControlSet(h), WithLink(WithControlSet(h)))
  /\ phase' = p /\ handle' = f

\* Registry::initialize, with the file of the hive at hand.
InitializeLoads ==
  /\ ~api /\ Begins /\ file # None
  /\ \A c \in Loadable(HvInitialize(file)) : CmpValidateKey(HvInitialize(file), c)
  /\ RegInitializeRegistry(CmpPurgeVolatiles(HvInitialize(file)), "loaded", "open")
  /\ api' = TRUE
  /\ UNCHANGED <<file, key>>

(***************************************************************************)
(* Registry::initialize without the file: the hive has been connected, the *)
(* call fails, and the instance is set.  The next call returns at once.    *)
(***************************************************************************)
InitializeFails ==
  /\ ~api /\ Begins /\ file = None
  /\ phase' = "memory" /\ handle' = "none" /\ api' = TRUE
  /\ hive' = Connected
  /\ UNCHANGED <<file, link, key>>

\* HiveInitializer::initialize_from_inf starts with a registry in memory.
InitializeFromInf ==
  /\ ~api /\ Begins
  /\ RegInitializeRegistry(Connected, "memory", "none")
  /\ UNCHANGED <<api, file, key>>

(***************************************************************************)
(* HiveInitializer saves all of a hive, made in memory or loaded, without  *)
(* cleaning any bit, to a file that it closes; the hive keeps that FILE.   *)
(***************************************************************************)
SaveRegistryIntoHive ==
  /\ Up
  /\ file' = [c \in StableCells |-> hive.cell[c]]
  /\ handle' = "closed"
  /\ UNCHANGED <<phase, api, hive, link, key, left>>

\* The next process starts with its globals zero.
Ended ==
  /\ phase' = "down" /\ api' = FALSE /\ handle' = "none"
  /\ hive' = EmptyHive /\ link' = None /\ key' = None

(***************************************************************************)
(* RegShutdownRegistry writes the dirty blocks of the hive.  With a FILE   *)
(* that was never opened, or is closed again, the write is undefined: the  *)
(* process ends there, or nothing is written.  What a handle is still good *)
(* for in a later session is undefined too: it is not used any more.       *)
(***************************************************************************)
RegShutdownRegistry ==
  /\ Up /\ (handle = "open" \/ hive.dirty = {})
  /\ file' = (IF handle = "open" THEN Synced(hive) ELSE file)
  /\ phase' = "down" /\ api' = FALSE /\ link' = None
  /\ hive' = EmptyHive
  /\ key' = None
  /\ UNCHANGED <<handle, left>>

\* The process ends without shutting down, or while it writes to a bad FILE.
Exit == Up /\ Ended /\ UNCHANGED <<file, left>>

-----------------------------------------------------------------------------
(* Operations on keys *)

\* Where a path starts: at the root of the hive, or at the key held open.
Starts == {RootCell} \cup
  (IF key # None /\ Is(hive, key.cell, "key") THEN {key.cell} ELSE {})

PathsFrom(start) ==
  IF start = RootCell
  THEN {<<n>> : n \in Names} \cup
       {<<n, m>> : n \in UserNames \cup {CurrentControlSet}, m \in UserNames}
  ELSE {<<n>> : n \in UserNames}

\* One more of the calls, and of the failures, that are looked at.
Changes(failures) ==
  /\ left.changes > 0 /\ left.failures >= failures
  /\ left' = [left EXCEPT !.changes = @ - 1, !.failures = @ - failures]

\* Key::create_subkey, Registry::create_key and CreateKeyEx with REG_OPTION_VOLATILE.
NTRegCreateKeyExW(start, path, type, fails) ==
  /\ Up
  /\ Changes(IF fails THEN 1 ELSE 0)
  /\ hive' = RegpCreateKey(hive, start, path, type, fails).hive
  /\ hive' # hive
  /\ UNCHANGED <<phase, handle, api, file, link, key>>

\* Key::open_subkey: the handle keeps the cell of the key.
Opens(c) ==
  /\ c # HCELL_NIL
  /\ \E p \in PathsOf(hive, c) : key' = [cell |-> c, path |-> p]

NTRegOpenKeyW(start, path) ==
  /\ Up /\ key = None
  /\ Opens(RegpOpenKey(start, path))
  /\ UNCHANGED <<phase, handle, api, hive, file, link, left>>

NTRegCloseKey ==
  /\ Up /\ key # None
  /\ key' = None
  /\ UNCHANGED <<phase, handle, api, hive, file, link, left>>

\* Key::delete_subkey and Registry::delete_key: not the root, no key with subkeys.  A
\* handle and the link go on with the cell, of which they are not told.
Deletes(c) ==
  /\ Is(hive, c, "key") /\ c # RootCell /\ SubKeysOf(hive, c) = {}
  /\ hive' = CmpFreeKeyByCell(hive, c)
  /\ key' = (IF key # None /\ key.cell = c THEN [key EXCEPT !.path = None] ELSE key)
  /\ link' = (IF link # None /\ link.target = c THEN [link EXCEPT !.path = None] ELSE link)

NTRegDeleteKeyW(start, path) ==
  /\ Up
  /\ Changes(0)
  /\ Deletes(RegpOpenKey(start, path))
  /\ UNCHANGED <<phase, handle, api, file>>

Next ==
  \/ InitializeLoads \/ InitializeFails \/ InitializeFromInf
  \/ SaveRegistryIntoHive \/ RegShutdownRegistry \/ Exit
  \/ \E start \in Starts : \E path \in PathsFrom(start) :
       \/ \E type \in {"Stable", "Volatile"}, fails \in BOOLEAN :
            NTRegCreateKeyExW(start, path, type, fails)
       \/ NTRegOpenKeyW(start, path)
       \/ NTRegDeleteKeyW(start, path)
  \/ NTRegCloseKey

Spec == Init /\ [][Next]_vars

-----------------------------------------------------------------------------
(* Properties *)

\* The shape of the state, each subkey in the list of its own store, and a hive in
\* memory exactly while the registry is up.
TypeOK ==
  /\ phase \in {"down", "loaded", "memory"} /\ handle \in {"none", "open", "closed"}
  /\ hive \in Hives
  /\ file # None => file \in [StableCells -> Contents]
  /\ {c \in Cells : hive.cell[c] # FreeCell} = {} <=> ~Up
  /\ phase = "loaded" => file # None /\ handle # "none"

(***************************************************************************)
(* CmpFreeSecurityDescriptor expects the cell that a key names as its      *)
(* descriptor to be one: no deletion of another key has freed it.          *)
(***************************************************************************)
DescriptorsSigned ==
  \A c \in KeyCellsOf(hive) : Is(hive, hive.cell[c].Security, "security")

(***************************************************************************)
(* A descriptor counts at least the keys that use it, and the descriptors  *)
(* of a hive form a ring: whatever is created, deleted, failed, saved and  *)
(* loaded again, in any order.                                             *)
(***************************************************************************)
DescriptorsSound ==
  /\ DescriptorsSigned
  /\ \A s \in {c \in Cells : hive.cell[c].kind = "security"} :
       /\ hive.cell[s].ReferenceCount >= Cardinality(Users(hive, s))
       /\ Is(hive, hive.cell[s].Flink, "security") /\ hive.cell[hive.cell[s].Flink].Blink = s
       /\ Is(hive, hive.cell[s].Blink, "security") /\ hive.cell[hive.cell[s].Blink].Flink = s

(***************************************************************************)
(* The only key cells that no path leads to are the stable keys that were  *)
(* created below a volatile one and outlived it in the file, and the keys  *)
(* below them.                                                             *)
(***************************************************************************)
OnlyStrandedKeysLost ==
  \A c \in KeyCellsOf(hive) :
    \/ c = RootCell
    \/ hive.cell[c].Parent \in VolatileCells /\ c \in StableCells
    \/ Is(hive, hive.cell[c].Parent, "key") /\ c \in SubKeysOf(hive, hive.cell[c].Parent)

(***************************************************************************)
(* A handle keeps the offset of a cell: as long as that key is not deleted *)
(* itself, the cell is the key that the handle was made for.               *)
(***************************************************************************)
HandleKeepsItsKey ==
  key # None /\ key.path # None => PathsOf(hive, key.cell) = {key.path}

(***************************************************************************)
(* The reparse point keeps the offsets of two cells.  Its source is        *)
(* CurrentControlSet as long as the registry is up, for a deletion by that *)
(* path reaches the target instead; its target is ControlSet001 until that *)
(* very key is deleted, by either path.                                    *)
(***************************************************************************)
LinkKeepsItsKeys ==
  link # None =>
    /\ PathsOf(hive, link.source) = {<<CurrentControlSet>>}
    /\ link.path # None => PathsOf(hive, link.target) = {link.path}

(***************************************************************************)
(* What the registry leaves in the file is a hive that its own check       *)
(* accepts at the next start.                                              *)
(***************************************************************************)
SavedIsAccepted ==
  file # None =>
    \A c \in Loadable(HvInitialize(file)) : CmpValidateKey(HvInitialize(file), c)

(***************************************************************************)
(* The registry is a tree of keys of which the stable part, down from the  *)
(* root, is saved and found again (KeyTree).                               *)
(***************************************************************************)
KeysOf(h) == {[path |-> p.path, volatile |-> p.cell \in VolatileCells] : p \in Tree(h)}

Abstract ==
  INSTANCE KeyTree WITH
    mode  <- phase,
    tree  <- IF Up THEN KeysOf(hive) ELSE {},
    saved <- IF file = None THEN {} ELSE {k.path : k \in KeysOf(HvInitialize(file))},
    Defaults <- {[path |-> <<ControlSet001>>, volatile |-> FALSE],
                 [path |-> <<CurrentControlSet>>, volatile |-> TRUE]}

TreeSpec == Abstract!Spec
=============================================================================
