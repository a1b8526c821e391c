---------------------------- MODULE DurableHive ----------------------------
(***************************************************************************)
(* What the hive layer promises about its backing store, without files,    *)
(* sequence numbers or logs.  The program changes a working image.  A call *)
(* that saves it either reports success, and then the image is promised,   *)
(* or is cut short by a failure or a crash.  A later load, if it succeeds, *)
(* yields the promised image or the whole of one that was being saved:     *)
(* never a mixture, and from then on always the same one.                  *)
(***************************************************************************)
VARIABLES
  up,         \* is the hive loaded?
  working,    \* the image in memory, while it is
  promised,   \* the image whose saving was last reported, or that was loaded
  attempts    \* the images that calls have tried to save since then

vars == <<up, working, promised, attempts>>

Init == ~up /\ attempts = {}

Change == up /\ UNCHANGED <<up, promised, attempts>>

Begin ==
  /\ up
  /\ attempts' = attempts \cup {working}
  /\ UNCHANGED <<up, working, promised>>

Report ==
  /\ up /\ working \in attempts
  /\ promised' = working /\ attempts' = {}
  /\ UNCHANGED <<up, working>>

Crash == up /\ ~up' /\ UNCHANGED <<promised, attempts>>

Load ==
  /\ ~up /\ up'
  /\ working' \in attempts \cup {promised}
  /\ promised' = working' /\ attempts' = {}

Next == Change \/ Begin \/ Report \/ Crash \/ Load

Spec == Init /\ [][Next]_vars
=============================================================================
