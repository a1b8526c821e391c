---------------------------- MODULE MCHiveCells ----------------------------
(***************************************************************************)
(* An instance of HiveCells for TLC, whose constants are plain values:     *)
(* three short blocks, in which bins of one and of two blocks stand side   *)
(* by side, and cells of several size classes, linear and logarithmic.     *)
(***************************************************************************)
EXTENDS HiveCells
============================================================================
