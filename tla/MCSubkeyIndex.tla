---------------------------- MODULE MCSubkeyIndex ----------------------------
(***************************************************************************)
(* A small instance of SubkeyIndex.  Six names with leaves of at most four *)
(* entries are enough for roots of three leaves, which have grown, and for *)
(* leaves that are split, grow below a root, become empty and are filled   *)
(* again; one name can also be volatile.                                   *)
(***************************************************************************)
EXTENDS SubkeyIndex

MCNames    == 1 .. 6
MCVersions == {3, 5}
MCSubkeys  == ({"Stable"} \X MCNames) \cup ({"Volatile"} \X {3})
==============================================================================
