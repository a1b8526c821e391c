------------------------------ MODULE ValueMap ------------------------------
(***************************************************************************)
(* What the values of two keys promise: each key maps names to data.  The  *)
(* stable key is as it was last saved when the hive is loaded again, the   *)
(* volatile key comes back empty.                                          *)
(***************************************************************************)
CONSTANTS
  Names,      \* the names of values
  Payloads,   \* what can be stored
  Empty,      \* the payload of no bytes
  None,       \* there is no such value
  Void        \* there is one, but it has no data

VARIABLES stable, volatile, saved

vars == <<stable, volatile, saved>>

Values == [Names -> Payloads \cup {None, Void}]
NoValues == [n \in Names |-> None]

Init == stable = NoValues /\ volatile = NoValues /\ saved = NoValues

\* One value gets data, or goes, or, if it is new and there is no room, stays
\* without data; or all of them go with their key.
Changed(old, new) ==
  \/ new = NoValues
  \/ \E n \in Names :
       /\ new = [old EXCEPT ![n] = new[n]]
       /\ new[n] \in Payloads \cup {None, Void}
       /\ new[n] = Void => old[n] \in {None, Void}

Change ==
  /\ UNCHANGED saved
  /\ \/ UNCHANGED volatile /\ \E old \in {stable}, new \in {stable'} : Changed(old, new)
     \/ UNCHANGED stable /\ \E old \in {volatile}, new \in {volatile'} : Changed(old, new)

\* A value that was empty is without data in the copy.
Copy ==
  /\ volatile = NoValues
  /\ volatile' = [n \in Names |-> IF stable[n] = Empty THEN Void ELSE stable[n]]
  /\ UNCHANGED <<stable, saved>>

Save == saved' = stable /\ UNCHANGED <<stable, volatile>>

Reload == stable' = saved /\ volatile' = NoValues /\ UNCHANGED saved

Next == Change \/ Copy \/ Save \/ Reload

Spec == Init /\ [][Next]_vars
=============================================================================
