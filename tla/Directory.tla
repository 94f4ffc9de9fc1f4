------------------------------ MODULE Directory -----------------------------
(***************************************************************************)
(* What the point registry promises: each id carries at most one key, a    *)
(* partition and a name; no key is carried twice; a point keeps its        *)
(* partition; every change is one step.  Once compromised (the registry's  *)
(* module says by what) it promises nothing.                               *)
(***************************************************************************)
CONSTANTS Ids, Keys, None       \* Keys: <<partition, name>> pairs

VARIABLES dir,                  \* the key each id is found by, or None
          compromised

vars == <<dir, compromised>>

Init == dir = [i \in Ids |-> None] /\ compromised = FALSE

OnlyAt(i) == \A j \in Ids \ {i} : dir'[j] = dir[j]

\* i gets a key that no id carries.
Assign(i) == dir'[i] \in Keys /\ (\A j \in Ids : dir[j] # dir'[i]) /\ OnlyAt(i)

Create(i) == dir[i] = None /\ Assign(i)
Delete(i) == dir[i] # None /\ dir'[i] = None /\ OnlyAt(i)
Rename(i) == dir[i] # None /\ Assign(i) /\ dir'[i][1] = dir[i][1]

(* The segment is unlinked and created again. *)
Renew == \A i \in Ids : dir'[i] = None

Next ==
  \/ compromised' = TRUE
  \/ /\ UNCHANGED compromised
     /\ (\E i \in Ids : Create(i) \/ Delete(i) \/ Rename(i)) \/ Renew

Spec == Init /\ [][Next]_vars

=============================================================================
