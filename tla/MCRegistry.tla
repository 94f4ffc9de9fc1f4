----------------------------- MODULE MCRegistry -----------------------------
(* Two points in an index of four buckets, with keys that collide. *)
EXTENDS Registry

CONSTANTS a, b, i1, i2

\* One bucket for most keys, the last: probing wraps around.
MCHome == [k \in Keys |-> IF k[2] = b /\ k[1] = 0 THEN 0 ELSE Capacity - 1]
MCBase == <<[id |-> i1, name |-> a]>>

=============================================================================
