---------------------------- MODULE MCCallbacks ----------------------------
(* Three handles over a mask of two bits: two callers hold different handles, *)
(* and a third request reaches the undefined shift.  Three callbacks on the   *)
(* first handle, one on the second, and notifications two deep.               *)
EXTENDS Callbacks
=============================================================================
