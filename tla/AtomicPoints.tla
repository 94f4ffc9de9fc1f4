---------------------------- MODULE AtomicPoints ----------------------------
(***************************************************************************)
(* What the point store promises its callers: every point holds one whole  *)
(* record, an update replaces the record in one step, and a successful     *)
(* bounded read returns the record the point holds at that instant.  The   *)
(* promise ends, for good, once an attaching process has overwritten an    *)
(* odd lock word ("compromised"): the recovery in irt_shm_init publishes   *)
(* whatever the segment then holds.                                        *)
(***************************************************************************)
EXTENDS Naturals

CONSTANTS Points,   \* point ids
          Words,    \* the separately stored fields of a record
          Readers   \* callers of the bounded reads

VARIABLES store,        \* the record every point holds
          result,       \* {the record} after a successful read, else {}
          compromised   \* a lock word was overwritten by a recovery

avars == <<store, result, compromised>>

Record == [Words -> Nat]

Init == /\ store = [p \in Points |-> [w \in Words |-> 0]]
        /\ result = [r \in Readers |-> {}]
        /\ compromised = FALSE

(* One update: the record of one point changes, in one step. *)
Update(p) == /\ store' \in [Points -> Record]
             /\ \A other \in Points \ {p} : store'[other] = store[other]
             /\ UNCHANGED <<result, compromised>>

(* One read returns: the reader gets the record some point holds now. *)
Read(r) == /\ \E p \in Points : result' = [result EXCEPT ![r] = {store[p]}]
           /\ UNCHANGED <<store, compromised>>

(* The next call of the reader begins. *)
Call(r) == /\ result' = [result EXCEPT ![r] = {}]
           /\ UNCHANGED <<store, compromised>>

(* A recovery overwrites the lock word; from then on anything may be read. *)
Compromise == compromised' = TRUE

Next == \/ ~compromised /\ \E p \in Points : Update(p)
        \/ ~compromised /\ \E r \in Readers : Read(r) \/ Call(r)
        \/ Compromise

Spec == Init /\ [][Next]_avars

=============================================================================
