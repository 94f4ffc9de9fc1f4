------------------------------ MODULE Registry ------------------------------
(***************************************************************************)
(* The registry of points and its persistence (indurtdb.c, irt_index.c,    *)
(* irt_delta.c): the names in the point records, the open-addressing index *)
(* from (partition, name) to id, and the delta log that rtdbd replays over *)
(* the base configuration when it starts.  One process manages the         *)
(* registry, as rtdbd's single thread does; other processes write values   *)
(* under the same lock and may make each attempt to take it fail.  A       *)
(* locked section is one step (module SeqLock is about the lock), and the  *)
(* process may die between two of them: its segment stays, while a process *)
(* that stops in order unlinks it.  The hash of a key stands for the key:   *)
(* only its bucket is shared.                                               *)
(***************************************************************************)
EXTENDS Naturals, Sequences, FiniteSets

CONSTANTS Ids,          \* 0 .. max_points - 1
          Names,        \* non-empty names
          Partitions,   \* partitions that requests name
          Capacity,     \* buckets of the index
          Home,         \* [Keys -> bucket]: irt_index_compose_hash & mask
          Base,         \* the base configuration, a sequence of [id, name]
          NoName, Empty, Tomb, None,   \* markers outside the sets above
          MaxRetry,     \* IRT_SEQLOCK_MAX_RETRY
          MaxRefusals,  \* bound: failed attempts to lock or to read
          MaxFaults,    \* bound: failed appends to the delta log
          MaxCalls,     \* bound: requests
          MaxStarts     \* bound: starts of the process after the first

Keys == Partitions \X Names
Buckets == 0 .. Capacity - 1

ASSUME RegistryBounds ==
  /\ 0 \in Partitions /\ Partitions \subseteq Nat
  /\ Capacity \in Nat \ {0} /\ Home \in [Keys -> Buckets]
  /\ IsFiniteSet(Ids) /\ Capacity >= 2 * Cardinality(Ids)
  /\ Base \in Seq([id : Ids, name : Names])
  /\ MaxRetry \in Nat \ {0} /\ MaxRefusals \in Nat /\ MaxFaults \in Nat
  /\ MaxCalls \in Nat /\ MaxStarts \in Nat
ASSUME RegistryMarkers ==
  /\ NoName \notin Names /\ Empty \notin Ids /\ Tomb \notin Ids /\ Empty # Tomb
  /\ None \notin Ids /\ None \notin Keys

VARIABLES name,         \* indurtdb_point_t.name, NoName if it begins with NUL
          part,         \* indurtdb_point_t.partition
          slots,        \* the index: the key hashed into a slot, and its id
          count,        \* index_count
          log,          \* the delta file
          mode,         \* "loading" ("failing" once an entry was given up),
                        \* "replaying", "serving"; "stopped" and "crashed"
                        \* between two lives; "refused" to start
          cursor,       \* the base entry or log record being applied
          call,         \* the call in progress and the step it is at
          refusals, faults, calls, starts,      \* what the bounds count
          \* history, read by no action:
          saved,        \* the registry when the process last stopped
          flaw          \* what happened that the promises do not survive

segment == <<name, part, slots, count>>
bounds == <<refusals, faults, calls, starts>>
vars == <<segment, log, mode, cursor, call, bounds, saved, flaw>>

-----------------------------------------------------------------------------
(* The index (irt_index.c), over the slots s and the point records nm, pt.  *)

At(k, d) == (Home[k] + d) % Capacity
First(D) == CHOOSE d \in D : \A e \in D : d <= e

Matches(s, nm, pt, b, k) ==
  s[b].key = k /\ s[b].id \in Ids /\ <<pt[s[b].id], nm[s[b].id]>> = k

(* Where a probe for k ends: the first slot that is empty or holds k.        *)
Stops(s, nm, pt, k) ==
  {d \in Buckets : s[At(k, d)].id = Empty \/ Matches(s, nm, pt, At(k, d), k)}
End(s, nm, pt, k) ==
  LET D == Stops(s, nm, pt, k) IN IF D = {} THEN Capacity ELSE First(D)
Found(s, nm, pt, k) ==
  LET e == End(s, nm, pt, k) IN e < Capacity /\ s[At(k, e)].id # Empty

Lookup(k) ==
  LET e == End(slots, name, part, k) IN
  IF e < Capacity /\ slots[At(k, e)].id # Empty THEN slots[At(k, e)].id ELSE None

(* A new key goes to the first tombstone passed, else to the empty slot.     *)
InsertAt(s, nm, pt, k) ==
  LET e == End(s, nm, pt, k)
      tombs == {d \in Buckets : d < e /\ s[At(k, d)].id = Tomb}
  IN IF ~Found(s, nm, pt, k) /\ tombs # {} THEN First(tombs) ELSE e

Fits(s, nm, pt, k) == InsertAt(s, nm, pt, k) < Capacity
Inserted(s, nm, pt, k, i) ==
  [s EXCEPT ![At(k, InsertAt(s, nm, pt, k))] = [key |-> k, id |-> i]]
Grown(s, nm, pt, k) == IF Found(s, nm, pt, k) THEN 0 ELSE 1

MutRemoved(s, nm, pt, k) ==                         \* frees the slot: cuts chains
  IF Found(s, nm, pt, k)
  THEN [s EXCEPT ![At(k, End(s, nm, pt, k))] = [key |-> k, id |-> Empty]] ELSE s
Removed(s, nm, pt, k) ==
  IF Found(s, nm, pt, k)
  THEN [s EXCEPT ![At(k, End(s, nm, pt, k))] = [key |-> k, id |-> Tomb]] ELSE s
Shrunk(s, nm, pt, k, n) == IF Found(s, nm, pt, k) /\ n > 0 THEN n - 1 ELSE n

-----------------------------------------------------------------------------
View == [i \in Ids |-> IF name[i] = NoName THEN None ELSE <<part[i], name[i]>>]
BaseView ==
  [i \in Ids |-> IF \E j \in DOMAIN Base : Base[j].id = i
                 THEN <<0, Base[CHOOSE j \in DOMAIN Base : Base[j].id = i].name>>
                 ELSE None]

NoCall == [op |-> "none", part |-> 0, id |-> None, name |-> NoName, at |-> "none", tries |-> 0]
Call(op, q, i, n, at) == [op |-> op, part |-> q, id |-> i, name |-> n, at |-> at, tries |-> 0]
Key == <<call.part, call.name>>

Fresh ==
  /\ name = [i \in Ids |-> NoName] /\ part = [i \in Ids |-> 0]
  /\ slots = [b \in Buckets |-> [key |-> <<0, NoName>>, id |-> Empty]] /\ count = 0

Init ==
  /\ Fresh /\ log = <<>> /\ mode = "loading" /\ cursor = 1 /\ call = NoCall
  /\ refusals = 0 /\ faults = 0 /\ calls = 0 /\ starts = 0
  /\ saved = BaseView /\ flaw = {}

-----------------------------------------------------------------------------
(* Calls.  Return ends one; while the process starts, the next base entry or *)
(* record follows.                                                           *)

Return ==
  /\ call' = NoCall
  /\ cursor' = IF mode = "serving" THEN cursor ELSE cursor + 1

GoTo(step) ==
  /\ call' = [call EXCEPT !.at = step, !.tries = 0]
  /\ UNCHANGED cursor

(* Requests, as CREATE_POINT, DELETE_POINT and RENAME_POINT pass them on.    *)
Request ==
  /\ mode = "serving" /\ call = NoCall /\ calls < MaxCalls
  /\ \E i \in Ids, q \in Partitions :
       \/ \E n \in Names : \E op \in {"create", "rename"} : call' = Call(op, q, i, n, "check")
       \/ call' = Call("delete", q, i, NoName, "lock")
  /\ calls' = calls + 1
  /\ UNCHANGED <<segment, log, mode, cursor, refusals, faults, starts, saved, flaw>>

(* The name is looked up without the lock; a lookup that stays busy counts   *)
(* as "not there".                                                           *)
MutTaken(k, i) == FALSE                             \* no second look at the name
Taken(k, i) == Lookup(k) \notin {None, i}

Check ==
  /\ call.at = "check"
  /\ IF Taken(Key, call.id) THEN Return ELSE GoTo("lock")
  /\ UNCHANGED <<segment, log, mode, bounds, saved, flaw>>

CheckBusy ==
  /\ call.at = "check" /\ refusals < MaxRefusals
  /\ refusals' = refusals + 1
  /\ GoTo("lock")
  /\ flaw' = IF Taken(Key, call.id) THEN flaw \cup {"unchecked"} ELSE flaw
  /\ UNCHANGED <<segment, log, mode, faults, calls, starts, saved>>

(* indurtdb_h_create_point_in: the record first, the index under a lock of    *)
(* its own.                                                                   *)
CreateRecord ==
  /\ call.op = "create" /\ call.at = "lock"
  /\ \/ /\ name[call.id] # NoName
        /\ Return
        /\ UNCHANGED <<name, part>>
     \/ /\ name[call.id] = NoName
        /\ name' = [name EXCEPT ![call.id] = call.name]
        /\ part' = [part EXCEPT ![call.id] = call.part]
        /\ GoTo("index")
  /\ UNCHANGED <<slots, count, log, mode, bounds, saved, flaw>>

CreateIndex ==
  /\ call.op = "create" /\ call.at = "index"
  /\ \/ /\ Fits(slots, name, part, Key)
        /\ slots' = Inserted(slots, name, part, Key, call.id)
        /\ count' = count + Grown(slots, name, part, Key)
        /\ GoTo("log")
     \/ /\ ~Fits(slots, name, part, Key)
        /\ GoTo("undo")
        /\ UNCHANGED <<slots, count>>
  /\ UNCHANGED <<name, part, log, mode, bounds, saved, flaw>>

CreateUndo ==
  /\ call.at = "undo"
  /\ name' = [name EXCEPT ![call.id] = NoName]
  /\ Return
  /\ UNCHANGED <<part, slots, count, log, mode, bounds, saved, flaw>>

(* indurtdb_h_delete_point_in: out of the index before the name goes.        *)
Delete ==
  /\ call.op = "delete" /\ call.at = "lock"
  /\ LET k == <<part[call.id], name[call.id]>> IN
     \/ /\ name[call.id] = NoName \/ part[call.id] # call.part
        /\ Return
        /\ UNCHANGED <<name, slots, count>>
     \/ /\ name[call.id] # NoName /\ part[call.id] = call.part
        /\ slots' = Removed(slots, name, part, k)
        /\ count' = Shrunk(slots, name, part, k, count)
        /\ name' = [name EXCEPT ![call.id] = NoName]
        /\ GoTo("log")
  /\ UNCHANGED <<part, log, mode, bounds, saved, flaw>>

(* indurtdb_h_rename_point_in: the new key in, the old one out, then the name. *)
Rename ==
  /\ call.op = "rename" /\ call.at = "lock"
  /\ LET old == <<call.part, name[call.id]>>
         s == Inserted(slots, name, part, Key, call.id)
     IN
     \/ /\ \/ name[call.id] \in {NoName, call.name} \/ part[call.id] # call.part
           \/ ~Fits(slots, name, part, Key)
        /\ Return
        /\ UNCHANGED <<name, slots, count>>
     \/ /\ name[call.id] \notin {NoName, call.name} /\ part[call.id] = call.part
        /\ Fits(slots, name, part, Key)
        /\ slots' = Removed(s, name, part, old)
        /\ count' = Shrunk(s, name, part, old, count + Grown(slots, name, part, Key))
        /\ name' = [name EXCEPT ![call.id] = call.name]
        /\ GoTo("log")
  /\ UNCHANGED <<part, log, mode, bounds, saved, flaw>>

(* Another process holds the lock until write_begin gives up.  Calls try     *)
(* again MaxRetry times, except create's index insertion, which turns to the *)
(* rollback; a rollback that never gets the lock leaves the record.          *)
LockBusy ==
  /\ call.op # "load" /\ call.at \in {"lock", "index", "undo"} /\ refusals < MaxRefusals
  /\ refusals' = refusals + 1
  /\ \/ /\ call.at = "index"
        /\ GoTo("undo")
     \/ /\ call.at # "index" /\ call.tries + 1 < MaxRetry
        /\ call' = [call EXCEPT !.tries = @ + 1]
        /\ UNCHANGED cursor
     \/ /\ call.at # "index" /\ call.tries + 1 >= MaxRetry
        /\ Return
  /\ LET gaveUp == call.at = "index" \/ call'.at = "none" IN
     flaw' = flaw \cup {f \in {"orphan"} : gaveUp /\ call.at = "undo"}
                  \cup {f \in {"skipped"} : gaveUp /\ mode = "replaying"}
  /\ UNCHANGED <<segment, log, mode, faults, calls, starts, saved>>

(* delta_log: off while records are replayed.  An append may fail, leave a    *)
(* piece of its record behind, and the next one follows the piece at once;    *)
(* the call succeeds anyway.                                                  *)
MutLogs == TRUE                                     \* replay appends what it reads
Logs == mode = "serving"
MutRecord == [op |-> IF call.op = "rename" THEN "create" ELSE call.op, id |-> call.id,
              name |-> call.name, whole |-> TRUE]   \* a rename kept as a create
Record == [op |-> call.op, id |-> call.id, name |-> call.name, whole |-> TRUE]
Piece == [Record EXCEPT !.whole = FALSE]

DeltaLog ==
  /\ call.at = "log"
  /\ \/ ~Logs /\ UNCHANGED <<log, faults, flaw>>
     \/ /\ Logs
        /\ log' = Append(log, Record)
        /\ flaw' = IF call.part # 0 /\ call.op = "create" THEN flaw \cup {"foreign"} ELSE flaw
        /\ UNCHANGED faults
     \/ /\ Logs /\ faults < MaxFaults
        /\ log' \in {log, Append(log, Piece)}
        /\ faults' = faults + 1 /\ flaw' = flaw \cup {"unlogged"}
  /\ Return
  /\ UNCHANGED <<segment, mode, refusals, calls, starts, saved>>

-----------------------------------------------------------------------------
(* Starting: indurtdb_h_load_config, then indurtdb_h_delta_replay.           *)

LoadNext ==
  /\ mode \in {"loading", "failing"} /\ call = NoCall
  /\ \/ /\ cursor <= Len(Base)
        /\ call' = Call("load", 0, Base[cursor].id, Base[cursor].name, "lock")
        /\ UNCHANGED <<mode, cursor>>
     \/ /\ cursor > Len(Base)
        /\ mode' = (IF mode = "loading" THEN "replaying" ELSE "refused") /\ cursor' = 1
        /\ UNCHANGED call
  /\ UNCHANGED <<segment, log, bounds, saved, flaw>>

(* The record is overwritten whatever it held.                               *)
LoadRecord ==
  /\ call.op = "load" /\ call.at = "lock"
  /\ name' = [name EXCEPT ![call.id] = call.name]
  /\ part' = [part EXCEPT ![call.id] = 0]
  /\ flaw' = IF \/ name[call.id] # NoName /\ <<part[call.id], name[call.id]>> # Key
                \/ Taken(Key, call.id)
             THEN flaw \cup {"overlay"} ELSE flaw
  /\ call' = [call EXCEPT !.at = "index"]
  /\ UNCHANGED <<slots, count, log, mode, cursor, bounds, saved>>

LoadIndex ==
  /\ call.op = "load" /\ call.at = "index"
  /\ \/ /\ Fits(slots, name, part, Key)
        /\ slots' = Inserted(slots, name, part, Key, call.id)
        /\ count' = count + Grown(slots, name, part, Key)
        /\ Return
        /\ UNCHANGED mode
     \/ /\ ~Fits(slots, name, part, Key)
        /\ mode' = "refused" /\ call' = NoCall
        /\ UNCHANGED <<slots, count, cursor>>
  /\ UNCHANGED <<name, part, log, bounds, saved, flaw>>

(* Both locks of an entry share MaxRetry attempts; an entry given up does not *)
(* stop the loop, but the worker then refuses to start.                       *)
LoadBusy ==
  /\ call.op = "load" /\ call.at \in {"lock", "index"} /\ refusals < MaxRefusals
  /\ refusals' = refusals + 1
  /\ \/ /\ call.tries + 1 < MaxRetry
        /\ call' = [call EXCEPT !.at = "lock", !.tries = @ + 1]
        /\ UNCHANGED <<mode, cursor>>
     \/ /\ call.tries + 1 >= MaxRetry
        /\ mode' = "failing" /\ Return
  /\ UNCHANGED <<segment, log, faults, calls, starts, saved, flaw>>

(* irt_delta_replay fills a piece up with the bytes of the record behind it.  *)
(* Magic, version and op lie in the first eight of eighty: a shorter piece is *)
(* refused, or there is nothing to fill it with, and the replay ends.  A      *)
(* longer one is applied, with the op and the id of the piece (an id that is  *)
(* pieced together is out of range, which changes nothing) and a name that    *)
(* may be anything; what is read next begins inside a record and is refused,  *)
(* unless two pieces make up eighty bytes, which is left out.                 *)
Read(j) == j \in DOMAIN log /\ log[j].whole /\ \A k \in DOMAIN log : k < j => log[k].whole
Merged(j) == j + 1 \in DOMAIN log /\ ~log[j].whole /\ \A k \in DOMAIN log : k < j => log[k].whole

Apply(op, i, n) ==
  /\ call' = Call(op, 0, i, n, IF op = "delete" THEN "lock" ELSE "check")
  /\ UNCHANGED <<mode, cursor, flaw>>

(* A replay over a segment that survived a crash may end elsewhere: the log and *)
(* the registry have then drifted apart.                                      *)
ReplayEnd ==
  /\ mode' = "serving" /\ cursor' = 0
  /\ flaw' = IF View = saved THEN flaw \ {"crashed"} ELSE flaw \cup {"drifted"}
  /\ UNCHANGED call

ReplayNext ==
  /\ mode = "replaying" /\ call = NoCall
  /\ \/ Read(cursor) /\ Apply(log[cursor].op, log[cursor].id, log[cursor].name)
     \/ /\ Merged(cursor)
        /\ \E n \in IF log[cursor].op = "delete" THEN {NoName} ELSE Names :
             Apply(log[cursor].op, log[cursor].id, n)
     \/ ~Read(cursor) /\ ReplayEnd
  /\ UNCHANGED <<segment, log, bounds, saved>>

-----------------------------------------------------------------------------
(* Stopping and dying. *)

(* indurtdb_h_close by the owner unlinks the segment: the next start finds a  *)
(* new one.                                                                   *)
Stop ==
  /\ mode = "serving" /\ call = NoCall /\ starts < MaxStarts
  /\ mode' = "stopped" /\ saved' = View
  /\ name' = [i \in Ids |-> NoName] /\ part' = [i \in Ids |-> 0]
  /\ slots' = [b \in Buckets |-> [key |-> <<0, NoName>>, id |-> Empty]] /\ count' = 0
  /\ UNCHANGED <<log, cursor, call, bounds, flaw>>

Crash ==
  /\ mode \in {"loading", "failing", "replaying", "serving"} /\ starts < MaxStarts
  /\ mode' = "crashed" /\ call' = NoCall
  /\ saved' = IF mode = "serving" THEN View ELSE saved
  /\ flaw' = flaw \cup {"crashed"}
                  \cup {f \in {"orphan"} : call.op = "create" /\ call.at \in {"index", "undo"}}
                  \cup {f \in {"unlogged"} : call.at = "log" /\ Logs}
  /\ UNCHANGED <<segment, log, cursor, bounds>>

Start ==
  /\ mode \in {"stopped", "crashed"}
  /\ mode' = "loading" /\ cursor' = 1 /\ starts' = starts + 1
  /\ UNCHANGED <<segment, log, call, refusals, faults, calls, saved, flaw>>

-----------------------------------------------------------------------------
Next ==
  \/ Request \/ Check \/ CheckBusy
  \/ CreateRecord \/ CreateIndex \/ CreateUndo \/ Delete \/ Rename
  \/ LockBusy \/ DeltaLog
  \/ LoadNext \/ LoadRecord \/ LoadIndex \/ LoadBusy \/ ReplayNext
  \/ Stop \/ Crash \/ Start

Spec == Init /\ [][Next]_vars

-----------------------------------------------------------------------------
(* Properties. *)

Steps == {"none", "check", "lock", "index", "undo", "log"}
Flaws == {"unchecked", "orphan", "overlay", "skipped", "foreign", "unlogged",
          "crashed", "drifted"}

\* The shape of the state; the log holds at most one record per request.
TypeOK ==
  /\ name \in [Ids -> Names \cup {NoName}] /\ part \in [Ids -> Partitions]
  /\ slots \in [Buckets -> [key : Partitions \X (Names \cup {NoName}),
                            id : Ids \cup {Empty, Tomb}]]
  /\ count \in 0 .. Capacity
  /\ \A j \in DOMAIN log : log[j].op \in {"create", "delete", "rename"} /\ log[j].whole \in BOOLEAN
  /\ Len(log) <= calls
  /\ mode \in {"loading", "failing", "replaying", "serving",
               "stopped", "crashed", "refused"}
  /\ cursor \in Nat /\ call.at \in Steps /\ call.tries \in 0 .. MaxRetry - 1
  /\ flaw \subseteq Flaws

Live == {b \in Buckets : slots[b].id \in Ids}
Named == {i \in Ids : name[i] # NoName}

\* Every point is found by its name (irt_index_lookup after irt_index_remove_locked
\* left tombstones), and no slot outlives its point, so the index never fills up.
Exact ==
  /\ \A i \in Named : Lookup(<<part[i], name[i]>>) = i
  /\ count = Cardinality(Live) /\ Cardinality(Live) = Cardinality(Named)

\* Between calls, through contention, rollbacks, crashes and restarts, the index
\* is exact, unless a busy lookup hid a duplicate name, a rollback or the process
\* died half way, or the base configuration was loaded over a changed registry.
IndexExact ==
  mode = "serving" /\ call = NoCall /\ flaw \cap {"unchecked", "orphan", "overlay"} = {}
    => Exact

\* A stop and a start give back the registry: base configuration and delta log
\* together rebuild what the CRUD calls had made of it.
RestartRestores ==
  [][mode = "replaying" /\ mode' = "serving" /\ flaw = {} => View = saved]_vars

\* The index is a directory: each change is one step, seen by look-ups at once,
\* no key leads to two ids, and a failed call changes nothing.
KeyOf(i) ==
  LET k == <<part[i], name[i]>> IN IF name[i] # NoName /\ Lookup(k) = i THEN k ELSE None
Abstract == INSTANCE Directory WITH
  dir <- [i \in Ids |-> KeyOf(i)],
  compromised <- flaw \cap {"unchecked", "orphan", "overlay"} # {}
ImplementsDirectory == Abstract!Spec

=============================================================================
