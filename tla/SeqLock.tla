------------------------------ MODULE SeqLock -------------------------------
(***************************************************************************)
(* The point store of the shared segment and the one sequence lock that    *)
(* guards it (irt_seqlock.h, irt_point_manager.c, the bounded reads of     *)
(* irt_shm.c and irt_index.c, the lock recovery of irt_shm_init).          *)
(* hdr->write_seq is even when the lock is free and odd when it is held.   *)
(* Every load, compare-and-swap and store of the lock word is a step, and  *)
(* so is every word of a record stored under the lock or copied by a       *)
(* reader: those are plain memory accesses, in any order.  A call begins   *)
(* with its first access to the segment.                                   *)
(* Processes: Writers call irt_pm_write_* and irt_pm_set_quality, Scanners *)
(* run the body of irt_pm_check_timeouts, Readers run the bounded read     *)
(* loop (irt_meta_get, irt_index_lookup), Pollers run irt_pm_read/peek,    *)
(* Attachers run the recovery of irt_shm_init.                             *)
(***************************************************************************)
EXTENDS Naturals, FiniteSets

CONSTANTS Points, ReadOnly,             \* point ids, those with READ_ONLY access
          Writers, Scanners, Readers, Pollers, Attachers,
          Casts,                        \* the sets of processes that run together
          Times, Qualities,             \* what writers may store (numbers)
          Timeout,                      \* timeout_ns of the scan
          MaxRetry,                     \* IRT_SEQLOCK_MAX_RETRY, of write_begin
          WriteAttempts,                \* attempts of pm_write_impl_q
          ReadAttempts,                 \* attempts of the bounded reads
          MaxSeq,                       \* bound: no update begins at or above it
          MaxCrashes                    \* bound: processes that may die

Lockers == Writers \cup Scanners        \* processes that take the write lock
Looping == Scanners \cup Pollers        \* processes that run the do-while read
Procs == Lockers \cup Readers \cup Pollers \cup Attachers

ASSUME BoundsAssumption ==
  /\ MaxRetry \in Nat /\ WriteAttempts \in Nat \ {0} /\ ReadAttempts \in Nat \ {0}
  /\ MaxSeq \in Nat /\ MaxCrashes \in Nat /\ Timeout \in Nat

ASSUME DataAssumption ==
  /\ Times \subseteq Nat /\ Qualities \subseteq Nat
  /\ ReadOnly \subseteq Points /\ Points # {}

ASSUME RolesAssumption ==
  /\ Lockers \cap (Readers \cup Pollers \cup Attachers) = {}
  /\ Writers \cap Scanners = {} /\ Readers \cap Pollers = {}
  /\ Attachers \cap (Readers \cup Pollers) = {}
  /\ Casts \subseteq SUBSET Procs

(* The words of indurtdb_point_t a write stores one by one: "ts" stands for  *)
(* timestamp_ns and for type, value and source_timestamp_ns beside it, which *)
(* every write stores together with the stamp.                               *)
Words == {"ts", "quality"}
Record == [Words -> Nat]
ZeroRecord == [w \in Words |-> 0]
(* A caller's buffer that nobody filled: contents no writer ever stores. *)
Garbage == [w \in Words |-> 99]

(* INDURTDB_QUALITY_*: the base code in the low four bits, the limit above. *)
QGood == 0
QTimeout == 2
QLimit(q) == (q \div 16) % 4
QMake(base, limit) == base + 16 * limit

Even(n) == n % 2 = 0
Odd(n) == n % 2 = 1

VARIABLES seq,      \* hdr->write_seq
          pt,       \* the records in the segment
          pc,       \* where each process is
          loc,      \* the local variables of the call each process is in
          \* history, read by no action:
          last,     \* the records when a holder last released the lock
          window,   \* pollers: the records of the point published since the call
          stolen,   \* a recovery overwrote the lock word of a live holder
          recovered \* a recovery released the lock of a dead holder

history == <<last, window, stolen, recovered>>
vars == <<seq, pt, pc, loc, last, window, stolen, recovered>>

(* The locals.  seq0: `expected` and seq0 of a locker, s0 of a reader, the   *)
(* loaded word of an attacher.  rec: the record to store, or the copy.       *)
Idle == [kind |-> "none", id |-> CHOOSE p \in Points : TRUE, rec |-> ZeroRecord,
         now |-> 0, left |-> {}, seq0 |-> 0, s1 |-> 1, retry |-> 0, attempt |-> 0]
Locals == [kind : {"none", "write", "setq", "scan", "read", "poll"}, id : Points,
           rec : Record, now : Nat, left : SUBSET Words, seq0 : Nat, s1 : Nat,
           retry : 0 .. MaxRetry, attempt : Nat]

Init ==
  /\ seq = 0
  /\ pt = [p \in Points |-> ZeroRecord]
  /\ \E cast \in Casts : pc = [x \in Procs |-> IF x \in cast THEN "idle" ELSE "absent"]
  /\ loc = [x \in Procs |-> Idle]
  /\ last = pt
  /\ window = [x \in Pollers |-> {}]
  /\ stolen = FALSE /\ recovered = FALSE

Goto(x, label) == pc' = [pc EXCEPT ![x] = label]

(* The call ends and its locals are gone. *)
Return(x) == Goto(x, "idle") /\ loc' = [loc EXCEPT ![x] = Idle]

(* The lockers between a successful write_begin and their write_end. *)
Inside == {l \in Lockers : pc[l] \in {"recheck", "store", "unlock"}}

-----------------------------------------------------------------------------
(* Updates begin, with the load of write_begin (the scan: of its first look). *)

Begin(w, p, kind, rec, attempt) ==
  /\ pc[w] = "idle" /\ seq < MaxSeq
  /\ loc' = [loc EXCEPT ![w] = [Idle EXCEPT !.kind = kind, !.id = p, !.rec = rec,
                                            !.attempt = attempt, !.seq0 = seq]]
  /\ Goto(w, "begin")
  /\ UNCHANGED <<seq, pt, history>>

(* irt_pm_write_quality_ts and its wrappers; the stamp is the clock's, which *)
(* may step either way.                                                      *)
StartWrite(w, p) ==
  \E t \in Times, q \in Qualities :
    Begin(w, p, "write", [ZeroRecord EXCEPT !["ts"] = t, !["quality"] = q], 1)

(* irt_pm_set_quality: the quality alone, on any point, in one attempt. *)
StartSetQuality(w, p) ==
  \E q \in Qualities :
    Begin(w, p, "setq", [ZeroRecord EXCEPT !["quality"] = q], WriteAttempts)

(* irt_pm_check_timeouts, one point of its loop: `now` was read when the     *)
(* scan began, so it may be older than the records the scan meets.           *)
StartScan(s, p) ==
  /\ pc[s] = "idle" /\ seq < MaxSeq
  /\ \E now \in Times :
       loc' = [loc EXCEPT ![s] = [Idle EXCEPT !.kind = "scan", !.id = p, !.now = now,
                                              !.attempt = WriteAttempts]]
  /\ Goto(s, "loopload")
  /\ UNCHANGED <<seq, pt, history>>

-----------------------------------------------------------------------------
(* irt_seqlock_write_begin. *)

(* The compare-and-swap succeeds only if the word still is what was loaded. *)
MutCanTake(l) == TRUE                                \* a store instead of the CAS
CanTake(l) == seq = loc[l].seq0

(* A writer finds the point READ_ONLY and leaves through write_end. *)
Refused(l) == loc[l].kind = "write" /\ loc[l].id \in ReadOnly
MutRefusal == "idle"                                 \* returns without write_end
Refusal == "unlock"

(* The lock is taken, and the access of the point looked at; or `expected`   *)
(* becomes the current value and the loop goes round.                        *)
CasSeq(l) ==
  /\ pc[l] = "begin" /\ Even(loc[l].seq0)
  /\ \/ /\ CanTake(l)
        /\ seq' = loc[l].seq0 + 1
        /\ \/ /\ loc[l].kind = "scan" /\ Goto(l, "recheck")
              /\ UNCHANGED loc
           \/ /\ Refused(l) /\ Goto(l, Refusal)
              /\ UNCHANGED loc
           \/ /\ loc[l].kind # "scan" /\ ~Refused(l) /\ Goto(l, "store")
              /\ loc' = [loc EXCEPT ![l].left =
                           IF loc[l].kind = "write" THEN Words ELSE {"quality"}]
     \/ /\ ~CanTake(l)
        /\ loc' = [loc EXCEPT ![l] = [@ EXCEPT !.seq0 = seq, !.retry = 0]]
        /\ UNCHANGED <<seq, pc>>
  /\ UNCHANGED <<pt, history>>

(* The odd branch backs off MaxRetry times; the word is not loaded again. *)
MutBackoff(l) ==                                     \* one back-off too many
  /\ pc[l] = "begin" /\ Odd(loc[l].seq0) /\ loc[l].retry <= MaxRetry
  /\ loc' = [loc EXCEPT ![l].retry = @ + 1]
  /\ UNCHANGED <<seq, pt, pc, history>>
Backoff(l) ==
  /\ pc[l] = "begin" /\ Odd(loc[l].seq0) /\ loc[l].retry < MaxRetry
  /\ loc' = [loc EXCEPT ![l].retry = @ + 1]
  /\ UNCHANGED <<seq, pt, pc, history>>

MutExhausted(l) == loc[l].retry = MaxRetry /\ Even(seq)  \* waits for the holder
Exhausted(l) == loc[l].retry = MaxRetry

(* write_begin returns odd.  pm_write_impl_q calls it again, WriteAttempts   *)
(* times in all; the other callers return BUSY or skip the point.            *)
GiveUp(l) ==
  /\ pc[l] = "begin" /\ Odd(loc[l].seq0) /\ Exhausted(l)
  /\ \/ /\ loc[l].attempt < WriteAttempts
        /\ loc' = [loc EXCEPT ![l] = [@ EXCEPT !.attempt = loc[l].attempt + 1,
                                               !.retry = 0, !.seq0 = seq]]
        /\ UNCHANGED pc
     \/ /\ loc[l].attempt = WriteAttempts
        /\ Return(l)
  /\ UNCHANGED <<seq, pt, history>>

-----------------------------------------------------------------------------
(* Under the lock. *)

(* Written at least once, not already TIMEOUT and older than the timeout.    *)
(* A stamp at or after `now` belongs to a write newer than the scan.         *)
Stale(rec, now) ==
  /\ rec["ts"] # 0 /\ rec["quality"] # QTimeout
  /\ rec["ts"] < now /\ now - rec["ts"] > Timeout

(* The second look of the scan; the mark keeps the limit bits. *)
MutStillStale(s) == TRUE                             \* no second look
StillStale(s) == Stale(pt[loc[s].id], loc[s].now)

Recheck(s) ==
  /\ pc[s] = "recheck"
  /\ \/ /\ StillStale(s)
        /\ loc' = [loc EXCEPT ![s] = [@ EXCEPT !.left = {"quality"},
                     !.rec = [ZeroRecord EXCEPT !["quality"] =
                        QMake(QTimeout, QLimit(pt[loc[s].id]["quality"]))]]]
        /\ Goto(s, "store")
     \/ /\ ~StillStale(s)
        /\ Goto(s, "unlock")
        /\ UNCHANGED loc
  /\ UNCHANGED <<seq, pt, history>>

(* The plain stores, one word at a time. *)
StoreWord(l, w) ==
  /\ pc[l] = "store" /\ w \in loc[l].left
  /\ pt' = [pt EXCEPT ![loc[l].id][w] = loc[l].rec[w]]
  /\ loc' = [loc EXCEPT ![l].left = @ \ {w}]
  /\ IF loc[l].left = {w} THEN Goto(l, "unlock") ELSE UNCHANGED pc
  /\ UNCHANGED <<seq, history>>

(* irt_seqlock_write_end stores seq0 + 2, whatever the word holds now. *)
MutReleased(seq0) == seq0                            \* the version is not advanced
Released(seq0) == seq0 + 2

WriteEnd(l) ==
  /\ pc[l] = "unlock"
  /\ seq' = Released(loc[l].seq0)
  /\ last' = pt
  /\ window' = [x \in Pollers |-> IF pc[x] \in {"idle", "absent"} THEN {}
                                  ELSE window[x] \cup {pt[loc[x].id]}]
  /\ Return(l)
  /\ UNCHANGED <<pt, stolen, recovered>>

-----------------------------------------------------------------------------
(* The bounded read loop.  After a success the caller keeps the copy ("ok"). *)

StartRead(r, p) ==
  /\ pc[r] \in {"idle", "ok"}
  /\ loc' = [loc EXCEPT ![r] = [Idle EXCEPT !.kind = "read", !.id = p, !.attempt = 1]]
  /\ Goto(r, "readload")
  /\ UNCHANGED <<seq, pt, history>>

(* One attempt is over; the last one makes the call return BUSY. *)
NextAttempt(r) ==
  \/ /\ loc[r].attempt < ReadAttempts
     /\ loc' = [loc EXCEPT ![r].attempt = @ + 1]
     /\ Goto(r, "readload")
  \/ loc[r].attempt = ReadAttempts /\ Return(r)

ReadLoad(r) ==
  /\ pc[r] = "readload"
  /\ \/ /\ Even(seq)
        /\ loc' = [loc EXCEPT ![r] = [@ EXCEPT !.seq0 = seq, !.left = Words]]
        /\ Goto(r, "copy")
     \/ Odd(seq) /\ NextAttempt(r)
  /\ UNCHANGED <<seq, pt, history>>

(* One word of the memcpy; irt_pm_check_timeouts copies the two it needs. *)
CopyWord(x, w) ==
  /\ pc[x] \in {"copy", "loopcopy"} /\ w \in loc[x].left
  /\ loc' = [loc EXCEPT ![x] =
               [@ EXCEPT !.rec = [loc[x].rec EXCEPT ![w] = pt[loc[x].id][w]],
                         !.left = loc[x].left \ {w}]]
  /\ UNCHANGED <<seq, pt, pc, history>>

ReadCheck(r) ==
  /\ pc[r] = "copy" /\ loc[r].left = {}
  /\ \/ seq = loc[r].seq0 /\ Goto(r, "ok") /\ UNCHANGED loc
     \/ seq # loc[r].seq0 /\ NextAttempt(r)
  /\ UNCHANGED <<seq, pt, history>>

-----------------------------------------------------------------------------
(* The do-while read of irt_pm_read, irt_pm_peek and irt_pm_check_timeouts. *)

(* irt_pm_read, irt_pm_peek: nothing has filled the buffer yet. *)
StartPoll(x, p) ==
  /\ pc[x] = "idle"
  /\ loc' = [loc EXCEPT ![x] = [Idle EXCEPT !.kind = "poll", !.id = p, !.rec = Garbage]]
  /\ window' = [window EXCEPT ![x] = {last[p]}]
  /\ Goto(x, "loopload")
  /\ UNCHANGED <<seq, pt, last, stolen, recovered>>

(* The condition s0 # s1 fails: a poll returns, a scan decides. *)
LeaveLoop(x) ==
  \/ x \in Pollers /\ Return(x)
  \/ x \in Scanners /\ Goto(x, "decide") /\ UNCHANGED loc

(* The load of s0.  On an odd value `continue` jumps to the condition, which *)
(* compares s0 with what s1 holds from the round before.                     *)
LoopLoad(x) ==
  /\ pc[x] = "loopload"
  /\ \/ /\ Even(seq)
        /\ loc' = [loc EXCEPT ![x] = [@ EXCEPT !.seq0 = seq, !.left = Words]]
        /\ Goto(x, "loopcopy")
     \/ /\ Odd(seq) /\ seq # loc[x].s1
        /\ UNCHANGED <<pc, loc>>
     \/ /\ Odd(seq) /\ seq = loc[x].s1
        /\ LeaveLoop(x)
  /\ UNCHANGED <<seq, pt, history>>

(* The load of s1 and the condition. *)
LoopCheck(x) ==
  /\ pc[x] = "loopcopy" /\ loc[x].left = {}
  /\ \/ seq = loc[x].seq0 /\ LeaveLoop(x)
     \/ /\ seq # loc[x].seq0
        /\ loc' = [loc EXCEPT ![x].s1 = seq]
        /\ Goto(x, "loopload")
  /\ UNCHANGED <<seq, pt, history>>

(* The scan goes on to write_begin only for a point that looked stale. *)
ScanDecide(s) ==
  /\ pc[s] = "decide"
  /\ \/ /\ Stale(loc[s].rec, loc[s].now)
        /\ loc' = [loc EXCEPT ![s] = [@ EXCEPT !.seq0 = seq, !.rec = ZeroRecord, !.s1 = 1]]
        /\ Goto(s, "begin")
     \/ ~Stale(loc[s].rec, loc[s].now) /\ Return(s)
  /\ UNCHANGED <<seq, pt, history>>

-----------------------------------------------------------------------------
(* Crashes, and the recovery of the lock by irt_shm_init in an attacher. *)

Dead == {l \in Lockers : pc[l] \in {"dead", "diedinside"}}

Crash(l) ==
  /\ pc[l] \notin {"idle", "absent"} /\ l \notin Dead
  /\ Cardinality(Dead) < MaxCrashes
  /\ Goto(l, IF l \in Inside THEN "diedinside" ELSE "dead")
  /\ loc' = [loc EXCEPT ![l] = [Idle EXCEPT !.seq0 = loc[l].seq0]]
  /\ UNCHANGED <<seq, pt, history>>

AttachLoad(a) ==
  /\ pc[a] = "idle"
  /\ loc' = [loc EXCEPT ![a].seq0 = seq]
  /\ Goto(a, IF Odd(seq) THEN "release" ELSE "done")
  /\ UNCHANGED <<seq, pt, history>>

(* The store of seq + 1 asks neither who holds the lock nor whether the word *)
(* still holds the value that was loaded.                                    *)
AttachStore(a) ==
  /\ pc[a] = "release"
  /\ seq' = loc[a].seq0 + 1
  /\ LET orphan == seq = loc[a].seq0 /\ Inside = {}
         noEffect == seq = loc[a].seq0 + 1
     IN /\ recovered' = (recovered \/ orphan)
        /\ stolen' = (stolen \/ ~(orphan \/ noEffect))
  /\ Goto(a, "done")
  /\ UNCHANGED <<pt, loc, last, window>>

-----------------------------------------------------------------------------
Start ==
  \E p \in Points :
    \/ \E w \in Writers : StartWrite(w, p) \/ StartSetQuality(w, p)
    \/ \E s \in Scanners : StartScan(s, p)
    \/ \E r \in Readers : StartRead(r, p)
    \/ \E x \in Pollers : StartPoll(x, p)

LockStep(l) ==
  \/ CasSeq(l) \/ Backoff(l) \/ GiveUp(l) \/ WriteEnd(l)
  \/ \E w \in Words : StoreWord(l, w)
ScanStep(s) == ScanDecide(s) \/ Recheck(s)
LoopStep(x) == LoopLoad(x) \/ LoopCheck(x)
ReadStep(r) == ReadLoad(r) \/ ReadCheck(r)
CopyStep(x) == \E w \in Words : CopyWord(x, w)
AttachStep(a) == AttachLoad(a) \/ AttachStore(a)

Next ==
  \/ Start
  \/ \E l \in Lockers : LockStep(l) \/ Crash(l)
  \/ \E s \in Scanners : ScanStep(s)
  \/ \E x \in Looping : LoopStep(x)
  \/ \E r \in Readers : ReadStep(r)
  \/ \E x \in Readers \cup Looping : CopyStep(x)
  \/ \E a \in Attachers : AttachStep(a)

(* The scheduler runs every live process: each step of a call that has begun *)
(* is eventually taken.  Nobody is obliged to begin a call or to attach.     *)
Fairness ==
  /\ \A l \in Lockers : WF_vars(LockStep(l))
  /\ \A s \in Scanners : WF_vars(ScanStep(s))
  /\ \A x \in Looping : WF_vars(LoopStep(x))
  /\ \A r \in Readers : WF_vars(ReadStep(r))
  /\ \A x \in Readers \cup Looping : WF_vars(CopyStep(x))
  /\ \A a \in Attachers : WF_vars(AttachStore(a))

Spec == Init /\ [][Next]_vars /\ Fairness

-----------------------------------------------------------------------------
(* Properties. *)

\* The shape of the state: records of whole words, labels, and a back-off
\* counter that never passes IRT_SEQLOCK_MAX_RETRY.
TypeOK ==
  /\ seq \in Nat
  /\ pt \in [Points -> Record] /\ last \in [Points -> Record]
  /\ pc \in [Procs -> {"idle", "begin", "recheck", "store", "unlock",
                       "dead", "diedinside", "readload", "copy", "ok",
                       "loopload", "loopcopy", "decide", "release", "done", "absent"}]
  /\ loc \in [Procs -> Locals]
  /\ stolen \in BOOLEAN /\ recovered \in BOOLEAN

\* irt_seqlock_write_begin grants the lock to one process at a time, as long as
\* no attaching process has overwritten the lock word of a live holder.
MutualExclusion ==
  ~stolen => \A l, m \in Inside : l = m

\* Every way out of a locked section releases the lock (the read-only refusal of
\* pm_write_impl_q and the failed second look of check_timeouts included): an odd
\* lock word belongs to a process inside, or to one that died there.
NoLeakedLock ==
  (Odd(seq) /\ ~stolen) =>
     \E l \in Lockers : /\ l \in Inside \/ pc[l] = "diedinside"
                        /\ seq = loc[l].seq0 + 1

\* Why the two hold: the process inside knows the word it took (an even seq0) and
\* the word is one more; a recovery in flight remembers an odd word not newer than
\* the current one.  Inductive together with TypeOK.
LockInv ==
  ~stolen =>
    /\ MutualExclusion /\ NoLeakedLock
    /\ \A l \in Inside : Even(loc[l].seq0) /\ seq = loc[l].seq0 + 1
    /\ \A a \in Attachers : pc[a] = "release" =>
          Odd(loc[a].seq0) /\ loc[a].seq0 <= seq

\* irt_pm_check_timeouts marks a point TIMEOUT only if the record it overwrites is
\* older than the timeout at the scan's `now`: a write that lands between the
\* unlocked look and the lock keeps its quality.
MarksOnlyStale ==
  [][\A s \in Scanners :
        pc[s] = "store" /\ pc'[s] = "unlock" /\ ~stolen =>
           LET ts == pt[loc[s].id]["ts"] IN
             ts # 0 /\ ts < loc[s].now /\ loc[s].now - ts > Timeout]_vars

\* The segment with its lock behaves like a store of whole records: what the
\* bounded readers return is the record the point holds when they return.
Abstract == INSTANCE AtomicPoints WITH
  store <- last,
  result <- [r \in Readers |-> IF pc[r] = "ok" THEN {loc[r].rec} ELSE {}],
  compromised <- stolen \/ recovered
ImplementsAtomicPoints == Abstract!Spec

\* Every retry loop ends.  A meta read or an index look-up (irt_shm.c, irt_index.c)
\* makes a bounded number of attempts and returns whatever the others do.  A writer
\* goes round write_begin as often as its compare-and-swap loses to an even word, and
\* the do-while read as often as the word moves: neither is bounded, so they end if
\* updates stop (Quiet).  A writer ends then even if a holder died inside; a do-while
\* read does not.
Quiet == <>[][FALSE]_seq
Returned(x) == pc[x] \in {"idle", "ok", "dead", "diedinside"}
CallsReturn ==
  /\ \A r \in Readers : pc[r] = "readload" ~> Returned(r)
  /\ Quiet => /\ \A w \in Writers : pc[w] = "begin" ~> Returned(w)
              /\ \A x \in Looping :
                   pc[x] = "loopload" ~>
                     Returned(x) \/ \E l \in Lockers : pc[l] = "diedinside"

-----------------------------------------------------------------------------
(* What comments of the source promise and the code does not keep. *)

\* irt_pm_read returns a record that was published at some instant of the call.
PollsConsistent ==
  [][\A x \in Pollers :
        pc[x] # "idle" /\ pc'[x] = "idle" => loc[x].rec \in window[x]]_vars

\* The recovery of irt_shm_init releases only locks left behind by a crash.
RecoversOnlyOrphans == ~stolen

=============================================================================
