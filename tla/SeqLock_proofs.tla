--------------------------- MODULE SeqLock_proofs ---------------------------
(***************************************************************************)
(* Proofs about the sequence lock, for any number of processes and points. *)
(***************************************************************************)
EXTENDS SeqLock, TLAPS

(* Taking or releasing the lock moves the word to the other parity. *)
LEMMA Parity ==
  ASSUME NEW n \in Nat
  PROVE  /\ Even(n) <=> ~Odd(n)
         /\ Even(n) <=> Odd(n + 1)
         /\ Odd(n) <=> Even(n + 1)
  BY SMT DEF Even, Odd

LEMMA IdleType == Idle \in Locals /\ ZeroRecord \in Record /\ Garbage \in Record
<1>1. ZeroRecord \in Record /\ Garbage \in Record
  BY DEF ZeroRecord, Garbage, Record
<1>2. (CHOOSE p \in Points : TRUE) \in Points
  BY DataAssumption
<1>3. QED
  BY <1>1, <1>2, BoundsAssumption DEF Idle, Locals

LEMMA QualityType == \A q \in Nat : QMake(QTimeout, QLimit(q)) \in Nat
  BY SMT DEF QMake, QTimeout, QLimit

LEMMA TypeInit == Init => TypeOK
<1> SUFFICES ASSUME Init PROVE TypeOK
  OBVIOUS
<1>1. pt \in [Points -> Record] /\ last \in [Points -> Record]
  BY IdleType DEF Init
<1>2. loc \in [Procs -> Locals]
  BY IdleType DEF Init
<1>3. QED
  BY <1>1, <1>2 DEF Init, TypeOK

(* A begun update has typed locals, whatever it stores. *)
LEMMA BeginType ==
  ASSUME TypeOK, NEW w \in Writers, NEW p \in Points,
         NEW kind \in {"write", "setq"}, NEW rec \in Record, NEW attempt \in Nat,
         Begin(w, p, kind, rec, attempt)
  PROVE  TypeOK'
<1>1. [Idle EXCEPT !.kind = kind, !.id = p, !.rec = rec,
                   !.attempt = attempt, !.seq0 = seq] \in Locals
  BY IdleType, BoundsAssumption DEF TypeOK, Idle, Locals
<1>2. loc' \in [Procs -> Locals]
  BY <1>1 DEF Begin, TypeOK
<1>3. QED
  BY <1>2 DEF Begin, Goto, TypeOK, history

LEMMA StartType == ASSUME TypeOK, Start PROVE TypeOK'
<1>1. PICK p \in Points :
        \/ \E w \in Writers : StartWrite(w, p) \/ StartSetQuality(w, p)
        \/ \E s \in Scanners : StartScan(s, p)
        \/ \E r \in Readers : StartRead(r, p)
        \/ \E x \in Pollers : StartPoll(x, p)
  BY DEF Start
<1>2. ASSUME NEW w \in Writers, StartWrite(w, p) PROVE TypeOK'
  <2>1. PICK t \in Times, q \in Qualities :
          Begin(w, p, "write", [ZeroRecord EXCEPT !["ts"] = t, !["quality"] = q], 1)
    BY <1>2 DEF StartWrite
  <2>2. [ZeroRecord EXCEPT !["ts"] = t, !["quality"] = q] \in Record
    BY IdleType, DataAssumption DEF Record
  <2>3. QED
    BY <2>1, <2>2, BeginType
<1>3. ASSUME NEW w \in Writers, StartSetQuality(w, p) PROVE TypeOK'
  <2>1. PICK q \in Qualities :
          Begin(w, p, "setq", [ZeroRecord EXCEPT !["quality"] = q], WriteAttempts)
    BY <1>3 DEF StartSetQuality
  <2>2. [ZeroRecord EXCEPT !["quality"] = q] \in Record
    BY IdleType, DataAssumption DEF Record
  <2>3. QED
    BY <2>1, <2>2, BeginType, BoundsAssumption
<1>4. ASSUME NEW s \in Scanners, StartScan(s, p) PROVE TypeOK'
  <2>1. PICK now \in Times :
          loc' = [loc EXCEPT ![s] = [Idle EXCEPT !.kind = "scan", !.id = p, !.now = now,
                                                 !.attempt = WriteAttempts]]
    BY <1>4 DEF StartScan
  <2>2. [Idle EXCEPT !.kind = "scan", !.id = p, !.now = now,
                     !.attempt = WriteAttempts] \in Locals
    BY IdleType, BoundsAssumption, DataAssumption DEF Idle, Locals
  <2>3. loc' \in [Procs -> Locals]
    BY <2>1, <2>2 DEF TypeOK
  <2>4. QED
    BY <1>4, <2>3 DEF StartScan, Goto, TypeOK, history
<1>5. ASSUME NEW r \in Readers, StartRead(r, p) PROVE TypeOK'
  <2>1. [Idle EXCEPT !.kind = "read", !.id = p, !.attempt = 1] \in Locals
    BY IdleType DEF Idle, Locals
  <2>2. loc' \in [Procs -> Locals]
    BY <1>5, <2>1 DEF StartRead, TypeOK
  <2>3. QED
    BY <1>5, <2>2 DEF StartRead, Goto, TypeOK, history
<1>6. ASSUME NEW x \in Pollers, StartPoll(x, p) PROVE TypeOK'
  <2>1. [Idle EXCEPT !.kind = "poll", !.id = p, !.rec = Garbage] \in Locals
    BY IdleType DEF Idle, Locals
  <2>2. loc' \in [Procs -> Locals]
    BY <1>6, <2>1 DEF StartPoll, TypeOK
  <2>3. QED
    BY <1>6, <2>2 DEF StartPoll, Goto, TypeOK
<1>7. QED
  BY <1>1, <1>2, <1>3, <1>4, <1>5, <1>6

(* Replacing the locals of one process. *)
LEMMA LocUpdate ==
  ASSUME loc \in [Procs -> Locals], NEW x \in Procs, NEW r \in Locals,
         loc' = [loc EXCEPT ![x] = r]
  PROVE  loc' \in [Procs -> Locals]
  OBVIOUS

LEMMA NoRetry == 0 \in 0 .. MaxRetry
  BY BoundsAssumption

(* Records of locals stay records of locals when several fields change. *)
LEMMA TwoFields ==
  ASSUME NEW r \in Locals, NEW n \in Nat, NEW k \in 0 .. MaxRetry
  PROVE  [r EXCEPT !.seq0 = n, !.retry = k] \in Locals
  BY Zenon DEF Locals

LEMMA ThreeFields ==
  ASSUME NEW r \in Locals, NEW n \in Nat, NEW k \in 0 .. MaxRetry, NEW a \in Nat
  PROVE  [r EXCEPT !.attempt = a, !.retry = k, !.seq0 = n] \in Locals
  BY Zenon DEF Locals

(* Ending a call keeps the types of labels and locals. *)
LEMMA ReturnType ==
  ASSUME TypeOK, NEW x \in Procs, Return(x)
  PROVE  loc' \in [Procs -> Locals] /\ pc' = [pc EXCEPT ![x] = "idle"]
  BY IdleType DEF Return, Goto, TypeOK

LEMMA LockStepType ==
  ASSUME TypeOK, NEW l \in Lockers, LockStep(l)
  PROVE  TypeOK'
<1> USE DEF Goto, history
<1>0. l \in Procs /\ loc[l] \in Locals /\ loc \in [Procs -> Locals] /\ seq \in Nat
  BY DEF TypeOK, Procs
<1>1. CASE CasSeq(l)
  <2>1. loc' \in [Procs -> Locals]
    <3>1. CASE UNCHANGED loc
      BY <3>1, <1>0
    <3>2. CASE loc' = [loc EXCEPT ![l] = [@ EXCEPT !.seq0 = seq, !.retry = 0]]
      <4>1. [loc[l] EXCEPT !.seq0 = seq, !.retry = 0] \in Locals
        BY <1>0, NoRetry, TwoFields, Zenon
      <4>2. QED
        BY <1>0, <3>2, <4>1, LocUpdate, Zenon
    <3>3. CASE loc' = [loc EXCEPT ![l].left =
                         IF loc[l].kind = "write" THEN Words ELSE {"quality"}]
      BY <3>3, <1>0 DEF Locals, Words
    <3>4. QED
      BY <1>1, <3>1, <3>2, <3>3 DEF CasSeq
  <2>2. seq' \in Nat
    BY <1>0, <1>1 DEF CasSeq, Locals
  <2>3. pc' \in [Procs -> {"idle", "begin", "recheck", "store", "unlock",
                       "dead", "diedinside", "readload", "copy", "ok",
                       "loopload", "loopcopy", "decide", "release", "done", "absent"}]
    BY <1>0, <1>1 DEF CasSeq, TypeOK, Refusal
  <2>4. QED
    BY <1>1, <2>1, <2>2, <2>3 DEF CasSeq, TypeOK
<1>2. CASE Backoff(l)
  <2>1. loc' \in [Procs -> Locals]
    BY <1>0, <1>2, BoundsAssumption DEF Backoff, Locals
  <2>2. QED
    BY <1>2, <2>1 DEF Backoff, TypeOK
<1>3. CASE GiveUp(l)
  <2>1. loc' \in [Procs -> Locals]
    <3>1. CASE loc' = [loc EXCEPT ![l] = [@ EXCEPT !.attempt = loc[l].attempt + 1, !.retry = 0, !.seq0 = seq]]
      <4>1. loc[l].attempt + 1 \in Nat
        BY <1>0 DEF Locals
      <4>2. [loc[l] EXCEPT !.attempt = loc[l].attempt + 1, !.retry = 0, !.seq0 = seq] \in Locals
        BY <1>0, <4>1, NoRetry, ThreeFields, Zenon
      <4>3. QED
        BY <1>0, <3>1, <4>2, LocUpdate, Zenon
    <3>2. QED
      BY <1>0, <1>3, <3>1, ReturnType DEF GiveUp
  <2>2. QED
    BY <1>0, <1>3, <2>1 DEF GiveUp, Return, TypeOK
<1>4. CASE WriteEnd(l)
  <2>1. seq' \in Nat
    BY <1>0, <1>4 DEF WriteEnd, Released, Locals
  <2>2. loc' \in [Procs -> Locals]
    BY <1>0, <1>4, ReturnType DEF WriteEnd
  <2>3. QED
    BY <1>0, <1>4, <2>1, <2>2 DEF WriteEnd, Return, TypeOK
<1>5. ASSUME NEW w \in Words, StoreWord(l, w) PROVE TypeOK'
  <2>1. loc' \in [Procs -> Locals]
    BY <1>0, <1>5 DEF StoreWord, Locals
  <2>2. pt' \in [Points -> Record]
    BY <1>0, <1>5 DEF StoreWord, Locals, Record, TypeOK
  <2>3. pc' \in [Procs -> {"idle", "begin", "recheck", "store", "unlock",
                       "dead", "diedinside", "readload", "copy", "ok",
                       "loopload", "loopcopy", "decide", "release", "done", "absent"}]
    BY <1>0, <1>5 DEF StoreWord, TypeOK
  <2>4. QED
    BY <1>5, <2>1, <2>2, <2>3 DEF StoreWord, TypeOK
<1>6. QED
  BY <1>1, <1>2, <1>3, <1>4, <1>5 DEF LockStep

LEMMA RecLeftFields ==
  ASSUME NEW r \in Locals, NEW rec \in Record, NEW S \in SUBSET Words
  PROVE  /\ [r EXCEPT !.rec = rec, !.left = S] \in Locals
         /\ [r EXCEPT !.left = S, !.rec = rec] \in Locals
  BY Zenon DEF Locals

LEMMA SeqLeftFields ==
  ASSUME NEW r \in Locals, NEW n \in Nat, NEW S \in SUBSET Words
  PROVE  [r EXCEPT !.seq0 = n, !.left = S] \in Locals
  BY Zenon DEF Locals

LEMMA SeqRecS1Fields ==
  ASSUME NEW r \in Locals, NEW n \in Nat, NEW rec \in Record, NEW k \in Nat
  PROVE  [r EXCEPT !.seq0 = n, !.rec = rec, !.s1 = k] \in Locals
  BY Zenon DEF Locals

LEMMA ScanStepType ==
  ASSUME TypeOK, NEW s \in Scanners, ScanStep(s)
  PROVE  TypeOK'
<1> USE DEF Goto, history
<1>0. s \in Procs /\ loc[s] \in Locals /\ loc \in [Procs -> Locals] /\ seq \in Nat
  BY DEF TypeOK, Procs, Lockers
<1>1. CASE ScanDecide(s)
  <2>1. loc' \in [Procs -> Locals]
    <3>1. CASE loc' = [loc EXCEPT ![s] = [@ EXCEPT !.seq0 = seq, !.rec = ZeroRecord, !.s1 = 1]]
      <4>1. [loc[s] EXCEPT !.seq0 = seq, !.rec = ZeroRecord, !.s1 = 1] \in Locals
        <5>1. 1 \in Nat
          OBVIOUS
        <5>2. QED
          BY <1>0, <5>1, IdleType, SeqRecS1Fields, Zenon
      <4>2. QED
        BY <1>0, <3>1, <4>1, LocUpdate, Zenon
    <3>2. QED
      BY <1>0, <1>1, <3>1, ReturnType DEF ScanDecide
  <2>2. QED
    BY <1>0, <1>1, <2>1 DEF ScanDecide, Return, TypeOK
<1>2. CASE Recheck(s)
  <2> DEFINE mark == [ZeroRecord EXCEPT !["quality"] =
                        QMake(QTimeout, QLimit(pt[loc[s].id]["quality"]))]
  <2>1. mark \in Record
    <3>1. pt[loc[s].id]["quality"] \in Nat
      BY <1>0 DEF TypeOK, Locals, Record, Words
    <3>2. QMake(QTimeout, QLimit(pt[loc[s].id]["quality"])) \in Nat
      BY <3>1, QualityType
    <3>3. QED
      BY <3>2, IdleType DEF Record
  <2>2. {"quality"} \in SUBSET Words
    BY DEF Words
  <2>3. [loc[s] EXCEPT !.left = {"quality"}, !.rec = mark] \in Locals
    <3> HIDE DEF mark
    <3> QED
      BY <1>0, <2>1, <2>2, RecLeftFields, Zenon
  <2>4. loc' \in [Procs -> Locals]
    <3>1. CASE loc' = [loc EXCEPT ![s] = [@ EXCEPT !.left = {"quality"}, !.rec = mark]]
      <4> HIDE DEF mark
      <4> QED
        BY <1>0, <3>1, <2>3, LocUpdate, Zenon
    <3>2. CASE UNCHANGED loc
      BY <1>0, <3>2
    <3>3. QED
      BY <1>2, <3>1, <3>2 DEF Recheck
  <2>5. pc' \in [Procs -> {"idle", "begin", "recheck", "store", "unlock",
                       "dead", "diedinside", "readload", "copy", "ok",
                       "loopload", "loopcopy", "decide", "release", "done", "absent"}]
    BY <1>0, <1>2 DEF Recheck, TypeOK
  <2>6. QED
    BY <1>2, <2>4, <2>5 DEF Recheck, TypeOK
<1>3. QED
  BY <1>1, <1>2 DEF ScanStep

LEMMA NextAttemptType ==
  ASSUME TypeOK, NEW r \in Readers, NextAttempt(r)
  PROVE  /\ loc' \in [Procs -> Locals]
         /\ pc' = [pc EXCEPT ![r] = "readload"] \/ pc' = [pc EXCEPT ![r] = "idle"]
<1>0. r \in Procs /\ loc[r] \in Locals /\ loc \in [Procs -> Locals]
  BY DEF TypeOK, Procs
<1>1. CASE loc' = [loc EXCEPT ![r].attempt = @ + 1] /\ Goto(r, "readload")
  BY <1>0, <1>1 DEF Locals, Goto
<1>2. QED
  BY <1>0, <1>1, ReturnType DEF NextAttempt

LEMMA ReadStepType ==
  ASSUME TypeOK, NEW r \in Readers, ReadStep(r)
  PROVE  TypeOK'
<1> USE DEF history
<1>0. r \in Procs /\ loc[r] \in Locals /\ loc \in [Procs -> Locals] /\ seq \in Nat
  BY DEF TypeOK, Procs
<1>1. CASE ReadLoad(r)
  <2>1. CASE NextAttempt(r)
    BY <1>0, <1>1, <2>1, NextAttemptType DEF ReadLoad, TypeOK
  <2>2. CASE loc' = [loc EXCEPT ![r] = [@ EXCEPT !.seq0 = seq, !.left = Words]]
             /\ Goto(r, "copy")
    <3>1. [loc[r] EXCEPT !.seq0 = seq, !.left = Words] \in Locals
      <4>1. Words \in SUBSET Words
        OBVIOUS
      <4>2. QED
        BY <1>0, <4>1, SeqLeftFields, Zenon
    <3>2. loc' \in [Procs -> Locals]
      BY <1>0, <2>2, <3>1, LocUpdate, Zenon
    <3>3. QED
      BY <1>0, <1>1, <2>2, <3>2 DEF ReadLoad, Goto, TypeOK
  <2>3. QED
    BY <1>1, <2>1, <2>2 DEF ReadLoad
<1>2. CASE ReadCheck(r)
  <2>1. CASE NextAttempt(r)
    BY <1>0, <1>2, <2>1, NextAttemptType DEF ReadCheck, TypeOK
  <2>2. CASE Goto(r, "ok") /\ UNCHANGED loc
    BY <1>0, <1>2, <2>2 DEF ReadCheck, Goto, TypeOK
  <2>3. QED
    BY <1>2, <2>1, <2>2 DEF ReadCheck
<1>3. QED
  BY <1>1, <1>2 DEF ReadStep

LEMMA CopyStepType ==
  ASSUME TypeOK, NEW x \in Readers \cup Looping, CopyStep(x)
  PROVE  TypeOK'
<1>0. x \in Procs /\ loc[x] \in Locals /\ loc \in [Procs -> Locals]
  BY DEF TypeOK, Procs, Lockers, Looping
<1>1. PICK w \in Words : CopyWord(x, w)
  BY DEF CopyStep
<1> DEFINE rec == [loc[x].rec EXCEPT ![w] = pt[loc[x].id][w]]
           rest == loc[x].left \ {w}
<1>2. rec \in Record /\ rest \in SUBSET Words
  BY <1>0 DEF Locals, Record, TypeOK
<1>3. loc' = [loc EXCEPT ![x] = [@ EXCEPT !.rec = rec, !.left = rest]]
  BY <1>1, Zenon DEF CopyWord
<1>4. loc' \in [Procs -> Locals]
  <2> HIDE DEF rec, rest
  <2>1. [loc[x] EXCEPT !.rec = rec, !.left = rest] \in Locals
    BY <1>0, <1>2, RecLeftFields, Zenon
  <2>2. QED
    BY <1>0, <1>3, <2>1, LocUpdate, Zenon
<1>5. QED
  BY <1>1, <1>4 DEF CopyWord, TypeOK, history

LEMMA LoopStepType ==
  ASSUME TypeOK, NEW x \in Looping, LoopStep(x)
  PROVE  TypeOK'
<1> USE DEF history
<1>0. x \in Procs /\ loc[x] \in Locals /\ loc \in [Procs -> Locals] /\ seq \in Nat
  BY DEF TypeOK, Procs, Lockers, Looping
<1>1. ASSUME LeaveLoop(x), UNCHANGED <<seq, pt, history>>
      PROVE  TypeOK'
  <2>1. CASE Return(x)
    BY <1>0, <1>1, <2>1, ReturnType DEF TypeOK
  <2>2. CASE Goto(x, "decide") /\ UNCHANGED loc
    BY <1>0, <1>1, <2>2 DEF Goto, TypeOK
  <2>3. QED
    BY <1>1, <2>1, <2>2 DEF LeaveLoop
<1>2. CASE LoopLoad(x)
  <2>1. CASE loc' = [loc EXCEPT ![x] = [@ EXCEPT !.seq0 = seq, !.left = Words]]
             /\ Goto(x, "loopcopy")
    <3>1. [loc[x] EXCEPT !.seq0 = seq, !.left = Words] \in Locals
      <4>1. Words \in SUBSET Words
        OBVIOUS
      <4>2. QED
        BY <1>0, <4>1, SeqLeftFields, Zenon
    <3>2. loc' \in [Procs -> Locals]
      BY <1>0, <2>1, <3>1, LocUpdate, Zenon
    <3>3. QED
      BY <1>0, <1>2, <2>1, <3>2 DEF LoopLoad, Goto, TypeOK
  <2>2. CASE UNCHANGED <<pc, loc>>
    BY <1>0, <1>2, <2>2 DEF LoopLoad, TypeOK
  <2>3. QED
    BY <1>1, <1>2, <2>1, <2>2 DEF LoopLoad
<1>3. CASE LoopCheck(x)
  <2>1. CASE loc' = [loc EXCEPT ![x].s1 = seq] /\ Goto(x, "loopload")
    <3>1. loc' \in [Procs -> Locals]
      BY <1>0, <2>1 DEF Locals
    <3>2. QED
      BY <1>0, <1>3, <2>1, <3>1 DEF LoopCheck, Goto, TypeOK
  <2>2. QED
    BY <1>1, <1>3, <2>1 DEF LoopCheck
<1>4. QED
  BY <1>2, <1>3 DEF LoopStep

LEMMA CrashType ==
  ASSUME TypeOK, NEW l \in Lockers, Crash(l)
  PROVE  TypeOK'
<1>1. l \in Procs /\ loc[l] \in Locals /\ loc \in [Procs -> Locals]
  BY DEF TypeOK, Procs
<1>2. [Idle EXCEPT !.seq0 = loc[l].seq0] \in Locals
  BY <1>1, IdleType DEF Locals
<1>3. loc' \in [Procs -> Locals]
  BY <1>1, <1>2 DEF Crash
<1>4. QED
  BY <1>1, <1>3 DEF Crash, Goto, TypeOK, history

LEMMA AttachStepType ==
  ASSUME TypeOK, NEW a \in Attachers, AttachStep(a)
  PROVE  TypeOK'
<1>0. a \in Procs /\ loc[a] \in Locals /\ loc \in [Procs -> Locals] /\ seq \in Nat
  BY DEF TypeOK, Procs
<1>1. CASE AttachLoad(a)
  <2>1. loc' \in [Procs -> Locals]
    BY <1>0, <1>1 DEF AttachLoad, Locals
  <2>2. QED
    BY <1>0, <1>1, <2>1 DEF AttachLoad, Goto, TypeOK, history
<1>2. CASE AttachStore(a)
  <2>1. seq' \in Nat
    BY <1>0, <1>2 DEF AttachStore, Locals
  <2>2. QED
    BY <1>0, <1>2, <2>1 DEF AttachStore, Goto, TypeOK
<1>3. QED
  BY <1>1, <1>2 DEF AttachStep

\* The state keeps its shape: irt_pm_*, the read loops, crashes and recoveries
\* store whole words only, and the back-off counter stays within its limit.
THEOREM TypeCorrect == Spec => []TypeOK
<1>1. TypeOK /\ [Next]_vars => TypeOK'
  <2> SUFFICES ASSUME TypeOK, [Next]_vars PROVE TypeOK'
    OBVIOUS
  <2>1. CASE UNCHANGED vars
    BY <2>1 DEF vars, TypeOK
  <2>2. CASE Next
    BY <2>2, StartType, LockStepType, CrashType, ScanStepType, LoopStepType,
       ReadStepType, CopyStepType, AttachStepType DEF Next
  <2>3. QED
    BY <2>1, <2>2
<1>2. QED
  BY <1>1, TypeInit, PTL DEF Spec

-----------------------------------------------------------------------------
(* Steps that neither take, release nor abandon the lock, and leave the      *)
(* attachers alone, preserve the invariant of the lock.                      *)
LEMMA LockFrame ==
  ASSUME LockInv, UNCHANGED <<seq, stolen>>,
         \A l \in Lockers :
            /\ l \in Inside' <=> l \in Inside
            /\ pc'[l] = "diedinside" <=> pc[l] = "diedinside"
            /\ l \in Inside \/ pc[l] = "diedinside" => loc'[l].seq0 = loc[l].seq0,
         \A a \in Attachers : pc'[a] = pc[a] /\ loc'[a].seq0 = loc[a].seq0
  PROVE  LockInv'
<1> USE DEF LockInv, MutualExclusion, NoLeakedLock
<1>1. Inside \subseteq Lockers /\ Inside' \subseteq Lockers
  BY DEF Inside
<1>2. SUFFICES ASSUME ~stolen' PROVE LockInv'
  BY DEF LockInv
<1>3. MutualExclusion'
  BY <1>1, <1>2
<1>4. NoLeakedLock'
  BY <1>1, <1>2
<1>5. \A l \in Inside' : Even(loc'[l].seq0) /\ seq' = loc'[l].seq0 + 1
  BY <1>1, <1>2
<1>6. \A a \in Attachers : pc'[a] = "release" => Odd(loc'[a].seq0) /\ loc'[a].seq0 <= seq'
  BY <1>2
<1>7. QED
  BY <1>3, <1>4, <1>5, <1>6

Locked == {"recheck", "store", "unlock", "diedinside"}

(* A step of one process that is outside the lock and stays outside. *)
LEMMA OutsideStep ==
  ASSUME LockInv, UNCHANGED <<seq, stolen>>,
         NEW x \in Procs, x \notin Attachers,
         pc[x] \notin Locked, pc'[x] \notin Locked,
         \A y \in Procs \ {x} : pc'[y] = pc[y] /\ loc'[y] = loc[y]
  PROVE  LockInv'
<1>1. \A l \in Lockers :
         /\ l \in Inside' <=> l \in Inside
         /\ pc'[l] = "diedinside" <=> pc[l] = "diedinside"
         /\ l \in Inside \/ pc[l] = "diedinside" => loc'[l].seq0 = loc[l].seq0
  BY DEF Inside, Locked, Procs
<1>2. \A a \in Attachers : pc'[a] = pc[a] /\ loc'[a].seq0 = loc[a].seq0
  BY DEF Procs
<1>3. QED
  BY <1>1, <1>2, LockFrame

(* The same with the labels and locals as the actions give them. *)
LEMMA OutsideAction ==
  ASSUME TypeOK, LockInv, UNCHANGED <<seq, stolen>>,
         NEW x \in Procs, x \notin Attachers, NEW label, NEW r,
         pc[x] \notin Locked, label \notin Locked,
         pc' = pc \/ pc' = [pc EXCEPT ![x] = label],
         loc' = loc \/ loc' = [loc EXCEPT ![x] = r]
  PROVE  LockInv'
<1>1. pc'[x] \notin Locked
  BY DEF TypeOK
<1>2. \A y \in Procs \ {x} : pc'[y] = pc[y] /\ loc'[y] = loc[y]
  BY DEF TypeOK
<1>3. QED
  BY <1>1, <1>2, OutsideStep

LEMMA StartLock == ASSUME TypeOK, LockInv, Start PROVE LockInv'
<1> USE RolesAssumption DEF Goto, history, Locked
<1>1. PICK p \in Points :
        \/ \E w \in Writers : StartWrite(w, p) \/ StartSetQuality(w, p)
        \/ \E s \in Scanners : StartScan(s, p)
        \/ \E r \in Readers : StartRead(r, p)
        \/ \E x \in Pollers : StartPoll(x, p)
  BY DEF Start
<1>2. ASSUME NEW w \in Writers, NEW kind, NEW rec, NEW attempt,
             Begin(w, p, kind, rec, attempt)
      PROVE  LockInv'
  <2>1. w \in Procs /\ w \notin Attachers
    BY DEF Procs, Lockers
  <2>2. QED
    BY <1>2, <2>1, OutsideAction DEF Begin
<1>3. ASSUME NEW w \in Writers, StartWrite(w, p) \/ StartSetQuality(w, p)
      PROVE  LockInv'
  BY <1>2, <1>3 DEF StartWrite, StartSetQuality
<1>4. ASSUME NEW s \in Scanners, StartScan(s, p) PROVE LockInv'
  <2>1. s \in Procs /\ s \notin Attachers
    BY DEF Procs, Lockers
  <2>2. QED
    BY <1>4, <2>1, OutsideAction DEF StartScan
<1>5. ASSUME NEW r \in Readers, StartRead(r, p) PROVE LockInv'
  <2>1. r \in Procs /\ r \notin Attachers
    BY DEF Procs
  <2>2. QED
    BY <1>5, <2>1, OutsideAction DEF StartRead
<1>6. ASSUME NEW x \in Pollers, StartPoll(x, p) PROVE LockInv'
  <2>1. x \in Procs /\ x \notin Attachers
    BY DEF Procs
  <2>2. QED
    BY <1>6, <2>1, OutsideAction DEF StartPoll
<1>7. QED
  BY <1>1, <1>3, <1>4, <1>5, <1>6

(* The read loops never touch the lock. *)
LEMMA ReadersLock ==
  ASSUME TypeOK, LockInv, NEW x \in Readers \cup Looping,
         \/ x \in Readers /\ ReadStep(x)
         \/ x \in Looping /\ LoopStep(x)
         \/ CopyStep(x)
  PROVE  LockInv'
<1> USE DEF Goto, history, Locked, Return
<1>0. x \in Procs /\ x \notin Attachers
  BY RolesAssumption DEF Procs, Lockers, Looping
<1>1. ASSUME NextAttempt(x), pc[x] \notin Locked, UNCHANGED <<seq, pt, history>>
      PROVE  LockInv'
  <2>1. CASE Goto(x, "readload") /\ loc' = [loc EXCEPT ![x].attempt = @ + 1]
    BY <1>0, <1>1, <2>1, OutsideAction
  <2>2. CASE Return(x)
    BY <1>0, <1>1, <2>2, OutsideAction
  <2>3. QED
    BY <1>1, <2>1, <2>2 DEF NextAttempt
<1>2. ASSUME LeaveLoop(x), pc[x] \notin Locked, UNCHANGED <<seq, pt, history>>
      PROVE  LockInv'
  <2>1. CASE Goto(x, "decide") /\ UNCHANGED loc
    BY <1>0, <1>2, <2>1, OutsideAction
  <2>2. CASE Return(x)
    BY <1>0, <1>2, <2>2, OutsideAction
  <2>3. QED
    BY <1>2, <2>1, <2>2 DEF LeaveLoop
<1>3. CASE x \in Readers /\ ReadStep(x)
  <2>1. CASE ReadLoad(x)
    BY <1>0, <1>1, <2>1, OutsideAction DEF ReadLoad
  <2>2. CASE ReadCheck(x)
    BY <1>0, <1>1, <2>2, OutsideAction DEF ReadCheck
  <2>3. QED
    BY <1>3, <2>1, <2>2 DEF ReadStep
<1>4. CASE x \in Looping /\ LoopStep(x)
  <2>1. CASE LoopLoad(x)
    BY <1>0, <1>2, <2>1, OutsideAction DEF LoopLoad
  <2>2. CASE LoopCheck(x)
    BY <1>0, <1>2, <2>2, OutsideAction DEF LoopCheck
  <2>3. QED
    BY <1>4, <2>1, <2>2 DEF LoopStep
<1>5. CASE CopyStep(x)
  <2>1. PICK w \in Words : CopyWord(x, w)
    BY <1>5 DEF CopyStep
  <2>2. QED
    BY <1>0, <2>1, OutsideAction DEF CopyWord
<1>6. QED
  BY <1>3, <1>4, <1>5

(* A successful compare-and-swap: the word was even, so nobody was inside. *)
LEMMA TakeLock ==
  ASSUME TypeOK, LockInv, NEW l \in Lockers, NEW label \in {"recheck", "store", "unlock"},
         Even(loc[l].seq0), seq = loc[l].seq0, seq' = loc[l].seq0 + 1, UNCHANGED stolen,
         pc' = [pc EXCEPT ![l] = label],
         \A x \in Procs : loc'[x].seq0 = loc[x].seq0
  PROVE  LockInv'
<1> USE DEF LockInv
<1> SUFFICES ASSUME ~stolen' PROVE LockInv'
  OBVIOUS
<1>0. l \in Procs /\ seq \in Nat /\ Lockers \subseteq Procs /\ Attachers \subseteq Procs
      /\ \A x \in Procs : loc[x].seq0 \in Nat
  BY DEF TypeOK, Procs, Locals
<1>1. Inside = {}
  <2> SUFFICES ASSUME NEW m \in Inside PROVE FALSE
    OBVIOUS
  <2>1. m \in Lockers /\ loc[m].seq0 \in Nat
    BY <1>0 DEF Inside
  <2>2. Even(loc[m].seq0) /\ seq = loc[m].seq0 + 1
    OBVIOUS
  <2>3. Odd(seq) /\ Even(seq)
    BY <2>1, <2>2, Parity
  <2>4. QED
    BY <1>0, <2>3, Parity
<1>2. Inside' = {l}
  BY <1>0, <1>1 DEF Inside, TypeOK
<1>3. Odd(seq')
  BY <1>0, Parity
<1>4. MutualExclusion'
  BY <1>2 DEF MutualExclusion
<1>5. NoLeakedLock'
  BY <1>0, <1>2 DEF NoLeakedLock
<1>6. \A m \in Inside' : Even(loc'[m].seq0) /\ seq' = loc'[m].seq0 + 1
  BY <1>0, <1>2
<1>7. \A a \in Attachers : pc'[a] = "release" => Odd(loc'[a].seq0) /\ loc'[a].seq0 <= seq'
  <2> SUFFICES ASSUME NEW a \in Attachers, pc'[a] = "release"
               PROVE  Odd(loc'[a].seq0) /\ loc'[a].seq0 <= seq'
    OBVIOUS
  <2>1. pc[a] = "release"
    BY <1>0 DEF TypeOK
  <2>2. Odd(loc[a].seq0) /\ loc[a].seq0 <= seq
    BY <2>1
  <2>3. QED
    BY <1>0, <2>2
<1>8. QED
  BY <1>4, <1>5, <1>6, <1>7

LEMMA LockStepLock ==
  ASSUME TypeOK, LockInv, NEW l \in Lockers, LockStep(l)
  PROVE  LockInv'
<1> USE DEF Goto, history
<1>0. /\ l \in Procs /\ l \notin Attachers /\ Lockers \subseteq Procs
      /\ loc \in [Procs -> Locals] /\ seq \in Nat
  BY RolesAssumption DEF TypeOK, Procs, Lockers
<1>1. CASE CasSeq(l)
  <2>1. ASSUME CanTake(l), seq' = loc[l].seq0 + 1,
               NEW label \in {"recheck", "store", "unlock"}, Goto(l, label),
               loc' = loc \/ \E S : loc' = [loc EXCEPT ![l].left = S]
        PROVE  LockInv'
    <3>1. \A x \in Procs : loc'[x].seq0 = loc[x].seq0
      BY <1>0, <2>1 DEF Locals
    <3>2. QED
      BY <1>1, <2>1, <3>1, TakeLock DEF CasSeq, CanTake
  <2>2. CASE ~CanTake(l) /\ loc' = [loc EXCEPT ![l] = [@ EXCEPT !.seq0 = seq, !.retry = 0]]
             /\ UNCHANGED <<seq, pc>>
    <3> DEFINE r == [loc[l] EXCEPT !.seq0 = seq, !.retry = 0]
    <3>1. loc' = [loc EXCEPT ![l] = r]
      BY <2>2, Zenon
    <3>2. pc[l] \notin Locked /\ UNCHANGED stolen
      BY <1>1 DEF CasSeq, Locked
    <3> HIDE DEF r
    <3>3. QED
      BY <1>0, <2>2, <3>1, <3>2, OutsideAction DEF Locked
  <2>3. QED
    BY <1>1, <2>1, <2>2 DEF CasSeq, Refusal
<1>2. CASE Backoff(l)
  BY <1>0, <1>2, OutsideAction DEF Backoff, Locked
<1>3. CASE GiveUp(l)
  <2>1. CASE Return(l)
    BY <1>0, <1>3, <2>1, OutsideAction DEF GiveUp, Return, Locked
  <2>2. CASE loc' = [loc EXCEPT ![l] = [@ EXCEPT !.attempt = loc[l].attempt + 1,
                                                 !.retry = 0, !.seq0 = seq]]
             /\ UNCHANGED pc
    <3> DEFINE r == [loc[l] EXCEPT !.attempt = loc[l].attempt + 1, !.retry = 0, !.seq0 = seq]
    <3>1. loc' = [loc EXCEPT ![l] = r]
      BY <2>2, Zenon
    <3>2. pc[l] \notin Locked /\ UNCHANGED <<seq, stolen>>
      BY <1>3 DEF GiveUp, Locked
    <3> HIDE DEF r
    <3>3. QED
      BY <1>0, <2>2, <3>1, <3>2, OutsideAction DEF Locked
  <2>3. QED
    BY <1>3, <2>1, <2>2 DEF GiveUp
<1>4. CASE WriteEnd(l)
  <2> SUFFICES ASSUME ~stolen' PROVE LockInv'
    BY DEF LockInv
  <2>1. ~stolen /\ l \in Inside
    BY <1>4 DEF WriteEnd, Inside
  <2>2. Even(loc[l].seq0) /\ seq = loc[l].seq0 + 1 /\ Inside = {l} /\ loc[l].seq0 \in Nat
    BY <1>0, <2>1 DEF LockInv, MutualExclusion, Locals
  <2>3. seq' = seq + 1 /\ Even(seq') /\ ~Odd(seq') /\ seq' \in Nat
    BY <1>0, <1>4, <2>2, Parity DEF WriteEnd, Released
  <2>4. Inside' = {}
    BY <1>0, <1>4, <2>2 DEF WriteEnd, Return, Inside, TypeOK
  <2>5. \A a \in Attachers : pc'[a] = "release" =>
           Odd(loc'[a].seq0) /\ loc'[a].seq0 <= seq'
    <3> SUFFICES ASSUME NEW a \in Attachers, pc'[a] = "release"
                 PROVE  Odd(loc'[a].seq0) /\ loc'[a].seq0 <= seq'
      OBVIOUS
    <3>1. a \in Procs /\ a # l
      BY <1>0 DEF Procs
    <3>2. pc[a] = "release" /\ loc'[a] = loc[a]
      BY <1>0, <1>4, <3>1 DEF WriteEnd, Return, TypeOK
    <3>3. Odd(loc[a].seq0) /\ loc[a].seq0 <= seq /\ loc[a].seq0 \in Nat
      BY <1>0, <2>1, <3>1, <3>2 DEF LockInv, Locals
    <3>4. QED
      BY <1>0, <2>3, <3>2, <3>3
  <2>6. QED
    BY <2>3, <2>4, <2>5 DEF LockInv, MutualExclusion, NoLeakedLock
<1>5. ASSUME NEW w \in Words, StoreWord(l, w) PROVE LockInv'
  <2>1. \A m \in Lockers :
         /\ m \in Inside' <=> m \in Inside
         /\ pc'[m] = "diedinside" <=> pc[m] = "diedinside"
         /\ m \in Inside \/ pc[m] = "diedinside" => loc'[m].seq0 = loc[m].seq0
    BY <1>0, <1>5 DEF StoreWord, Inside, TypeOK, Locals
  <2>2. \A a \in Attachers : pc'[a] = pc[a] /\ loc'[a].seq0 = loc[a].seq0
    BY <1>0, <1>5 DEF StoreWord, TypeOK, Procs
  <2>3. QED
    BY <1>5, <2>1, <2>2, LockFrame DEF StoreWord
<1>6. QED
  BY <1>1, <1>2, <1>3, <1>4, <1>5 DEF LockStep

LEMMA ScanStepLock ==
  ASSUME TypeOK, LockInv, NEW s \in Scanners, ScanStep(s)
  PROVE  LockInv'
<1> USE DEF Goto, history
<1>0. /\ s \in Procs /\ s \in Lockers /\ s \notin Attachers /\ Lockers \subseteq Procs
      /\ loc \in [Procs -> Locals] /\ seq \in Nat
  BY RolesAssumption DEF TypeOK, Procs, Lockers
<1>1. CASE ScanDecide(s)
  <2>1. CASE Return(s)
    BY <1>0, <1>1, <2>1, OutsideAction DEF ScanDecide, Return, Locked
  <2>2. CASE loc' = [loc EXCEPT ![s] = [@ EXCEPT !.seq0 = seq, !.rec = ZeroRecord, !.s1 = 1]]
             /\ Goto(s, "begin")
    <3> DEFINE r == [loc[s] EXCEPT !.seq0 = seq, !.rec = ZeroRecord, !.s1 = 1]
    <3>1. loc' = [loc EXCEPT ![s] = r]
      BY <2>2, Zenon
    <3>2. pc[s] \notin Locked /\ UNCHANGED <<seq, stolen>>
      BY <1>1 DEF ScanDecide, Locked
    <3> HIDE DEF r
    <3>3. QED
      BY <1>0, <2>2, <3>1, <3>2, OutsideAction DEF Locked
  <2>3. QED
    BY <1>1, <2>1, <2>2 DEF ScanDecide
<1>2. CASE Recheck(s)
  <2>1. \A x \in Procs : loc'[x].seq0 = loc[x].seq0
    <3>1. CASE UNCHANGED loc
      BY <3>1
    <3>2. ASSUME NEW S, NEW rec, loc' = [loc EXCEPT ![s] = [@ EXCEPT !.left = S, !.rec = rec]]
          PROVE  \A x \in Procs : loc'[x].seq0 = loc[x].seq0
      <4>1. [loc[s] EXCEPT !.left = S, !.rec = rec].seq0 = loc[s].seq0
        BY <1>0 DEF Locals
      <4>2. QED
        BY <1>0, <3>2, <4>1
    <3>3. QED
      BY <1>2, <3>1, <3>2 DEF Recheck
  <2>2. /\ pc' = [pc EXCEPT ![s] = "store"] \/ pc' = [pc EXCEPT ![s] = "unlock"]
        /\ pc[s] = "recheck" /\ UNCHANGED <<seq, stolen>>
    BY <1>2 DEF Recheck
  <2>3. \A m \in Lockers : /\ m \in Inside' <=> m \in Inside
                           /\ pc'[m] = "diedinside" <=> pc[m] = "diedinside"
    BY <1>0, <2>2 DEF Inside, TypeOK
  <2>4. \A a \in Attachers : pc'[a] = pc[a] /\ loc'[a].seq0 = loc[a].seq0
    BY <1>0, <2>1, <2>2 DEF TypeOK, Procs
  <2>5. QED
    BY <1>0, <2>1, <2>2, <2>3, <2>4, LockFrame
<1>3. QED
  BY <1>1, <1>2 DEF ScanStep

(* A process that dies inside leaves the word odd and stays its owner. *)
LEMMA CrashLock ==
  ASSUME TypeOK, LockInv, NEW l \in Lockers, Crash(l)
  PROVE  LockInv'
<1> SUFFICES ASSUME ~stolen' PROVE LockInv'
  BY DEF LockInv
<1>0. /\ l \in Procs /\ l \notin Attachers /\ Lockers \subseteq Procs
      /\ Attachers \subseteq Procs /\ loc \in [Procs -> Locals] /\ ~stolen
      /\ UNCHANGED seq
  BY RolesAssumption DEF TypeOK, Procs, Lockers, Crash, history
<1>1. \A x \in Procs : loc'[x].seq0 = loc[x].seq0
  BY <1>0 DEF Crash, Idle
<1>2. Inside' = Inside \ {l} /\ pc'[l] = (IF l \in Inside THEN "diedinside" ELSE "dead")
  BY <1>0 DEF Crash, Inside, Goto, TypeOK
<1>3. \A x \in Procs \ {l} : pc'[x] = pc[x]
  BY <1>0 DEF Crash, Goto, TypeOK
<1>4. pc[l] # "diedinside"
  BY DEF Crash, Dead
<1>5. MutualExclusion'
  BY <1>0, <1>2 DEF MutualExclusion, LockInv
<1>6. NoLeakedLock'
  BY <1>0, <1>1, <1>2, <1>3, <1>4 DEF NoLeakedLock, LockInv
<1>7. QED
  BY <1>0, <1>1, <1>2, <1>3, <1>5, <1>6 DEF LockInv, Inside

LEMMA AttachStepLock ==
  ASSUME TypeOK, LockInv, NEW a \in Attachers, AttachStep(a)
  PROVE  LockInv'
<1> SUFFICES ASSUME ~stolen' PROVE LockInv'
  BY DEF LockInv
<1> USE DEF Goto, history
<1>0. /\ a \in Procs /\ a \notin Lockers /\ Lockers \subseteq Procs
      /\ Attachers \subseteq Procs /\ loc \in [Procs -> Locals] /\ ~stolen /\ seq \in Nat
  BY RolesAssumption DEF TypeOK, Procs, Lockers, AttachStep, AttachLoad, AttachStore
<1>1. \A l \in Lockers : pc'[l] = pc[l] /\ loc'[l] = loc[l]
  BY <1>0 DEF AttachStep, AttachLoad, AttachStore, TypeOK
<1>2. Inside' = Inside
  BY <1>1 DEF Inside
<1>3. MutualExclusion'
  BY <1>0, <1>2 DEF MutualExclusion, LockInv
<1>4. CASE AttachLoad(a)
  <2>1. UNCHANGED seq
    BY <1>4 DEF AttachLoad
  <2>2. \A b \in Attachers : pc'[b] = "release" =>
           Odd(loc'[b].seq0) /\ loc'[b].seq0 <= seq'
    BY <1>0, <1>4, <2>1 DEF AttachLoad, LockInv, TypeOK, Locals
  <2>3. NoLeakedLock'
    BY <1>0, <1>1, <1>2, <2>1 DEF NoLeakedLock, LockInv
  <2>4. QED
    BY <1>0, <1>1, <1>2, <1>3, <2>1, <2>2, <2>3 DEF LockInv, Inside
<1>5. CASE AttachStore(a)
  <2>1. /\ seq' = loc[a].seq0 + 1 /\ loc[a].seq0 \in Nat /\ Odd(loc[a].seq0)
        /\ UNCHANGED loc
        /\ \/ seq = loc[a].seq0 /\ Inside = {}
           \/ seq = loc[a].seq0 + 1
    BY <1>0, <1>5 DEF AttachStore, LockInv, Locals
  <2>2. seq <= seq' /\ seq' \in Nat /\ ~Odd(seq')
    BY <1>0, <2>1, Parity
  <2>3. Inside' = {}
    <3> SUFFICES ASSUME NEW m \in Inside, seq = loc[a].seq0 + 1 PROVE FALSE
      BY <1>2, <2>1
    <3>1. Even(loc[m].seq0) /\ seq = loc[m].seq0 + 1 /\ loc[m].seq0 \in Nat
      BY <1>0 DEF LockInv, Inside, Locals
    <3>2. QED
      BY <1>0, <2>1, <3>1, Parity
  <2>4. \A b \in Attachers : pc'[b] = "release" =>
           Odd(loc'[b].seq0) /\ loc'[b].seq0 <= seq'
    <3> SUFFICES ASSUME NEW b \in Attachers, pc'[b] = "release"
                 PROVE  Odd(loc'[b].seq0) /\ loc'[b].seq0 <= seq'
      OBVIOUS
    <3>1. b \in Procs /\ pc[b] = "release"
      BY <1>0, <1>5 DEF AttachStore, TypeOK
    <3>2. Odd(loc[b].seq0) /\ loc[b].seq0 <= seq /\ loc[b].seq0 \in Nat
      BY <1>0, <3>1 DEF LockInv, Locals
    <3>3. QED
      BY <1>0, <2>1, <2>2, <3>2
  <2>5. QED
    BY <1>3, <2>2, <2>3, <2>4 DEF LockInv, NoLeakedLock
<1>6. QED
  BY <1>4, <1>5 DEF AttachStep

LEMMA LockInitially == Init => LockInv
<1> SUFFICES ASSUME Init PROVE LockInv
  OBVIOUS
<1>1. Inside = {} /\ \A a \in Attachers : pc[a] # "release"
  BY DEF Init, Inside, Procs, Lockers
<1>2. ~Odd(seq)
  BY DEF Init, Odd
<1>3. QED
  BY <1>1, <1>2 DEF LockInv, MutualExclusion, NoLeakedLock

\* The lock invariant is kept by every step of writers, scans, reads, crashes and
\* recoveries, for any number of processes.
THEOREM LockCorrect == Spec => []LockInv
<1>1. TypeOK /\ LockInv /\ [Next]_vars => LockInv'
  <2> SUFFICES ASSUME TypeOK, LockInv, [Next]_vars PROVE LockInv'
    OBVIOUS
  <2>1. CASE UNCHANGED vars
    BY <2>1, LockFrame DEF vars, Inside
  <2>2. CASE Next
    BY <2>2, StartLock, LockStepLock, CrashLock, ScanStepLock, ReadersLock,
       AttachStepLock DEF Next
  <2>3. QED
    BY <2>1, <2>2
<1>2. QED
  BY <1>1, LockInitially, TypeCorrect, PTL DEF Spec

\* irt_seqlock_write_begin never lets two processes in, unless the recovery of
\* irt_shm_init overwrote the word of a live holder.
THEOREM ExclusionHolds == Spec => []MutualExclusion
<1>1. LockInv => MutualExclusion
  BY DEF LockInv, MutualExclusion
<1>2. QED
  BY <1>1, LockCorrect, PTL

\* Every way out of a locked section releases the lock.
THEOREM NoLockLeaks == Spec => []NoLeakedLock
<1>1. LockInv => NoLeakedLock
  BY DEF LockInv, NoLeakedLock
<1>2. QED
  BY <1>1, LockCorrect, PTL

-----------------------------------------------------------------------------
(* Why the bounded reads are atomic.  Until a recovery overwrites the word,  *)
(* the records are the published ones whenever the word is even, a holder    *)
(* disturbs the record of its own point only, and what a reader has copied   *)
(* so far is the published record, as long as the word still is what the     *)
(* reader loaded.                                                            *)
CopiedPart(r) ==
  /\ Even(loc[r].seq0) /\ loc[r].seq0 <= seq
  /\ seq = loc[r].seq0 =>
       \A w \in Words \ loc[r].left : loc[r].rec[w] = last[loc[r].id][w]

SnapshotInv ==
  ~(stolen \/ recovered) =>
    /\ Even(seq) => pt = last
    /\ \A l \in Inside : \A p \in Points \ {loc[l].id} : pt[p] = last[p]
    /\ \A r \in Readers : pc[r] = "copy" => CopiedPart(r)

(* The word, the records and the locks stay: what holds of the processes     *)
(* inside and of the copies stays.                                           *)
LEMMA SnapshotFrame ==
  ASSUME SnapshotInv, UNCHANGED <<seq, pt, last, stolen, recovered>>,
         \A l \in Inside' : l \in Inside /\ loc'[l].id = loc[l].id,
         \A r \in Readers : pc'[r] = "copy" => pc[r] = "copy" /\ loc'[r] = loc[r]
  PROVE  SnapshotInv'
<1> SUFFICES ASSUME ~(stolen' \/ recovered') PROVE SnapshotInv'
  BY DEF SnapshotInv
<1>1. (Even(seq) => pt = last)'
  BY DEF SnapshotInv, Even
<1>2. \A l \in Inside' : \A p \in Points \ {loc'[l].id} : pt'[p] = last'[p]
  BY DEF SnapshotInv
<1>3. \A r \in Readers : pc'[r] = "copy" => CopiedPart(r)'
  BY DEF SnapshotInv, CopiedPart, Even
<1>4. QED
  BY <1>1, <1>2, <1>3 DEF SnapshotInv

(* The same for a step of one process that touches neither the lock nor a    *)
(* copy, with the labels and locals as the actions give them.                *)
LEMMA OutsideSnapshot ==
  ASSUME TypeOK, SnapshotInv, UNCHANGED <<seq, pt, last, stolen, recovered>>,
         NEW x \in Procs, NEW label, NEW r,
         pc[x] \notin Locked, label \notin Locked, label # "copy",
         pc' = pc \/ pc' = [pc EXCEPT ![x] = label],
         pc[x] # "copy" \/ pc' = [pc EXCEPT ![x] = label],
         loc' = loc \/ loc' = [loc EXCEPT ![x] = r]
  PROVE  SnapshotInv'
<1>1. \A y \in Procs \ {x} : pc'[y] = pc[y] /\ loc'[y] = loc[y]
  BY DEF TypeOK
<1>2. pc'[x] \notin Locked /\ pc'[x] # "copy"
  BY DEF TypeOK
<1>3. \A l \in Inside' : l \in Inside /\ loc'[l].id = loc[l].id
  BY <1>1, <1>2 DEF Inside, Locked, Procs
<1>4. \A c \in Readers : pc'[c] = "copy" => pc[c] = "copy" /\ loc'[c] = loc[c]
  BY <1>1, <1>2 DEF Procs
<1>5. QED
  BY <1>3, <1>4, SnapshotFrame

LEMMA StartSnapshot == ASSUME TypeOK, SnapshotInv, Start PROVE SnapshotInv'
<1> USE RolesAssumption DEF Goto, history, Locked
<1>1. PICK p \in Points :
        \/ \E w \in Writers : StartWrite(w, p) \/ StartSetQuality(w, p)
        \/ \E s \in Scanners : StartScan(s, p)
        \/ \E r \in Readers : StartRead(r, p)
        \/ \E x \in Pollers : StartPoll(x, p)
  BY DEF Start
<1>0. Writers \cup Scanners \cup Readers \cup Pollers \subseteq Procs
  BY DEF Procs, Lockers
<1>2. ASSUME NEW w \in Writers, NEW kind, NEW rec, NEW attempt,
             Begin(w, p, kind, rec, attempt)
      PROVE  SnapshotInv'
  BY <1>0, <1>2, OutsideSnapshot DEF Begin
<1>3. ASSUME NEW w \in Writers, StartWrite(w, p) \/ StartSetQuality(w, p)
      PROVE  SnapshotInv'
  BY <1>2, <1>3 DEF StartWrite, StartSetQuality
<1>4. ASSUME NEW s \in Scanners, StartScan(s, p) PROVE SnapshotInv'
  BY <1>0, <1>4, OutsideSnapshot DEF StartScan
<1>5. ASSUME NEW r \in Readers, StartRead(r, p) PROVE SnapshotInv'
  BY <1>0, <1>5, OutsideSnapshot DEF StartRead
<1>6. ASSUME NEW x \in Pollers, StartPoll(x, p) PROVE SnapshotInv'
  BY <1>0, <1>6, OutsideSnapshot DEF StartPoll
<1>7. QED
  BY <1>1, <1>3, <1>4, <1>5, <1>6

(* A reader that loads an even word has copied nothing; every word it copies *)
(* under the same even word is the published one.                            *)
LEMMA ReadersSnapshot ==
  ASSUME TypeOK, LockInv, SnapshotInv, NEW x \in Readers \cup Looping,
         \/ x \in Readers /\ ReadStep(x)
         \/ x \in Looping /\ LoopStep(x)
         \/ CopyStep(x)
  PROVE  SnapshotInv'
<1> USE DEF Goto, history, Locked, Return
<1>0. x \in Procs /\ seq \in Nat /\ loc \in [Procs -> Locals] /\ Readers \subseteq Procs
      /\ Lockers \subseteq Procs
  BY DEF Procs, Lockers, Looping, TypeOK
<1>1. ASSUME NextAttempt(x), pc[x] \notin Locked, UNCHANGED <<seq, pt, history>>
      PROVE  SnapshotInv'
  <2>1. CASE Goto(x, "readload") /\ loc' = [loc EXCEPT ![x].attempt = @ + 1]
    BY <1>0, <1>1, <2>1, OutsideSnapshot
  <2>2. CASE Return(x)
    BY <1>0, <1>1, <2>2, OutsideSnapshot
  <2>3. QED
    BY <1>1, <2>1, <2>2 DEF NextAttempt
<1>2. ASSUME LeaveLoop(x), pc[x] \notin Locked, UNCHANGED <<seq, pt, history>>
      PROVE  SnapshotInv'
  <2>1. CASE Goto(x, "decide") /\ UNCHANGED loc
    BY <1>0, <1>2, <2>1, OutsideSnapshot
  <2>2. CASE Return(x)
    BY <1>0, <1>2, <2>2, OutsideSnapshot
  <2>3. QED
    BY <1>2, <2>1, <2>2 DEF LeaveLoop
<1>3. CASE x \in Readers /\ ReadLoad(x)
  <2>1. CASE Odd(seq) /\ NextAttempt(x)
    BY <1>1, <1>3, <2>1 DEF ReadLoad
  <2>2. CASE /\ Even(seq) /\ Goto(x, "copy")
             /\ loc' = [loc EXCEPT ![x] = [@ EXCEPT !.seq0 = seq, !.left = Words]]
    <3>1. UNCHANGED <<seq, pt, last, stolen, recovered>> /\ pc[x] = "readload"
      BY <1>3 DEF ReadLoad
    <3>2. /\ \A y \in Procs \ {x} : pc'[y] = pc[y] /\ loc'[y] = loc[y]
          /\ pc'[x] = "copy" /\ loc'[x].seq0 = seq /\ loc'[x].left = Words
      BY <1>0, <2>2 DEF TypeOK, Locals
    <3>3. CopiedPart(x)'
      BY <1>0, <2>2, <3>1, <3>2 DEF CopiedPart, Even
    <3>4. \A l \in Inside' : l \in Inside /\ loc'[l].id = loc[l].id
      BY <1>0, <3>2 DEF Inside
    <3>5. \A r \in Readers \ {x} : CopiedPart(r) => CopiedPart(r)'
      BY <1>0, <3>1, <3>2 DEF CopiedPart, Even
    <3>6. \A r \in Readers \ {x} : pc'[r] = "copy" => pc[r] = "copy"
      BY <1>0, <3>2
    <3>7. QED
      BY <3>1, <3>3, <3>4, <3>5, <3>6 DEF SnapshotInv, Even
  <2>3. QED
    BY <1>3, <2>1, <2>2 DEF ReadLoad
<1>4. CASE x \in Readers /\ ReadCheck(x)
  BY <1>0, <1>1, <1>4, OutsideSnapshot DEF ReadCheck
<1>5. CASE x \in Looping /\ LoopStep(x)
  <2>1. CASE LoopLoad(x)
    BY <1>0, <1>2, <2>1, OutsideSnapshot DEF LoopLoad
  <2>2. CASE LoopCheck(x)
    BY <1>0, <1>2, <2>2, OutsideSnapshot DEF LoopCheck
  <2>3. QED
    BY <1>5, <2>1, <2>2 DEF LoopStep
<1>6. CASE CopyStep(x)
  <2>1. PICK w \in Words : CopyWord(x, w)
    BY <1>6 DEF CopyStep
  <2>2. UNCHANGED <<seq, pt, pc, last, stolen, recovered>> /\ pc[x] \in {"copy", "loopcopy"}
    BY <2>1 DEF CopyWord
  <2> DEFINE rec == [loc[x].rec EXCEPT ![w] = pt[loc[x].id][w]]
             rest == loc[x].left \ {w}
  <2>3. loc' = [loc EXCEPT ![x] = [@ EXCEPT !.rec = rec, !.left = rest]]
    BY <2>1, Zenon DEF CopyWord
  <2>4. /\ \A y \in Procs \ {x} : loc'[y] = loc[y]
        /\ loc'[x].rec = rec /\ loc'[x].left = rest
        /\ loc'[x].id = loc[x].id /\ loc'[x].seq0 = loc[x].seq0
    <3> HIDE DEF rec, rest
    <3>1. QED
      BY <1>0, <2>3 DEF Locals
  <2>5. \A l \in Inside' : l \in Inside /\ loc'[l].id = loc[l].id
    BY <1>0, <2>2, <2>4 DEF Inside
  <2>6. \A r \in Readers \ {x} : CopiedPart(r) => CopiedPart(r)'
    BY <1>0, <2>2, <2>4 DEF CopiedPart, Even
  <2>7. ASSUME Even(seq) => pt = last, CopiedPart(x) PROVE CopiedPart(x)'
    <3>1. loc[x].rec \in Record
      BY <1>0 DEF Locals
    <3>2. \A v \in Words \ rest : v = w \/ v \in Words \ loc[x].left
      OBVIOUS
    <3>3. rec[w] = pt[loc[x].id][w] /\ \A v \in Words \ {w} : rec[v] = loc[x].rec[v]
      BY <3>1 DEF Record
    <3> HIDE DEF rec, rest
    <3>4. ASSUME seq = loc[x].seq0, NEW v \in Words \ rest
          PROVE  rec[v] = last[loc[x].id][v]
      BY <2>7, <3>2, <3>3, <3>4 DEF CopiedPart
    <3>5. QED
      BY <2>2, <2>4, <2>7, <3>4 DEF CopiedPart, Even
  <2>8. \A r \in Readers : pc'[r] = pc[r]
    BY <2>2
  <2> HIDE DEF rec, rest
  <2>9. QED
    BY <2>2, <2>5, <2>6, <2>7, <2>8 DEF SnapshotInv, Even
<1>7. QED
  BY <1>3, <1>4, <1>5, <1>6 DEF ReadStep
(* Taking the lock disturbs nothing yet: the records are the published ones. *)
LEMMA TakeSnapshot ==
  ASSUME TypeOK, LockInv, SnapshotInv, NEW l \in Lockers,
         Even(seq), seq' = seq + 1, UNCHANGED <<pt, last, stolen, recovered>>,
         \A y \in Procs \ {l} : pc'[y] = pc[y] /\ loc'[y] = loc[y]
  PROVE  SnapshotInv'
<1> SUFFICES ASSUME ~(stolen' \/ recovered') PROVE SnapshotInv'
  BY DEF SnapshotInv
<1>0. seq \in Nat /\ ~(stolen \/ recovered) /\ Readers \subseteq Procs \ {l}
      /\ \A x \in Procs : loc[x].seq0 \in Nat
  BY RolesAssumption DEF TypeOK, Procs, Locals
<1>1. ~Even(seq')
  BY <1>0, Parity
<1>2. pt' = last'
  BY <1>0 DEF SnapshotInv
<1>3. ASSUME NEW r \in Readers, pc'[r] = "copy" PROVE CopiedPart(r)'
  <2>1. CopiedPart(r) /\ loc'[r] = loc[r] /\ loc[r].seq0 \in Nat
    BY <1>0, <1>3 DEF SnapshotInv
  <2>2. loc[r].seq0 <= seq' /\ seq' # loc[r].seq0
    BY <1>0, <2>1 DEF CopiedPart
  <2>3. QED
    BY <2>1, <2>2 DEF CopiedPart, Even
<1>4. QED
  BY <1>1, <1>2, <1>3 DEF SnapshotInv

LEMMA LockStepSnapshot ==
  ASSUME TypeOK, LockInv, SnapshotInv, NEW l \in Lockers, LockStep(l)
  PROVE  SnapshotInv'
<1> USE DEF Goto, history
<1>0. /\ l \in Procs /\ l \notin Readers /\ Lockers \subseteq Procs /\ Readers \subseteq Procs
      /\ loc \in [Procs -> Locals] /\ seq \in Nat
  BY RolesAssumption DEF TypeOK, Procs, Lockers
<1>1. CASE CasSeq(l)
  <2>1. CASE CanTake(l) /\ seq' = loc[l].seq0 + 1
    <3>1. Even(seq) /\ seq' = seq + 1 /\ UNCHANGED <<pt, last, stolen, recovered>>
      BY <1>1, <2>1 DEF CasSeq, CanTake
    <3>2. \A y \in Procs \ {l} : pc'[y] = pc[y] /\ loc'[y] = loc[y]
      BY <1>0, <1>1, <2>1 DEF CasSeq, TypeOK
    <3>3. QED
      BY <3>1, <3>2, TakeSnapshot
  <2>2. CASE ~CanTake(l) /\ loc' = [loc EXCEPT ![l] = [@ EXCEPT !.seq0 = seq, !.retry = 0]]
             /\ UNCHANGED <<seq, pc>>
    <3> DEFINE r == [loc[l] EXCEPT !.seq0 = seq, !.retry = 0]
    <3>1. loc' = [loc EXCEPT ![l] = r]
      BY <2>2, Zenon
    <3>2. pc[l] \notin Locked /\ pc[l] # "copy" /\ UNCHANGED <<seq, pt, last, stolen, recovered>>
      BY <1>1, <2>2 DEF CasSeq, Locked
    <3> HIDE DEF r
    <3>3. QED
      BY <1>0, <2>2, <3>1, <3>2, OutsideSnapshot DEF Locked
  <2>3. QED
    BY <1>1, <2>1, <2>2 DEF CasSeq
<1>2. CASE Backoff(l)
  BY <1>0, <1>2, OutsideSnapshot DEF Backoff, Locked
<1>3. CASE GiveUp(l)
  <2>1. CASE Return(l)
    BY <1>0, <1>3, <2>1, OutsideSnapshot DEF GiveUp, Return, Locked
  <2>2. CASE loc' = [loc EXCEPT ![l] = [@ EXCEPT !.attempt = loc[l].attempt + 1,
                                                 !.retry = 0, !.seq0 = seq]]
             /\ UNCHANGED pc
    <3> DEFINE r == [loc[l] EXCEPT !.attempt = loc[l].attempt + 1, !.retry = 0, !.seq0 = seq]
    <3>1. loc' = [loc EXCEPT ![l] = r]
      BY <2>2, Zenon
    <3>2. pc[l] \notin Locked /\ pc[l] # "copy" /\ UNCHANGED <<seq, pt, last, stolen, recovered>>
      BY <1>3 DEF GiveUp, Locked
    <3> HIDE DEF r
    <3>3. QED
      BY <1>0, <2>2, <3>1, <3>2, OutsideSnapshot DEF Locked
  <2>3. QED
    BY <1>3, <2>1, <2>2 DEF GiveUp
<1>4. CASE WriteEnd(l)
  <2> SUFFICES ASSUME ~(stolen' \/ recovered') PROVE SnapshotInv'
    BY DEF SnapshotInv
  <2>1. ~(stolen \/ recovered) /\ l \in Inside
    BY <1>4 DEF WriteEnd, Inside
  <2>2. Even(loc[l].seq0) /\ seq = loc[l].seq0 + 1 /\ Inside = {l} /\ loc[l].seq0 \in Nat
    BY <1>0, <2>1 DEF LockInv, MutualExclusion, Locals
  <2>3. seq' = seq + 1
    BY <1>0, <1>4, <2>2 DEF WriteEnd, Released
  <2>4. Inside' = {}
    BY <1>0, <1>4, <2>2 DEF WriteEnd, Return, Inside, TypeOK
  <2>5. pt' = last'
    BY <1>4 DEF WriteEnd
  <2>6. ASSUME NEW r \in Readers, pc'[r] = "copy" PROVE CopiedPart(r)'
    <3>1. r # l /\ pc[r] = "copy" /\ loc'[r] = loc[r] /\ loc[r].seq0 \in Nat
      BY <1>0, <1>4, <2>6 DEF WriteEnd, Return, TypeOK, Locals
    <3>2. Even(loc[r].seq0) /\ loc[r].seq0 <= seq
      BY <2>1, <3>1 DEF SnapshotInv, CopiedPart
    <3>3. loc[r].seq0 <= seq' /\ seq' # loc[r].seq0
      BY <1>0, <2>3, <3>1, <3>2
    <3>4. QED
      BY <3>1, <3>2, <3>3 DEF CopiedPart, Even
  <2>7. QED
    BY <2>4, <2>5, <2>6 DEF SnapshotInv
<1>5. ASSUME NEW w \in Words, StoreWord(l, w) PROVE SnapshotInv'
  <2> SUFFICES ASSUME ~(stolen' \/ recovered') PROVE SnapshotInv'
    BY DEF SnapshotInv
  <2>1. ~(stolen \/ recovered) /\ l \in Inside /\ UNCHANGED <<seq, last>>
    BY <1>5 DEF StoreWord, Inside
  <2>2. Even(loc[l].seq0) /\ seq = loc[l].seq0 + 1 /\ Inside = {l} /\ loc[l].seq0 \in Nat
    BY <1>0, <2>1 DEF LockInv, MutualExclusion, Locals
  <2>3. ~Even(seq)
    BY <1>0, <2>2, Parity
  <2>4. \A y \in Procs \ {l} : pc'[y] = pc[y] /\ loc'[y] = loc[y]
    BY <1>5 DEF StoreWord, TypeOK
  <2>5. loc'[l].id = loc[l].id /\ Inside' \subseteq {l}
    BY <1>0, <1>5, <2>2, <2>4 DEF StoreWord, Inside, Locals
  <2>6. \A p \in Points \ {loc[l].id} : pt'[p] = pt[p]
    BY <1>5 DEF StoreWord, TypeOK
  <2>7. \A p \in Points \ {loc[l].id} : pt'[p] = last'[p]
    BY <2>1, <2>6 DEF SnapshotInv
  <2>8. ASSUME NEW r \in Readers, pc'[r] = "copy" PROVE CopiedPart(r)'
    BY <1>0, <2>1, <2>4, <2>8 DEF SnapshotInv, CopiedPart, Even
  <2>9. QED
    BY <2>1, <2>3, <2>5, <2>7, <2>8 DEF SnapshotInv, Even
<1>6. QED
  BY <1>1, <1>2, <1>3, <1>4, <1>5 DEF LockStep

LEMMA ScanStepSnapshot ==
  ASSUME TypeOK, SnapshotInv, NEW s \in Scanners, ScanStep(s)
  PROVE  SnapshotInv'
<1> USE DEF Goto, history
<1>0. /\ s \in Procs /\ s \notin Readers /\ Lockers \subseteq Procs /\ Readers \subseteq Procs
      /\ loc \in [Procs -> Locals]
  BY RolesAssumption DEF TypeOK, Procs, Lockers
<1>1. CASE ScanDecide(s)
  <2>1. CASE Return(s)
    BY <1>0, <1>1, <2>1, OutsideSnapshot DEF ScanDecide, Return, Locked
  <2>2. CASE loc' = [loc EXCEPT ![s] = [@ EXCEPT !.seq0 = seq, !.rec = ZeroRecord, !.s1 = 1]]
             /\ Goto(s, "begin")
    <3> DEFINE r == [loc[s] EXCEPT !.seq0 = seq, !.rec = ZeroRecord, !.s1 = 1]
    <3>1. loc' = [loc EXCEPT ![s] = r]
      BY <2>2, Zenon
    <3>2. pc[s] \notin Locked /\ UNCHANGED <<seq, pt, last, stolen, recovered>>
      BY <1>1 DEF ScanDecide, Locked
    <3> HIDE DEF r
    <3>3. QED
      BY <1>0, <2>2, <3>1, <3>2, OutsideSnapshot DEF Locked
  <2>3. QED
    BY <1>1, <2>1, <2>2 DEF ScanDecide
<1>2. CASE Recheck(s)
  <2>1. /\ pc[s] = "recheck" /\ UNCHANGED <<seq, pt, last, stolen, recovered>>
        /\ \A y \in Procs \ {s} : pc'[y] = pc[y] /\ loc'[y] = loc[y]
    BY <1>0, <1>2 DEF Recheck, TypeOK
  <2>2. loc'[s].id = loc[s].id
    <3>1. ASSUME NEW S, NEW rec, loc' = [loc EXCEPT ![s] = [@ EXCEPT !.left = S, !.rec = rec]]
          PROVE  loc'[s].id = loc[s].id
      BY <1>0, <3>1 DEF Locals
    <3>2. QED
      BY <1>2, <3>1 DEF Recheck
  <2>3. \A l \in Inside' : l \in Inside /\ loc'[l].id = loc[l].id
    BY <1>0, <2>1, <2>2 DEF Inside
  <2>4. QED
    BY <1>0, <2>1, <2>3, SnapshotFrame
<1>3. QED
  BY <1>1, <1>2 DEF ScanStep

(* A holder that dies leaves its unfinished record under an odd word. *)
LEMMA CrashSnapshot ==
  ASSUME TypeOK, SnapshotInv, NEW l \in Lockers, Crash(l)
  PROVE  SnapshotInv'
<1>0. l \in Procs /\ l \notin Readers /\ Lockers \subseteq Procs /\ Readers \subseteq Procs
  BY RolesAssumption DEF Procs, Lockers
<1>1. UNCHANGED <<seq, pt, last, stolen, recovered>>
  BY DEF Crash, history
<1>2. \A y \in Procs \ {l} : pc'[y] = pc[y] /\ loc'[y] = loc[y]
  BY <1>0 DEF Crash, Goto, TypeOK
<1>3. pc'[l] \in {"dead", "diedinside"}
  BY <1>0 DEF Crash, Goto, TypeOK
<1>4. \A m \in Inside' : m \in Inside /\ loc'[m].id = loc[m].id
  BY <1>0, <1>2, <1>3 DEF Inside
<1>5. QED
  BY <1>0, <1>1, <1>2, <1>4, SnapshotFrame

(* A recovery that leaves the records uncompromised stored the value the     *)
(* word already had.                                                         *)
LEMMA AttachStepSnapshot ==
  ASSUME TypeOK, SnapshotInv, NEW a \in Attachers, AttachStep(a)
  PROVE  SnapshotInv'
<1> USE DEF Goto, history
<1> SUFFICES ASSUME ~(stolen' \/ recovered') PROVE SnapshotInv'
  BY DEF SnapshotInv
<1>0. /\ a \in Procs /\ a \notin Lockers \cup Readers
      /\ Lockers \subseteq Procs /\ Readers \subseteq Procs /\ loc \in [Procs -> Locals]
  BY RolesAssumption DEF TypeOK, Procs, Lockers
<1>1. UNCHANGED <<pt, last>>
  BY DEF AttachStep, AttachLoad, AttachStore
<1>2. \A y \in Procs \ {a} : pc'[y] = pc[y] /\ loc'[y] = loc[y]
  BY <1>0 DEF AttachStep, AttachLoad, AttachStore, TypeOK
<1>3. UNCHANGED <<seq, stolen, recovered>>
  <2>1. CASE AttachLoad(a)
    BY <2>1 DEF AttachLoad
  <2>2. CASE AttachStore(a)
    <3>1. ~stolen /\ ~recovered /\ seq = loc[a].seq0 + 1
      BY <2>2 DEF AttachStore
    <3>2. stolen \in BOOLEAN /\ recovered \in BOOLEAN
      BY DEF TypeOK
    <3>3. stolen' = FALSE /\ recovered' = FALSE /\ stolen = FALSE /\ recovered = FALSE
      BY <2>2, <3>1, <3>2, AttachStepType DEF TypeOK, AttachStep
    <3>4. QED
      BY <2>2, <3>1, <3>3 DEF AttachStore
  <2>3. QED
    BY <2>1, <2>2 DEF AttachStep
<1>4. \A m \in Inside' : m \in Inside /\ loc'[m].id = loc[m].id
  BY <1>0, <1>2 DEF Inside
<1>5. QED
  BY <1>0, <1>1, <1>2, <1>3, <1>4, SnapshotFrame

LEMMA SnapshotInitially == Init => SnapshotInv
<1> SUFFICES ASSUME Init PROVE SnapshotInv
  OBVIOUS
<1>1. \A x \in Procs : pc[x] \in {"idle", "absent"}
  BY DEF Init
<1>2. Inside = {} /\ \A r \in Readers : pc[r] # "copy"
  BY <1>1 DEF Inside, Procs
<1>3. QED
  BY <1>2 DEF Init, SnapshotInv

\* What the segment holds while the word is even, and what a reader has copied
\* while the word stays put, are the published records: kept by every step, for
\* any number of processes and points.
THEOREM SnapshotCorrect == Spec => []SnapshotInv
<1>1. TypeOK /\ LockInv /\ SnapshotInv /\ [Next]_vars => SnapshotInv'
  <2> SUFFICES ASSUME TypeOK, LockInv, SnapshotInv, [Next]_vars PROVE SnapshotInv'
    OBVIOUS
  <2>1. CASE UNCHANGED vars
    BY <2>1, SnapshotFrame DEF vars, Inside
  <2>2. CASE Next
    BY <2>2, StartSnapshot, LockStepSnapshot, CrashSnapshot, ScanStepSnapshot,
       ReadersSnapshot, AttachStepSnapshot DEF Next
  <2>3. QED
    BY <2>1, <2>2
<1>2. QED
  BY <1>1, SnapshotInitially, TypeCorrect, LockCorrect, PTL DEF Spec

-----------------------------------------------------------------------------
(* The refinement.  Results is what AtomicPoints calls result. *)
Results == [r \in Readers |-> IF pc[r] = "ok" THEN {loc[r].rec} ELSE {}]

(* The steps AtomicPoints does not see. *)
LEMMA ResultsFrame ==
  ASSUME \A r \in Readers : pc'[r] = pc[r] /\ (pc[r] = "ok" => loc'[r].rec = loc[r].rec)
  PROVE  UNCHANGED Results
  BY DEF Results

(* A step of one process that is not a reader at the end of its call. *)
LEMMA ResultsOutside ==
  ASSUME TypeOK, NEW x \in Procs, x \notin Readers,
         \A y \in Procs \ {x} : pc'[y] = pc[y] /\ loc'[y] = loc[y]
  PROVE  UNCHANGED Results
  BY ResultsFrame DEF Procs

(* A reader begins, goes on or returns BUSY: it holds no record. *)
LEMMA ResultsEmptied ==
  ASSUME TypeOK, NEW r \in Readers, pc'[r] # "ok",
         \A y \in Procs \ {r} : pc'[y] = pc[y] /\ loc'[y] = loc[y]
  PROVE  Results' = [Results EXCEPT ![r] = {}]
  BY DEF Results, Procs

LEMMA ResultsKept ==
  ASSUME TypeOK, NEW r \in Readers, pc[r] # "ok", pc'[r] # "ok",
         \A y \in Procs \ {r} : pc'[y] = pc[y] /\ loc'[y] = loc[y]
  PROVE  UNCHANGED Results
  BY DEF Results, Procs

(* A compromised segment may do anything but become sound again. *)
LEMMA CompromisedForGood ==
  ASSUME TypeOK, Next, stolen \/ recovered
  PROVE  Abstract!Next
<1>1. stolen \in BOOLEAN /\ recovered \in BOOLEAN
  BY DEF TypeOK
<1>2. CASE \E a \in Attachers : AttachStore(a)
  <2>1. stolen' \/ recovered'
    BY <1>2 DEF AttachStore
  <2>2. (stolen \/ recovered)' = TRUE
    BY <2>1
  <2>3. QED
    BY <2>2 DEF Abstract!Next, Abstract!Compromise
<1>3. CASE ~\E a \in Attachers : AttachStore(a)
  <2>1. UNCHANGED <<stolen, recovered>>
    BY <1>3 DEF Next, Start, StartWrite, StartSetQuality, Begin, StartScan, StartRead,
       StartPoll, LockStep, CasSeq, Backoff, GiveUp, WriteEnd, StoreWord, Crash, ScanStep,
       ScanDecide, Recheck, LoopStep, LoopLoad, LoopCheck, ReadStep, ReadLoad, ReadCheck,
       CopyStep, CopyWord, AttachStep, AttachLoad, history
  <2>2. (stolen \/ recovered)' = TRUE
    BY <2>1
  <2>3. QED
    BY <2>2 DEF Abstract!Next, Abstract!Compromise
<1>4. QED
  BY <1>2, <1>3

Sound == stolen = FALSE /\ recovered = FALSE

Stutter == UNCHANGED <<last, Results, stolen \/ recovered>>

LEMMA StartRefines ==
  ASSUME TypeOK, Sound, Start
  PROVE  Abstract!Next \/ Stutter
<1> USE RolesAssumption DEF Goto, history
<1>1. PICK p \in Points :
        \/ \E w \in Writers : StartWrite(w, p) \/ StartSetQuality(w, p)
        \/ \E s \in Scanners : StartScan(s, p)
        \/ \E r \in Readers : StartRead(r, p)
        \/ \E x \in Pollers : StartPoll(x, p)
  BY DEF Start
<1>2. ASSUME NEW r \in Readers, StartRead(r, p) PROVE Abstract!Next
  <2>1. /\ \A y \in Procs \ {r} : pc'[y] = pc[y] /\ loc'[y] = loc[y]
        /\ pc'[r] # "ok" /\ UNCHANGED <<last, stolen, recovered>>
    BY <1>2 DEF StartRead, TypeOK, Procs
  <2>2. Results' = [Results EXCEPT ![r] = {}]
    BY <2>1, ResultsEmptied
  <2>3. Abstract!Call(r)
    BY <2>1, <2>2 DEF Abstract!Call, Results
  <2>4. QED
    BY <2>3 DEF Abstract!Next, Sound
<1>3. ASSUME NEW w \in Writers, NEW kind, NEW rec, NEW attempt,
             Begin(w, p, kind, rec, attempt)
      PROVE  Stutter
  <2>1. /\ \A y \in Procs \ {w} : pc'[y] = pc[y] /\ loc'[y] = loc[y]
        /\ w \in Procs /\ w \notin Readers /\ UNCHANGED <<last, stolen, recovered>>
    BY <1>3 DEF Begin, TypeOK, Procs, Lockers
  <2>2. QED
    BY <2>1, ResultsOutside DEF Stutter
<1>4. ASSUME NEW w \in Writers, StartWrite(w, p) \/ StartSetQuality(w, p)
      PROVE  Stutter
  BY <1>3, <1>4 DEF StartWrite, StartSetQuality
<1>5. ASSUME NEW s \in Scanners, StartScan(s, p) PROVE Stutter
  <2>1. /\ \A y \in Procs \ {s} : pc'[y] = pc[y] /\ loc'[y] = loc[y]
        /\ s \in Procs /\ s \notin Readers /\ UNCHANGED <<last, stolen, recovered>>
    BY <1>5 DEF StartScan, TypeOK, Procs, Lockers
  <2>2. QED
    BY <2>1, ResultsOutside DEF Stutter
<1>6. ASSUME NEW x \in Pollers, StartPoll(x, p) PROVE Stutter
  <2>1. /\ \A y \in Procs \ {x} : pc'[y] = pc[y] /\ loc'[y] = loc[y]
        /\ x \in Procs /\ x \notin Readers /\ UNCHANGED <<last, stolen, recovered>>
    BY <1>6 DEF StartPoll, TypeOK, Procs, Lockers
  <2>2. QED
    BY <2>1, ResultsOutside DEF Stutter
<1>7. QED
  BY <1>1, <1>2, <1>4, <1>5, <1>6

(* write_end publishes: the records change at the holder's point only. *)
LEMMA LockStepRefines ==
  ASSUME TypeOK, LockInv, SnapshotInv, Sound, NEW l \in Lockers, LockStep(l) \/ Crash(l)
  PROVE  Abstract!Next \/ Stutter
<1>0. l \in Procs /\ l \notin Readers /\ UNCHANGED <<stolen, recovered>>
  BY RolesAssumption DEF Procs, LockStep, CasSeq, Backoff, GiveUp, WriteEnd, StoreWord,
     Crash, history
<1>1. \A y \in Procs \ {l} : pc'[y] = pc[y] /\ loc'[y] = loc[y]
  BY DEF LockStep, CasSeq, Backoff, GiveUp, WriteEnd, StoreWord, Crash, Return, Goto, TypeOK
<1>2. UNCHANGED Results
  BY <1>0, <1>1, ResultsOutside
<1>3. CASE WriteEnd(l)
  <2>1. loc[l].id \in Points /\ l \in Inside
    BY <1>0, <1>3 DEF TypeOK, Locals, WriteEnd, Inside
  <2>2. last' = pt /\ \A p \in Points \ {loc[l].id} : pt[p] = last[p]
    BY <1>3, <2>1 DEF SnapshotInv, Sound, WriteEnd
  <2>3. last' \in [Points -> [Words -> Nat]]
    BY <2>2 DEF TypeOK, Record
  <2>4. Abstract!Update(loc[l].id)
    BY <1>0, <1>2, <2>2, <2>3 DEF Abstract!Update, Abstract!Record, Results
  <2>5. QED
    BY <2>1, <2>4 DEF Abstract!Next, Sound
<1>4. CASE ~WriteEnd(l)
  <2>1. UNCHANGED last
    BY <1>4 DEF LockStep, CasSeq, Backoff, GiveUp, StoreWord, Crash, history
  <2>2. QED
    BY <1>0, <1>2, <2>1 DEF Stutter
<1>5. QED
  BY <1>3, <1>4

(* A successful check ends the call with the record the point holds. *)
LEMMA ReadStepRefines ==
  ASSUME TypeOK, SnapshotInv, Sound, NEW r \in Readers, ReadStep(r)
  PROVE  Abstract!Next \/ Stutter
<1> USE DEF Goto, history
<1>0. /\ r \in Procs /\ loc[r] \in Locals /\ pc[r] # "ok"
      /\ UNCHANGED <<last, stolen, recovered>>
  BY DEF TypeOK, Procs, ReadStep, ReadLoad, ReadCheck
<1>1. \A y \in Procs \ {r} : pc'[y] = pc[y] /\ loc'[y] = loc[y]
  BY DEF ReadStep, ReadLoad, ReadCheck, NextAttempt, Return, TypeOK
<1>2. CASE pc'[r] # "ok"
  BY <1>0, <1>1, <1>2, ResultsKept DEF Stutter
<1>3. CASE pc'[r] = "ok"
  <2>1. pc[r] = "copy" /\ loc[r].left = {} /\ seq = loc[r].seq0 /\ UNCHANGED loc
    BY <1>0, <1>3 DEF ReadStep, ReadLoad, ReadCheck, NextAttempt, Return, TypeOK
  <2>2. \A w \in Words : loc[r].rec[w] = last[loc[r].id][w]
    BY <2>1 DEF SnapshotInv, Sound, CopiedPart
  <2>3. loc[r].rec \in [Words -> Nat] /\ last[loc[r].id] \in [Words -> Nat]
    BY <1>0 DEF TypeOK, Locals, Record
  <2>4. loc[r].rec = last[loc[r].id]
    BY <2>2, <2>3
  <2>5. Results' = [Results EXCEPT ![r] = {last[loc[r].id]}]
    BY <1>1, <1>3, <2>1, <2>4 DEF Results, Procs
  <2>6. Abstract!Read(r)
    BY <1>0, <2>5 DEF Abstract!Read, Results, Locals
  <2>7. QED
    BY <2>6 DEF Abstract!Next, Sound
<1>4. QED
  BY <1>2, <1>3

LEMMA ScanStepRefines ==
  ASSUME TypeOK, NEW x \in Looping, LoopStep(x) \/ (x \in Scanners /\ ScanStep(x))
  PROVE  Stutter
<1>0. x \in Procs /\ x \notin Readers /\ UNCHANGED <<last, stolen, recovered>>
  BY RolesAssumption DEF Procs, Lockers, Looping, LoopStep, LoopLoad, LoopCheck, ScanStep,
     ScanDecide, Recheck, history
<1>1. \A y \in Procs \ {x} : pc'[y] = pc[y] /\ loc'[y] = loc[y]
  BY DEF LoopStep, LoopLoad, LoopCheck, LeaveLoop, ScanStep, ScanDecide, Recheck, Return,
     Goto, TypeOK
<1>2. QED
  BY <1>0, <1>1, ResultsOutside DEF Stutter

LEMMA CopyStepRefines ==
  ASSUME TypeOK, NEW x \in Readers \cup Looping, CopyStep(x)
  PROVE  Stutter
<1>0. x \in Procs /\ pc[x] # "ok" /\ UNCHANGED <<pc, last, stolen, recovered>>
  BY DEF Procs, Lockers, Looping, CopyStep, CopyWord, history
<1>1. \A y \in Procs \ {x} : pc'[y] = pc[y] /\ loc'[y] = loc[y]
  BY <1>0 DEF CopyStep, CopyWord, TypeOK
<1>2. UNCHANGED Results
  BY <1>0, <1>1, ResultsFrame DEF Procs
<1>3. QED
  BY <1>0, <1>2 DEF Stutter

LEMMA AttachStepRefines ==
  ASSUME TypeOK, NEW a \in Attachers, AttachStep(a)
  PROVE  Abstract!Next \/ Stutter
<1>0. a \in Procs /\ a \notin Readers /\ UNCHANGED last
  BY RolesAssumption DEF Procs, AttachStep, AttachLoad, AttachStore, history
<1>1. \A y \in Procs \ {a} : pc'[y] = pc[y] /\ loc'[y] = loc[y]
  BY DEF AttachStep, AttachLoad, AttachStore, Goto, TypeOK
<1>2. UNCHANGED Results
  BY <1>0, <1>1, ResultsOutside
<1>3. /\ stolen \in BOOLEAN /\ recovered \in BOOLEAN
      /\ stolen' \in BOOLEAN /\ recovered' \in BOOLEAN
  BY AttachStepType DEF TypeOK
<1>4. CASE stolen' \/ recovered'
  BY <1>4 DEF Abstract!Next, Abstract!Compromise
<1>5. CASE ~(stolen' \/ recovered')
  <2>1. ~stolen /\ ~recovered
    <3>1. CASE AttachLoad(a)
      BY <1>3, <1>5, <3>1 DEF AttachLoad, history
    <3>2. CASE AttachStore(a)
      BY <1>5, <3>2, Zenon DEF AttachStore
    <3>3. QED
      BY <3>1, <3>2 DEF AttachStep
  <2>2. UNCHANGED (stolen \/ recovered)
    BY <1>5, <2>1
  <2>3. QED
    BY <1>0, <1>2, <2>2 DEF Stutter
<1>6. QED
  BY <1>4, <1>5

LEMMA InitRefines == Init => Abstract!Init
<1> SUFFICES ASSUME Init PROVE Abstract!Init
  OBVIOUS
<1>1. \A r \in Readers : pc[r] # "ok"
  BY DEF Init, Procs
<1>2. QED
  BY <1>1 DEF Init, Abstract!Init, ZeroRecord

LEMMA NextRefines ==
  ASSUME TypeOK, LockInv, SnapshotInv, [Next]_vars
  PROVE  [Abstract!Next]_(Abstract!avars)
<1>1. CASE UNCHANGED vars
  BY <1>1 DEF vars, Abstract!avars
<1>2. CASE Next /\ (stolen \/ recovered)
  BY <1>2, CompromisedForGood
<1>3. CASE Next /\ ~(stolen \/ recovered)
  <2>1. Sound
    BY <1>3 DEF Sound, TypeOK
  <2>2. Abstract!Next \/ Stutter
    BY <1>3, <2>1, StartRefines, LockStepRefines, ReadStepRefines, ScanStepRefines,
       CopyStepRefines, AttachStepRefines DEF Next, Looping
  <2>3. QED
    BY <2>2 DEF Stutter, Results, Abstract!avars
<1>4. QED
  BY <1>1, <1>2, <1>3

\* The segment under its lock implements a store of whole records: an update is
\* one step, and a bounded read (irt_meta_get, irt_index_lookup) that succeeds
\* returns the record its point holds, for any number of processes and points.
THEOREM AtomicReads == Spec => ImplementsAtomicPoints
  BY InitRefines, NextRefines, TypeCorrect, LockCorrect, SnapshotCorrect, PTL
     DEF Spec, ImplementsAtomicPoints, Abstract!Spec

-----------------------------------------------------------------------------
(* The TIMEOUT marks.  A scanner never runs another call, and from its       *)
(* second look to the store of the mark nobody but the scan may write the    *)
(* record: the record it overwrites is the stale one it saw under the lock.  *)
Scan == {"loopload", "loopcopy", "decide", "begin", "recheck", "store"}

ScanMark(s) ==
  /\ pc[s] \in Scan => loc[s].kind = "scan"
  /\ ~stolen /\ pc[s] = "store" =>
       loc[s].left = {"quality"} /\ Stale(pt[loc[s].id], loc[s].now)

MarkInv == \A s \in Scanners : ScanMark(s)

(* A step of one process that leaves the records alone. *)
LEMMA MarkFrame ==
  ASSUME MarkInv, NEW x, UNCHANGED pt, ~stolen' => ~stolen,
         \A y \in Procs \ {x} : pc'[y] = pc[y] /\ loc'[y] = loc[y],
         x \in Scanners => ScanMark(x)'
  PROVE  MarkInv'
<1> SUFFICES ASSUME NEW s \in Scanners, s # x PROVE ScanMark(s)'
  BY DEF MarkInv
<1>1. s \in Procs /\ ScanMark(s)
  BY DEF MarkInv, Procs, Lockers
<1>2. QED
  BY <1>1 DEF ScanMark, Stale, QTimeout

LEMMA StartMark == ASSUME TypeOK, MarkInv, Start PROVE MarkInv'
<1> USE RolesAssumption DEF Goto, history
<1>1. PICK p \in Points :
        \/ \E w \in Writers : StartWrite(w, p) \/ StartSetQuality(w, p)
        \/ \E s \in Scanners : StartScan(s, p)
        \/ \E r \in Readers : StartRead(r, p)
        \/ \E x \in Pollers : StartPoll(x, p)
  BY DEF Start
<1>2. ASSUME NEW w \in Writers, NEW kind, NEW rec, NEW attempt,
             Begin(w, p, kind, rec, attempt)
      PROVE  MarkInv'
  <2>1. /\ \A y \in Procs \ {w} : pc'[y] = pc[y] /\ loc'[y] = loc[y]
        /\ w \notin Scanners /\ UNCHANGED <<pt, stolen>>
    BY <1>2 DEF Begin, TypeOK
  <2>2. QED
    BY <2>1, MarkFrame
<1>3. ASSUME NEW w \in Writers, StartWrite(w, p) \/ StartSetQuality(w, p)
      PROVE  MarkInv'
  BY <1>2, <1>3 DEF StartWrite, StartSetQuality
<1>4. ASSUME NEW s \in Scanners, StartScan(s, p) PROVE MarkInv'
  <2>1. /\ \A y \in Procs \ {s} : pc'[y] = pc[y] /\ loc'[y] = loc[y]
        /\ UNCHANGED <<pt, stolen>> /\ pc'[s] = "loopload" /\ loc'[s].kind = "scan"
    BY <1>4 DEF StartScan, TypeOK, Procs, Lockers, Idle
  <2>2. QED
    BY <2>1, MarkFrame DEF ScanMark
<1>5. ASSUME NEW x \in Readers \cup Pollers, StartRead(x, p) \/ StartPoll(x, p)
      PROVE  MarkInv'
  <2>1. /\ \A y \in Procs \ {x} : pc'[y] = pc[y] /\ loc'[y] = loc[y]
        /\ x \notin Scanners /\ UNCHANGED <<pt, stolen>>
    BY <1>5 DEF StartRead, StartPoll, TypeOK, Lockers
  <2>2. QED
    BY <2>1, MarkFrame
<1>6. QED
  BY <1>1, <1>3, <1>4, <1>5

(* The compare-and-swap sends a scan to its second look, never to a store. *)
LEMMA LockStepMark ==
  ASSUME TypeOK, LockInv, MarkInv, NEW l \in Lockers, LockStep(l) \/ Crash(l)
  PROVE  MarkInv'
<1> USE DEF Goto, history
<1>0. /\ l \in Procs /\ loc \in [Procs -> Locals] /\ UNCHANGED stolen
      /\ l \in Scanners => ScanMark(l)
  BY DEF TypeOK, Procs, LockStep, CasSeq, Backoff, GiveUp, WriteEnd, StoreWord, Crash, MarkInv
<1>1. \A y \in Procs \ {l} : pc'[y] = pc[y] /\ loc'[y] = loc[y]
  BY DEF LockStep, CasSeq, Backoff, GiveUp, WriteEnd, StoreWord, Crash, Return, TypeOK
<1>2. CASE CasSeq(l)
  <2>1. CASE CanTake(l)
    <3>1. loc'[l].kind = loc[l].kind
      BY <1>0, <1>2, <2>1 DEF CasSeq, Locals
    <3>2. loc[l].kind = "scan" => pc'[l] = "recheck"
      BY <1>0, <1>2, <2>1 DEF CasSeq, Refused, TypeOK
    <3>3. pc[l] = "begin" /\ UNCHANGED pt
      BY <1>2 DEF CasSeq
    <3>4. l \in Scanners => ScanMark(l)'
      BY <1>0, <3>1, <3>2, <3>3 DEF ScanMark, Scan
    <3>5. QED
      BY <1>0, <1>1, <3>3, <3>4, MarkFrame
  <2>2. CASE ~CanTake(l)
    <3>1. UNCHANGED <<pt, pc>> /\ pc[l] = "begin"
      BY <1>2, <2>2 DEF CasSeq
    <3>2. loc'[l].kind = loc[l].kind
      BY <1>0, <1>2, <2>2 DEF CasSeq, Locals
    <3>3. l \in Scanners => ScanMark(l)'
      BY <1>0, <3>1, <3>2 DEF ScanMark, Scan
    <3>4. QED
      BY <1>0, <1>1, <3>1, <3>3, MarkFrame
  <2>3. QED
    BY <2>1, <2>2
<1>3. CASE Backoff(l) \/ GiveUp(l)
  <2>1. UNCHANGED pt /\ pc[l] = "begin" /\ pc'[l] # "store"
    BY <1>0, <1>3 DEF Backoff, GiveUp, Return, TypeOK
  <2>2. pc'[l] = "idle" \/ loc'[l].kind = loc[l].kind
    <3>1. CASE Backoff(l)
      BY <1>0, <3>1 DEF Backoff, Locals
    <3>2. CASE GiveUp(l)
      <4>1. CASE Return(l)
        BY <1>0, <4>1 DEF Return, TypeOK
      <4>2. CASE loc' = [loc EXCEPT ![l] = [@ EXCEPT !.attempt = loc[l].attempt + 1,
                                                     !.retry = 0, !.seq0 = seq]]
        BY <1>0, <4>2 DEF Locals
      <4>3. QED
        BY <3>2, <4>1, <4>2 DEF GiveUp
    <3>3. QED
      BY <1>3, <3>1, <3>2
  <2>3. l \in Scanners => ScanMark(l)'
    BY <1>0, <2>1, <2>2 DEF ScanMark, Scan
  <2>4. QED
    BY <1>0, <1>1, <2>1, <2>3, MarkFrame
<1>4. CASE WriteEnd(l) \/ Crash(l)
  <2>1. UNCHANGED pt /\ pc'[l] \in {"idle", "dead", "diedinside"}
    BY <1>0, <1>4 DEF WriteEnd, Crash, Return, TypeOK
  <2>2. ScanMark(l)'
    BY <2>1 DEF ScanMark, Scan
  <2>3. QED
    BY <1>0, <1>1, <2>1, <2>2, MarkFrame
<1>5. ASSUME NEW w \in Words, StoreWord(l, w) PROVE MarkInv'
  <2> SUFFICES ASSUME NEW s \in Scanners PROVE ScanMark(s)'
    BY DEF MarkInv
  <2>1. ScanMark(s) /\ s \in Procs /\ s \in Lockers
    BY DEF MarkInv, Procs, Lockers
  <2>2. CASE s # l
    <3>1. stolen \/ pc[s] # "store"
      BY <1>5, <2>1, <2>2 DEF LockInv, MutualExclusion, Inside, StoreWord
    <3>2. QED
      BY <1>0, <1>1, <2>1, <2>2, <3>1 DEF ScanMark
  <2>3. CASE s = l
    <3>1. loc'[l].kind = loc[l].kind
      BY <1>0, <1>5 DEF StoreWord, Locals
    <3>2. pc[l] = "store" /\ w \in loc[l].left
      BY <1>5 DEF StoreWord
    <3>3. loc[l].left = {w} => pc'[l] = "unlock"
      BY <1>0, <1>5 DEF StoreWord, TypeOK
    <3>4. ~stolen => loc[l].left = {w}
      BY <2>1, <2>3, <3>2 DEF ScanMark
    <3>5. QED
      BY <1>0, <2>1, <2>3, <3>1, <3>2, <3>3, <3>4 DEF ScanMark, Scan
  <2>4. QED
    BY <2>2, <2>3
<1>6. QED
  BY <1>2, <1>3, <1>4, <1>5 DEF LockStep

LEMMA ScanStepMark ==
  ASSUME TypeOK, MarkInv, NEW s \in Scanners, ScanStep(s)
  PROVE  MarkInv'
<1> USE DEF Goto, history
<1>0. /\ s \in Procs /\ loc[s] \in Locals /\ loc \in [Procs -> Locals] /\ ScanMark(s)
      /\ UNCHANGED <<pt, stolen>> /\ pc[s] \in Scan
  BY DEF TypeOK, Procs, Lockers, ScanStep, ScanDecide, Recheck, MarkInv, Scan
<1>1. \A y \in Procs \ {s} : pc'[y] = pc[y] /\ loc'[y] = loc[y]
  BY DEF ScanStep, ScanDecide, Recheck, Return, TypeOK
<1>2. ScanMark(s)'
  <2>1. CASE ScanDecide(s)
    <3>1. CASE Return(s)
      BY <1>0, <3>1 DEF Return, TypeOK, ScanMark, Scan
    <3>2. ASSUME loc' = [loc EXCEPT ![s] = [@ EXCEPT !.seq0 = seq, !.rec = ZeroRecord,
                                                     !.s1 = 1]],
                 Goto(s, "begin")
          PROVE  ScanMark(s)'
      <4>1. loc'[s].kind = loc[s].kind /\ pc'[s] = "begin"
        BY <1>0, <3>2 DEF Locals, TypeOK
      <4>2. QED
        BY <1>0, <4>1 DEF ScanMark, Scan
    <3>3. QED
      BY <2>1, <3>1, <3>2 DEF ScanDecide
  <2>2. CASE Recheck(s) /\ ~StillStale(s)
    BY <1>0, <2>2 DEF Recheck, ScanMark, Scan, TypeOK
  <2>3. CASE Recheck(s) /\ StillStale(s)
    <3> DEFINE rec == [ZeroRecord EXCEPT !["quality"] =
                         QMake(QTimeout, QLimit(pt[loc[s].id]["quality"]))]
    <3>1. loc' = [loc EXCEPT ![s] = [@ EXCEPT !.left = {"quality"}, !.rec = rec]]
          /\ pc'[s] = "store"
      BY <1>0, <2>3, Zenon DEF Recheck, TypeOK
    <3> HIDE DEF rec
    <3>2. /\ loc'[s].left = {"quality"} /\ loc'[s].kind = loc[s].kind
          /\ loc'[s].id = loc[s].id /\ loc'[s].now = loc[s].now
      BY <1>0, <3>1 DEF Locals
    <3>3. Stale(pt[loc[s].id], loc[s].now)
      BY <2>3 DEF StillStale
    <3>4. Stale(pt'[loc'[s].id], loc'[s].now)
      BY <1>0, <3>2, <3>3
    <3>5. QED
      BY <1>0, <3>1, <3>2, <3>4 DEF ScanMark
  <2>4. QED
    BY <2>1, <2>2, <2>3 DEF ScanStep
<1>3. QED
  BY <1>0, <1>1, <1>2, MarkFrame

(* The unlocked look of the scan, and the reads of others. *)
LEMMA ReadersMark ==
  ASSUME TypeOK, MarkInv, NEW x \in Readers \cup Looping,
         \/ x \in Readers /\ ReadStep(x)
         \/ x \in Looping /\ LoopStep(x)
         \/ CopyStep(x)
  PROVE  MarkInv'
<1> USE RolesAssumption DEF Goto, history
<1>0. /\ x \in Procs /\ loc \in [Procs -> Locals] /\ UNCHANGED <<pt, stolen>>
      /\ x \in Scanners => ScanMark(x) /\ x \notin Readers
  BY DEF TypeOK, Procs, Lockers, Looping, MarkInv, ReadStep, ReadLoad, ReadCheck, LoopStep,
     LoopLoad, LoopCheck, CopyStep, CopyWord
<1>1. \A y \in Procs \ {x} : pc'[y] = pc[y] /\ loc'[y] = loc[y]
  BY DEF ReadStep, ReadLoad, ReadCheck, NextAttempt, LoopStep, LoopLoad, LoopCheck, LeaveLoop,
     CopyStep, CopyWord, Return, TypeOK
<1>2. ASSUME x \in Scanners, ~ReadStep(x) PROVE ScanMark(x)'
  <2>1. CASE LoopStep(x)
    <3>1. /\ pc[x] \in {"loopload", "loopcopy"}
          /\ pc'[x] \in {"loopload", "loopcopy", "decide", "idle"}
      BY <1>0, <2>1 DEF LoopStep, LoopLoad, LoopCheck, LeaveLoop, Return, TypeOK
    <3>2. pc'[x] = "idle" \/ loc'[x].kind = loc[x].kind
      <4>1. CASE LeaveLoop(x)
        BY <1>0, <4>1 DEF LeaveLoop, Return, TypeOK
      <4>2. CASE loc' = [loc EXCEPT ![x] = [@ EXCEPT !.seq0 = seq, !.left = Words]]
        BY <1>0, <4>2 DEF Locals
      <4>3. CASE loc' = [loc EXCEPT ![x].s1 = seq] \/ UNCHANGED loc
        BY <1>0, <4>3 DEF Locals
      <4>4. QED
        BY <2>1, <4>1, <4>2, <4>3 DEF LoopStep, LoopLoad, LoopCheck
    <3>3. QED
      BY <1>0, <1>2, <3>1, <3>2 DEF ScanMark, Scan
  <2>2. CASE CopyStep(x)
    <3>1. PICK w \in Words : CopyWord(x, w)
      BY <2>2 DEF CopyStep
    <3> DEFINE rec == [loc[x].rec EXCEPT ![w] = pt[loc[x].id][w]]
               rest == loc[x].left \ {w}
    <3>2. loc' = [loc EXCEPT ![x] = [@ EXCEPT !.rec = rec, !.left = rest]]
      BY <3>1, Zenon DEF CopyWord
    <3> HIDE DEF rec, rest
    <3>3. loc'[x].kind = loc[x].kind
      BY <1>0, <3>2 DEF Locals
    <3>4. UNCHANGED pc /\ pc[x] \in {"copy", "loopcopy"}
      BY <3>1 DEF CopyWord
    <3>5. QED
      BY <1>0, <1>2, <3>3, <3>4 DEF ScanMark, Scan
  <2>3. QED
    BY <1>0, <1>2, <2>1, <2>2
<1>3. x \in Scanners => ~ReadStep(x)
  BY <1>0, <1>2 DEF ReadStep, ReadLoad, ReadCheck, LoopStep, LoopLoad, LoopCheck, CopyStep,
     CopyWord
<1>4. QED
  BY <1>0, <1>1, <1>2, <1>3, MarkFrame

(* Attaching never touches a record. *)
LEMMA AttachStepMark ==
  ASSUME TypeOK, MarkInv, NEW a \in Attachers, AttachStep(a)
  PROVE  MarkInv'
<1>1. a \notin Scanners /\ UNCHANGED pt
  BY RolesAssumption DEF Lockers, AttachStep, AttachLoad, AttachStore
<1>2. \A y \in Procs \ {a} : pc'[y] = pc[y] /\ loc'[y] = loc[y]
  BY DEF AttachStep, AttachLoad, AttachStore, Goto, TypeOK
<1>3. ~stolen' => ~stolen
  BY Zenon DEF AttachStep, AttachLoad, AttachStore, history
<1>4. QED
  BY <1>1, <1>2, <1>3, MarkFrame

LEMMA MarkCorrect == Spec => []MarkInv
<1>1. Init => MarkInv
  BY DEF Init, MarkInv, ScanMark, Scan, Procs, Lockers
<1>2. TypeOK /\ LockInv /\ MarkInv /\ [Next]_vars => MarkInv'
  <2> SUFFICES ASSUME TypeOK, LockInv, MarkInv, [Next]_vars PROVE MarkInv'
    OBVIOUS
  <2>1. CASE UNCHANGED vars
    BY <2>1 DEF vars, MarkInv, ScanMark, Stale, QTimeout
  <2>2. CASE Next
    BY <2>2, StartMark, LockStepMark, ScanStepMark, ReadersMark, AttachStepMark DEF Next
  <2>3. QED
    BY <2>1, <2>2
<1>3. QED
  BY <1>1, <1>2, TypeCorrect, LockCorrect, PTL DEF Spec

\* irt_pm_check_timeouts overwrites the quality of a record only if that record is
\* older than the timeout at the scan's `now`, whatever was written between its
\* unlocked look and the lock, unless a recovery overwrote the word of a holder.
THEOREM MarksCorrect == Spec => MarksOnlyStale
<1>1. MarkInv => [\A s \in Scanners :
        pc[s] = "store" /\ pc'[s] = "unlock" /\ ~stolen =>
           LET ts == pt[loc[s].id]["ts"] IN
             ts # 0 /\ ts < loc[s].now /\ loc[s].now - ts > Timeout]_vars
  BY DEF MarkInv, ScanMark, Stale
<1>2. QED
  BY <1>1, MarkCorrect, PTL DEF MarksOnlyStale

=============================================================================
