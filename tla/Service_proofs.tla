--------------------------- MODULE Service_proofs ---------------------------
(***************************************************************************)
(* The segment keeps what its users rely on: an inductive invariant, kept  *)
(* by everything a process may do with its segment.  The service keeps its *)
(* worker, its pid file, its socket and its data.  Both for any number of  *)
(* processes, segments, deaths and faults.                                 *)
(***************************************************************************)
EXTENDS Service, TLAPS

Makers == {"size", "write", "seal", "clear"}
Proc == [at : Places, seg : Segs \cup {None}, owner : BOOLEAN]
Data == [stage : Stages, owner : Pids \cup {None}]

(* What the place of a process says of the segment it maps. *)
Fits(at, stage) ==
  /\ at = "size" => stage = "empty"
  /\ at = "write" => stage = "zero"
  /\ at = "seal" => stage = "header"
  /\ at = "clear" => stage = "sealed"
  /\ at \in {"claim", "attached"} => stage \in {"sealed", "ready"}

StageInv == \A p \in Pids : procs[p].seg # None => Fits(procs[p].at, segs[procs[p].seg].stage)
MakerInv == \A p, q \in Pids :
  /\ procs[p].at \in Makers /\ procs[q].at \in Makers
  /\ procs[p].seg = procs[q].seg
  => p = q
FreeInv == \A s \in Segs : s # file => segs[s] = NoData \/ \E q \in Pids : procs[q].seg = s
NameInv == rash \/ \A p \in Pids : procs[p].owner => file = procs[p].seg
OwnerInv == rash \/ \A p, q \in Pids : procs[p].owner /\ procs[q].owner => p = q
SegInv == SegmentTypeOK /\ StageInv /\ MakerInv /\ FreeInv /\ NameInv /\ OwnerInv

(* Everything a process does with its segment; Born stands for the fork of a *)
(* worker and the start of another process.                                  *)
Born(p) == procs[p] = Gone /\ procs' = [procs EXCEPT ![p] = Idle] /\ UNCHANGED <<file, segs, rash>>
SegAction(p) == SegmentStep(p) \/ Close(p) \/ Detach(p) \/ Exit(p) \/ Reap(p) \/ Born(p)

-----------------------------------------------------------------------------
(* A well-formed process. *)
Sound(r) ==
  /\ r \in Proc
  /\ r.seg # None <=> r.at \in Mapped
  /\ r.owner => r.seg # None

LEMMA ProcFields ==
  ASSUME SegmentTypeOK, NEW p \in Pids
  PROVE  /\ Sound(procs[p])
         /\ procs[p].at \in Places /\ procs[p].seg \in Segs \cup {None}
         /\ procs[p].owner \in BOOLEAN
         /\ procs[p] = [at |-> procs[p].at, seg |-> procs[p].seg, owner |-> procs[p].owner]
<1>1. procs[p] \in Proc
  BY DEF SegmentTypeOK, Proc
<1>2. /\ procs[p].at \in Places /\ procs[p].seg \in Segs \cup {None}
      /\ procs[p].owner \in BOOLEAN
      /\ procs[p] = [at |-> procs[p].at, seg |-> procs[p].seg, owner |-> procs[p].owner]
  BY <1>1 DEF Proc
<1>3. QED
  BY <1>1, <1>2 DEF SegmentTypeOK, Sound

LEMMA NoneIsNoSeg == None \notin Segs /\ None \notin Pids
  BY SegmentValues

LEMMA NoDataType == NoData \in Data /\ NoData.stage = "empty"
  BY DEF NoData, Data, Stages

LEMMA UnmappedSound ==
  \A at \in {"gone", "zombie", "idle", "failed", "reopen"} :
    Sound(Unmapped(at)) /\ Unmapped(at).seg = None /\ Unmapped(at).owner = FALSE
  BY DEF Unmapped, Sound, Proc, Places, Steps, Mapped

(* One process changes. *)
LEMMA OneChanges ==
  ASSUME SegmentTypeOK, NEW p \in Pids, NEW r, Sound(r), procs' = [procs EXCEPT ![p] = r]
  PROVE  /\ procs' \in [Pids -> Proc]
         /\ procs'[p] = r
         /\ \A q \in Pids \ {p} : procs'[q] = procs[q]
         /\ \A q \in Pids : Sound(procs'[q])
<1>1. procs \in [Pids -> Proc]
  BY DEF SegmentTypeOK, Proc
<1>2. r \in Proc
  BY DEF Sound
<1>3. procs' \in [Pids -> Proc] /\ procs'[p] = r /\ \A q \in Pids \ {p} : procs'[q] = procs[q]
  BY <1>1, <1>2
<1>4. \A q \in Pids : Sound(procs'[q])
  BY <1>3, ProcFields
<1>5. QED
  BY <1>3, <1>4

(* The type invariant, put together again. *)
LEMMA TypeAgain ==
  ASSUME file' \in Segs \cup {None}, segs' \in [Segs -> Data], procs' \in [Pids -> Proc],
         \A q \in Pids : Sound(procs'[q]), rash' \in BOOLEAN
  PROVE  SegmentTypeOK'
  BY DEF SegmentTypeOK, Sound, Data, Proc

(* What the kernel keeps. *)
LEMMA KeepsFacts ==
  ASSUME SegmentTypeOK, KernelKeeps
  PROVE  /\ segs' \in [Segs -> Data]
         /\ \A s \in Segs : s = file' => segs'[s] = segs[s]
         /\ \A s \in Segs, q \in Pids : procs'[q].seg = s => segs'[s] = segs[s]
         /\ \A s \in Segs : s # file' => segs'[s] = NoData \/ \E q \in Pids : procs'[q].seg = s
<1>1. segs \in [Segs -> Data]
  BY DEF SegmentTypeOK, Data
<1>2. \A s \in Segs : segs'[s] = IF s = file' \/ \E q \in Pids : procs'[q].seg = s
                                 THEN segs[s] ELSE NoData
  BY DEF KernelKeeps
<1>3. segs' \in [Segs -> Data]
  BY <1>1, NoDataType DEF KernelKeeps
<1>4. QED
  BY <1>2, <1>3

-----------------------------------------------------------------------------
(* A process that ends up without a segment: the others keep theirs, and the *)
(* name goes only with an owner.                                             *)
LEMMA Leaves ==
  ASSUME SegInv, NEW p \in Pids, NEW r, Sound(r), r.seg = None, r.owner = FALSE,
         procs' = [procs EXCEPT ![p] = r], rash' = rash,
         file' = file \/ (file' = None /\ procs[p].owner),
         (segs' = segs /\ file' = file /\ procs[p].seg = None) \/ KernelKeeps
  PROVE  SegInv'
<1> USE DEF SegInv
<1>1. /\ procs' \in [Pids -> Proc] /\ procs'[p] = r
      /\ \A q \in Pids \ {p} : procs'[q] = procs[q]
      /\ \A q \in Pids : Sound(procs'[q])
  BY OneChanges
<1>2. \A q \in Pids : procs'[q].seg # None => q # p /\ procs'[q] = procs[q]
  BY <1>1
<1>3. segs' \in [Segs -> Data]
  BY KeepsFacts DEF SegmentTypeOK, Data
<1>4. \A q \in Pids : procs'[q].seg # None =>
         procs'[q].seg \in Segs /\ segs'[procs'[q].seg] = segs[procs'[q].seg]
  BY <1>1, KeepsFacts DEF Sound, Proc
<1>5. SegmentTypeOK'
  BY <1>1, <1>3, TypeAgain DEF SegmentTypeOK
<1>6. StageInv'
  BY <1>2, <1>4 DEF StageInv
<1>7. MakerInv'
  <2>1. \A q \in Pids : procs'[q].at \in Makers => procs'[q].seg # None
    BY <1>1 DEF Sound, Makers, Mapped, Steps
  <2>2. QED
    BY <1>2, <2>1 DEF MakerInv
<1>8. FreeInv'
  <2>1. CASE KernelKeeps
    BY <2>1, KeepsFacts DEF FreeInv
  <2>2. CASE segs' = segs /\ file' = file /\ procs[p].seg = None
    <3>1. \A s \in Segs, q \in Pids : procs[q].seg = s => q # p /\ procs'[q].seg = s
      BY <2>2, <1>1, NoneIsNoSeg
    <3>2. QED
      BY <2>2, <3>1 DEF FreeInv
  <2>3. QED
    BY <2>1, <2>2
<1>9. \A q \in Pids : procs'[q].owner => q # p /\ procs'[q] = procs[q] /\ procs[q].owner
  BY <1>1
<1>10. NameInv' /\ OwnerInv'
  <2>1. CASE rash
    BY <2>1 DEF NameInv, OwnerInv
  <2>2. CASE ~ rash
    <3>1. \A q \in Pids : procs'[q].owner => file' = file
      BY <2>2, <1>9 DEF OwnerInv
    <3>2. QED
      BY <2>2, <3>1, <1>9 DEF NameInv, OwnerInv
  <2>3. QED
    BY <2>1, <2>2
<1>11. QED
  BY <1>5, <1>6, <1>7, <1>8, <1>10

(* Without a segment: the steps that end there. *)
LEMMA LeaveSteps ==
  ASSUME SegInv, NEW p \in Pids, Close(p) \/ Detach(p) \/ Exit(p) \/ Reap(p) \/ Born(p) \/ OsFound(p)
  PROVE  SegInv'
<1>1. SegmentTypeOK
  BY DEF SegInv
<1>2. Sound(procs[p]) /\ procs[p].at \in Places /\ procs[p].owner \in BOOLEAN
  BY <1>1, ProcFields
<1>3. CASE Close(p)
  <2>1. procs' = [procs EXCEPT ![p] = Unmapped("idle")] /\ rash' = rash /\ KernelKeeps
    BY <1>3 DEF Close, Idle
  <2>2. file' = file \/ (file' = None /\ procs[p].owner)
    BY <1>3, <1>2 DEF Close
  <2>3. QED
    BY <2>1, <2>2, UnmappedSound, Leaves
<1>4. CASE Detach(p)
  BY <1>4, UnmappedSound, Leaves DEF Detach, Idle
<1>5. CASE Exit(p)
  BY <1>5, UnmappedSound, Leaves DEF Exit, Zombie
<1>6. CASE Reap(p)
  <2>1. procs[p].seg = None
    BY <1>6, <1>2 DEF Reap, Sound, Mapped, Steps
  <2>2. QED
    BY <2>1, <1>6, UnmappedSound, Leaves DEF Reap, Gone
<1>7. CASE Born(p)
  <2>1. procs[p].seg = None
    BY <1>7 DEF Born, Gone, Unmapped
  <2>2. QED
    BY <2>1, <1>7, UnmappedSound, Leaves DEF Born, Idle
<1>8. CASE OsFound(p)
  <2>1. procs[p].seg = None /\ procs[p].owner = FALSE
    BY <1>8, <1>2 DEF OsFound, Sound, Mapped, Steps
  <2>2. procs' = [procs EXCEPT ![p] = Unmapped("reopen")]
        /\ file' = file /\ segs' = segs /\ rash' = rash
    BY <1>8 DEF OsFound
  <2>3. QED
    BY <2>1, <2>2, UnmappedSound, Leaves
<1>9. QED
  BY <1>3, <1>4, <1>5, <1>6, <1>7, <1>8

(* A new segment has no user but its creator, and no data. *)
LEMMA CreateStep == ASSUME SegInv, NEW p \in Pids, OsCreate(p) PROVE SegInv'
<1>1. NewSeg \in Segs /\ \A q \in Pids : procs[q].seg # NewSeg
  BY DEF OsCreate, NewSeg, FreeSegs, Mappers
<1> DEFINE n == NewSeg
           r == [at |-> "size", seg |-> n, owner |-> TRUE]
<1>2. /\ SegmentTypeOK /\ StageInv /\ MakerInv /\ FreeInv /\ NameInv /\ OwnerInv
      /\ file = None /\ file' = n /\ segs' = segs /\ rash' = rash
      /\ procs[p].at = "idle" /\ procs' = [procs EXCEPT ![p] = r]
  BY DEF SegInv, OsCreate
<1> HIDE DEF n
<1>3. n \in Segs /\ n # None /\ \A q \in Pids : procs[q].seg # n
  BY <1>1, NoneIsNoSeg DEF n
<1>4. Sound(r) /\ r.seg = n /\ r.at = "size" /\ r.owner = TRUE
  BY <1>3 DEF Sound, Proc, Places, Mapped, Steps
<1>5. procs[p].seg = None
  BY <1>2, ProcFields DEF Sound, Mapped, Steps
<1>6. segs[n] = NoData /\ segs[n].stage = "empty"
  BY <1>2, <1>3, NoDataType DEF FreeInv
<1> HIDE DEF r
<1>7. /\ procs' \in [Pids -> Proc] /\ procs'[p] = r
      /\ \A q \in Pids \ {p} : procs'[q] = procs[q]
      /\ \A q \in Pids : Sound(procs'[q])
  BY <1>2, <1>4, OneChanges
<1>8. SegmentTypeOK'
  BY <1>2, <1>3, <1>7, TypeAgain DEF SegmentTypeOK, Data
<1>9. StageInv'
  <2>1. Fits(r.at, segs[n].stage)
    BY <1>4, <1>6 DEF Fits
  <2>2. QED
    BY <2>1, <1>2, <1>4, <1>7 DEF StageInv
<1>10. MakerInv'
  BY <1>2, <1>3, <1>4, <1>7 DEF MakerInv
<1>11. FreeInv'
  <2>1. \A s \in Segs, q \in Pids : procs[q].seg = s => q # p /\ procs'[q].seg = s
    BY <1>5, <1>7, NoneIsNoSeg
  <2>2. QED
    BY <2>1, <1>2, NoneIsNoSeg DEF FreeInv
<1>12. NameInv' /\ OwnerInv'
  <2>1. CASE rash
    BY <2>1, <1>2 DEF NameInv, OwnerInv
  <2>2. CASE ~ rash
    <3>1. \A q \in Pids : ~ procs[q].owner
      <4>1. \A q \in Pids : procs[q].owner => procs[q].seg # None
        BY <1>2, ProcFields DEF Sound
      <4>2. QED
        BY <4>1, <2>2, <1>2 DEF NameInv
    <3>2. QED
      BY <3>1, <2>2, <1>2, <1>4, <1>7 DEF NameInv, OwnerInv
  <2>3. QED
    BY <2>1, <2>2
<1>13. QED
  BY <1>8, <1>9, <1>10, <1>11, <1>12 DEF SegInv

(* A name opened, or gone since it was found. *)
LEMMA OpenStep == ASSUME SegInv, NEW p \in Pids, OsOpen(p) PROVE SegInv'
<1>1. /\ SegmentTypeOK /\ StageInv /\ MakerInv /\ FreeInv /\ NameInv /\ OwnerInv
      /\ file' = file /\ segs' = segs /\ rash' = rash /\ procs[p].at = "reopen"
  BY DEF SegInv, OsOpen
<1>2. procs[p].seg = None
  BY <1>1, ProcFields DEF Sound, Mapped, Steps
<1>3. CASE file = None
  <2>1. procs' = [procs EXCEPT ![p] = Unmapped("failed")]
    BY <1>3 DEF OsOpen
  <2>2. QED
    BY <2>1, <1>1, <1>2, UnmappedSound, Leaves
<1>4. CASE file # None
  <2> DEFINE r == [at |-> "check", seg |-> file, owner |-> FALSE]
  <2>1. file \in Segs
    BY <1>1, <1>4 DEF SegmentTypeOK
  <2>3. procs' = [procs EXCEPT ![p] = r]
    BY <1>4 DEF OsOpen
  <2>4. Sound(r) /\ r.seg = file /\ r.at = "check" /\ r.owner = FALSE
    BY <2>1, <1>4 DEF Sound, Proc, Places, Mapped, Steps
  <2> HIDE DEF r
  <2>5. /\ procs' \in [Pids -> Proc] /\ procs'[p] = r
        /\ \A q \in Pids \ {p} : procs'[q] = procs[q]
        /\ \A q \in Pids : Sound(procs'[q])
    BY <1>1, <2>3, <2>4, OneChanges
  <2>6. SegmentTypeOK'
    BY <1>1, <2>5, TypeAgain DEF SegmentTypeOK, Data
  <2>7. StageInv'
    BY <1>1, <2>4, <2>5 DEF StageInv, Fits
  <2>8. MakerInv'
    BY <1>1, <2>4, <2>5 DEF MakerInv, Makers
  <2>9. FreeInv'
    <3>1. \A s \in Segs, q \in Pids : procs[q].seg = s => q # p /\ procs'[q].seg = s
      BY <1>2, <2>5, NoneIsNoSeg
    <3>2. QED
      BY <3>1, <1>1 DEF FreeInv
  <2>10. NameInv' /\ OwnerInv'
    BY <1>1, <2>4, <2>5 DEF NameInv, OwnerInv
  <2>11. QED
    BY <2>6, <2>7, <2>8, <2>9, <2>10 DEF SegInv
<1>5. QED
  BY <1>3, <1>4

LEMMA GoesOn ==
  ASSUME NEW r \in Proc, NEW to
  PROVE  [r EXCEPT !.at = to] = [at |-> to, seg |-> r.seg, owner |-> r.owner]
  BY DEF Proc

(* A process that keeps its segment and goes on to another place, as an owner *)
(* if it was one, or of a segment with a name and no owner.                  *)
LEMMA Stays ==
  ASSUME SegInv, NEW p \in Pids, NEW r, Sound(r),
         procs' = [procs EXCEPT ![p] = r], r.seg = procs[p].seg, r.seg # None,
         \/ rash' = TRUE
         \/ rash' = rash /\ (r.owner => procs[p].owner)
         \/ rash' = rash /\ file = r.seg /\ \A q \in Pids : procs[q].owner => procs[q].seg # file,
         \A s \in Segs : s # r.seg => segs'[s] = segs[s],
         segs' \in [Segs -> Data], file' = file,
         Fits(r.at, segs'[r.seg].stage), r.at \in Makers => procs[p].at \in Makers,
         \A q \in Pids \ {p} : procs[q].seg = r.seg => Fits(procs[q].at, segs'[r.seg].stage)
  PROVE  SegInv'
<1>1. SegmentTypeOK /\ StageInv /\ MakerInv /\ FreeInv /\ NameInv /\ OwnerInv /\ rash \in BOOLEAN
  BY DEF SegInv, SegmentTypeOK
<1>2. procs[p].seg \in Segs
  BY <1>1, ProcFields
<1>4. /\ procs' \in [Pids -> Proc] /\ procs'[p] = r
      /\ \A q \in Pids \ {p} : procs'[q] = procs[q]
      /\ \A q \in Pids : Sound(procs'[q])
  BY <1>1, OneChanges
<1>5. \A q \in Pids : procs'[q].seg = procs[q].seg
  BY <1>4
<1>6. SegmentTypeOK'
  BY <1>1, <1>4, TypeAgain DEF SegmentTypeOK
<1>7. StageInv'
  <2>1. Fits(procs'[p].at, segs'[procs'[p].seg].stage)
    BY <1>4
  <2>2. ASSUME NEW q \in Pids \ {p}, procs[q].seg # None
        PROVE  Fits(procs[q].at, segs'[procs[q].seg].stage)
    <3>1. procs[q].seg \in Segs /\ Fits(procs[q].at, segs[procs[q].seg].stage)
      BY <2>2, <1>1, ProcFields DEF StageInv
    <3>2. CASE procs[q].seg = procs[p].seg
      BY <3>2
    <3>3. CASE procs[q].seg # procs[p].seg
      BY <3>1, <3>3
    <3>4. QED
      BY <3>2, <3>3
  <2>3. QED
    BY <2>1, <2>2, <1>4 DEF StageInv
<1>8. MakerInv'
  <2>1. \A q \in Pids : procs'[q].at \in Makers => procs[q].at \in Makers
    BY <1>4
  <2>2. QED
    BY <2>1, <1>1, <1>5 DEF MakerInv
<1>9. FreeInv'
  BY <1>1, <1>2, <1>5 DEF FreeInv
<1>10. NameInv' /\ OwnerInv'
  <2>1. CASE rash' = TRUE
    BY <2>1 DEF NameInv, OwnerInv
  <2>2. CASE rash' = rash /\ (r.owner => procs[p].owner)
    <3>1. \A q \in Pids : procs'[q].owner => procs[q].owner
      BY <2>2, <1>4
    <3>2. QED
      BY <3>1, <2>2, <1>1, <1>5 DEF NameInv, OwnerInv
  <2>3. CASE /\ rash' = rash /\ file = r.seg
             /\ \A q \in Pids : procs[q].owner => procs[q].seg # file
    <3>1. rash \/ \A q \in Pids : ~ procs[q].owner
      BY <2>3, <1>1 DEF NameInv
    <3>2. rash \/ \A q \in Pids : procs'[q].owner => q = p
      BY <3>1, <1>4
    <3>3. QED
      BY <3>2, <2>3, <1>4, <1>5 DEF NameInv, OwnerInv
  <2>4. QED
    BY <2>1, <2>2, <2>3
<1>11. QED
  BY <1>6, <1>7, <1>8, <1>9, <1>10 DEF SegInv

(* The steps of the creation, each on the segment as the one before left it. *)
LEMMA MakeStep ==
  ASSUME SegInv, NEW p \in Pids, NEW from, NEW to, NEW stage, NEW o \in Pids \cup {None},
         Make(p, from, to, stage, o),
         \/ from = "size" /\ to = "write" /\ stage = "zero"
         \/ from = "write" /\ to = "seal" /\ stage = "header"
         \/ from = "seal" /\ to = "clear" /\ stage = "sealed"
         \/ from = "clear" /\ to = "attached" /\ stage = "ready"
  PROVE  SegInv'
<1> DEFINE d == [stage |-> stage, owner |-> o]
           s == procs[p].seg
<1>1. SegmentTypeOK /\ StageInv /\ MakerInv /\ segs \in [Segs -> Data] /\ rash \in BOOLEAN
  BY DEF SegInv, SegmentTypeOK, Data
<1>2. procs[p].at = from /\ from \in Makers /\ from \in Mapped /\ to \in Mapped
      /\ (to \in Makers \/ to = "attached") /\ stage \in Stages
  BY DEF Make, Makers, Mapped, Steps, Stages
<1>3. d \in Data /\ d.stage = stage
  BY <1>2 DEF Data
<1>4. s # None /\ s \in Segs
  BY <1>1, <1>2, ProcFields DEF Sound
<1>5. procs' = [procs EXCEPT ![p] = [at |-> to, seg |-> s, owner |-> procs[p].owner]]
  <2>1. [procs[p] EXCEPT !.at = to] = [at |-> to, seg |-> s, owner |-> procs[p].owner]
    BY <1>1, ProcFields, GoesOn DEF Sound
  <2>2. procs' = [procs EXCEPT ![p] = [procs[p] EXCEPT !.at = to]]
    BY DEF Make
  <2>3. QED
    BY <2>1, <2>2
<1>6. segs' = [segs EXCEPT ![s] = d] /\ file' = file /\ rash' = rash
  BY DEF Make
<1>10. Sound([at |-> to, seg |-> s, owner |-> procs[p].owner])
  BY <1>1, <1>2, <1>4, ProcFields DEF Sound, Proc, Places, Mapped
<1> HIDE DEF d, s
<1>7. segs' \in [Segs -> Data] /\ segs'[s] = d /\ \A x \in Segs : x # s => segs'[x] = segs[x]
  BY <1>1, <1>3, <1>4, <1>6
<1>8. Fits(to, d.stage)
  BY <1>3 DEF Fits
<1>9. ASSUME NEW q \in Pids \ {p}, procs[q].seg = s
      PROVE  Fits(procs[q].at, d.stage)
  <2>1. procs[q].at \notin Makers
    BY <1>1, <1>2, <1>9 DEF MakerInv, s
  <2>2. Fits(procs[q].at, segs[s].stage) /\ Fits(from, segs[s].stage)
    BY <1>1, <1>2, <1>4, <1>9 DEF StageInv, s
  <2>3. QED
    BY <2>1, <2>2, <1>3 DEF Fits, Makers
<1> DEFINE r == [at |-> to, seg |-> s, owner |-> procs[p].owner]
<1>11. Sound(r) /\ r.at = to /\ r.seg = s /\ (r.owner => procs[p].owner)
       /\ procs' = [procs EXCEPT ![p] = r]
  BY <1>5, <1>10
<1> HIDE DEF r
<1>12. /\ r.seg = procs[p].seg /\ r.seg # None
       /\ \A x \in Segs : x # r.seg => segs'[x] = segs[x]
       /\ Fits(r.at, segs'[r.seg].stage)
       /\ r.at \in Makers => procs[p].at \in Makers
       /\ \A q \in Pids \ {p} : procs[q].seg = r.seg => Fits(procs[q].at, segs'[r.seg].stage)
  BY <1>2, <1>4, <1>7, <1>8, <1>9, <1>11 DEF s
<1>13. QED
  BY <1>6, <1>7, <1>11, <1>12, Stays

(* A segment that is refused is unmapped; one that is not has its CRC. *)
LEMMA CheckStep == ASSUME SegInv, NEW p \in Pids, Check(p) PROVE SegInv'
<1> DEFINE s == procs[p].seg
<1>0. procs[p].at = "check" /\ file' = file /\ rash' = rash /\ KernelKeeps
  BY DEF Check
<1>1. /\ SegmentTypeOK /\ StageInv /\ FreeInv /\ segs \in [Segs -> Data]
      /\ procs[p].at = "check" /\ file' = file /\ rash' = rash /\ KernelKeeps
  BY <1>0 DEF SegInv, SegmentTypeOK, Data
<1>2. /\ Sound(procs[p]) /\ procs[p] \in Proc /\ procs[p].owner \in BOOLEAN
      /\ s # None /\ s \in Segs
  BY <1>1, ProcFields DEF Sound, Mapped, Steps
<1>3. CASE ~ Checkable(s)
  <2>1. procs' = [procs EXCEPT ![p] = Unmapped("failed")]
    BY <1>3 DEF Check, Checked
  <2>2. QED
    BY <2>1, <1>1, UnmappedSound, Leaves
<1>4. CASE Checkable(s)
  <2>1. PICK to \in {"attached", "claim"} :
          procs' = [procs EXCEPT ![p] = [procs[p] EXCEPT !.at = to]]
    BY <1>4 DEF Check, Checked
  <2>2. procs' = [procs EXCEPT ![p] = [at |-> to, seg |-> s, owner |-> procs[p].owner]]
    BY <2>1, <1>2, GoesOn
  <2>3. segs[s] \in Data /\ segs[s].stage \in {"sealed", "ready"}
    BY <1>1, <1>2, <1>4 DEF Checkable, Data, Stages
  <2>4. Fits(to, segs[s].stage) /\ to \in Mapped /\ to \notin Makers
    BY <2>3 DEF Fits, Mapped, Steps, Makers
  <2> DEFINE r == [at |-> to, seg |-> s, owner |-> procs[p].owner]
  <2>5. Sound(r) /\ r.at = to /\ r.seg = s /\ (r.owner => procs[p].owner)
    BY <1>2, <2>4 DEF Sound, Proc, Places, Mapped
  <2>10. procs' = [procs EXCEPT ![p] = r]
    BY <2>2
  <2> HIDE DEF r
  <2>6. \A q \in Pids : procs'[q].seg = procs[q].seg
    <3>1. procs'[p] = r /\ \A q \in Pids \ {p} : procs'[q] = procs[q]
      BY <1>1, <2>10, <2>5, OneChanges
    <3>2. QED
      BY <3>1, <2>5
  <2>7. segs' \in [Segs -> Data] /\ \A x \in Segs : segs'[x] = segs[x]
    <3>1. segs' \in [Segs -> Data]
      BY <1>1, KeepsFacts
    <3>2. ASSUME NEW x \in Segs PROVE segs'[x] = segs[x]
      <4>1. CASE x = file \/ \E q \in Pids : procs[q].seg = x
        BY <4>1, <1>1, <2>6, KeepsFacts
      <4>2. CASE x # file /\ ~ \E q \in Pids : procs[q].seg = x
        BY <4>2, <1>1, <2>6, KeepsFacts DEF FreeInv
      <4>3. QED
        BY <4>1, <4>2
    <3>3. QED
      BY <3>1, <3>2
  <2>8. \A q \in Pids \ {p} : procs[q].seg = s => Fits(procs[q].at, segs[s].stage)
    BY <1>1, <1>2 DEF StageInv
  <2>9. /\ r.seg = procs[p].seg /\ r.seg # None
        /\ \A x \in Segs : x # r.seg => segs'[x] = segs[x]
        /\ Fits(r.at, segs'[r.seg].stage)
        /\ r.at \in Makers => procs[p].at \in Makers
        /\ \A q \in Pids \ {p} : procs[q].seg = r.seg => Fits(procs[q].at, segs'[r.seg].stage)
    BY <1>2, <2>4, <2>5, <2>7, <2>8
  <2>11. QED
    BY <1>1, <2>5, <2>7, <2>9, <2>10, Stays
<1>5. QED
  BY <1>3, <1>4

(* A takeover is rash, or of a segment that has its name and no owner. *)
LEMMA ClaimStep == ASSUME SegInv, NEW p \in Pids, Claim(p) PROVE SegInv'
<1> DEFINE s == procs[p].seg
           d == [stage |-> segs[s].stage, owner |-> p]
<1>1. /\ SegmentTypeOK /\ StageInv /\ segs \in [Segs -> Data] /\ rash \in BOOLEAN
      /\ procs[p].at = "claim" /\ file' = file
      /\ procs' = [procs EXCEPT ![p] = [at |-> "attached", seg |-> s, owner |-> TRUE]]
      /\ rash' = IF file # s \/ \E q \in Mappers(file) : procs[q].owner THEN TRUE ELSE rash
  BY DEF SegInv, Claim, SegmentTypeOK, Data
<1>2. procs[p] \in Proc /\ s # None /\ s \in Segs
  BY <1>1, ProcFields DEF Sound, Mapped, Steps
<1>4. segs[s] \in Data /\ segs[s].stage \in {"sealed", "ready"}
  BY <1>1, <1>2 DEF StageInv, Fits
<1>5. d \in Data /\ d.stage = segs[s].stage
  BY <1>4 DEF Data
<1>6. segs' = [segs EXCEPT ![s] = d]
  <2>1. [segs[s] EXCEPT !.owner = p] = d
    BY <1>4 DEF Data
  <2>2. segs' = [segs EXCEPT ![s] = [segs[s] EXCEPT !.owner = p]]
    BY DEF Claim
  <2>3. QED
    BY <2>1, <2>2
<1>7. \/ rash' = TRUE
      \/ rash' = rash /\ file = s /\ \A q \in Pids : procs[q].owner => procs[q].seg # file
  BY <1>1 DEF Mappers
<1> DEFINE r == [at |-> "attached", seg |-> s, owner |-> TRUE]
<1>3. Sound(r) /\ r.at = "attached" /\ r.seg = s /\ procs' = [procs EXCEPT ![p] = r]
  BY <1>1, <1>2 DEF Sound, Proc, Places, Mapped
<1> HIDE DEF r
<1> HIDE DEF d, s
<1>8. segs' \in [Segs -> Data] /\ segs'[s] = d /\ \A x \in Segs : x # s => segs'[x] = segs[x]
  BY <1>1, <1>2, <1>5, <1>6
<1>9. Fits("attached", d.stage) /\ "attached" \in Mapped /\ "attached" \notin Makers
  BY <1>4, <1>5 DEF Fits, Mapped, Makers
<1>10. \A q \in Pids \ {p} : procs[q].seg = s => Fits(procs[q].at, d.stage)
  BY <1>1, <1>2, <1>5 DEF StageInv
<1>11. /\ r.seg = procs[p].seg /\ r.seg # None
       /\ \A x \in Segs : x # r.seg => segs'[x] = segs[x]
       /\ Fits(r.at, segs'[r.seg].stage)
       /\ r.at \in Makers => procs[p].at \in Makers
       /\ \A q \in Pids \ {p} : procs[q].seg = r.seg => Fits(procs[q].at, segs'[r.seg].stage)
  BY <1>2, <1>3, <1>8, <1>9, <1>10 DEF s
<1>12. QED
  BY <1>1, <1>3, <1>7, <1>8, <1>11, Stays

-----------------------------------------------------------------------------
(* The initial state, a step of a process, and a step of something else. *)

LEMMA SegmentStart == SegmentInit => SegInv
<1> SUFFICES ASSUME SegmentInit PROVE SegInv
  OBVIOUS
<1>1. /\ file = None /\ segs = [s \in Segs |-> NoData] /\ rash = FALSE
      /\ procs = [p \in Pids |-> Unmapped("gone")]
  BY DEF SegmentInit, Gone
<1>2. \A p \in Pids : procs[p] = Unmapped("gone") /\ Sound(procs[p])
                      /\ procs[p].seg = None /\ procs[p].owner = FALSE /\ procs[p].at = "gone"
  BY <1>1, UnmappedSound DEF Unmapped
<1>3. procs \in [Pids -> Proc] /\ segs \in [Segs -> Data]
  BY <1>1, <1>2, NoDataType DEF Sound
<1>4. SegmentTypeOK
  BY <1>1, <1>2, <1>3 DEF SegmentTypeOK, Sound, Data, Proc
<1>5. QED
  BY <1>1, <1>2, <1>4 DEF SegInv, StageInv, MakerInv, Makers, FreeInv, NameInv, OwnerInv

LEMMA SegmentMoves == ASSUME SegInv, NEW p \in Pids, SegmentStep(p) PROVE SegInv'
<1>1. segs[procs[p].seg].owner \in Pids \cup {None}
      \/ ~ (Truncate(p) \/ WriteHeader(p) \/ Seal(p) \/ ClearIndex(p))
  <2>1. procs[p].at \in Makers => procs[p].seg \in Segs
    BY ProcFields DEF SegInv, Sound, Makers, Mapped, Steps
  <2>2. procs[p].at \in Makers => segs[procs[p].seg].owner \in Pids \cup {None}
    BY <2>1 DEF SegInv, SegmentTypeOK
  <2>3. QED
    BY <2>2 DEF Truncate, WriteHeader, Seal, ClearIndex, Make, Makers
<1>2. CASE Truncate(p)
  BY <1>2, MakeStep DEF Truncate
<1>3. CASE WriteHeader(p)
  BY <1>3, MakeStep DEF WriteHeader
<1>4. CASE Seal(p)
  BY <1>1, <1>4, MakeStep DEF Seal
<1>5. CASE ClearIndex(p)
  BY <1>1, <1>5, MakeStep DEF ClearIndex
<1>6. QED
  BY <1>2, <1>3, <1>4, <1>5, CreateStep, OpenStep, CheckStep, ClaimStep, LeaveSteps DEF SegmentStep

\* Whatever a process does with the segment, and at whichever step it dies: the segment
\* stays as far made as its users take it to be, and has one creator; a segment that
\* nothing names or maps is empty; and the name is the owner's, but for a rash takeover.
THEOREM SegmentKept ==
  ASSUME SegInv, (\E p \in Pids : SegAction(p)) \/ UNCHANGED segmentVars
  PROVE  SegInv'
<1>1. CASE \E p \in Pids : SegAction(p)
  BY <1>1, SegmentMoves, LeaveSteps DEF SegAction
<1>2. CASE UNCHANGED segmentVars
  BY <1>2 DEF segmentVars, SegInv, SegmentTypeOK, StageInv, MakerInv, FreeInv, NameInv, OwnerInv
<1>3. QED
  BY <1>1, <1>2


-----------------------------------------------------------------------------
(* The service. *)

Work == [step : WorkSteps, stop : BOOLEAN, code : Codes]
(* A worker leaves its loop, and closes, only when it was told to. *)
Fine(w) == w \in Work /\ (w.step \in {"drain", "close"} => w.stop = TRUE)
WorkInv == work \in [Pids -> Work] /\ \A p \in Pids : Fine(work[p])

ControlInv ==
  /\ sup \in {"top", "forked", "enter", "wait", "term", "kill", "ended"}
  /\ cur \in Pids \cup {None} /\ pidfile \in Pids \cup {None}
  /\ stop \in BOOLEAN /\ unnamed \in BOOLEAN /\ exit \in Codes
  /\ cur = None <=> sup \in {"top", "ended"}
  /\ PidfileTrue
  /\ exit # "none" => sup = "ended"
Owned == \A p \in Pids : Worker(p) => p = cur
SocketInv == socket \in Pids \cup {None} /\ FatalLeavesNothing
HomeInv == home \in Segs \cup {None} /\ DataSurvive
BoundsInv == deaths \in 0 .. MaxDeaths /\ faults \in 0 .. MaxFaults

ServiceInv == SegInv /\ WorkInv /\ ControlInv /\ Owned /\ SocketInv /\ HomeInv /\ BoundsInv

-----------------------------------------------------------------------------
(* What one step does to main of a process. *)
Moves(p) == \E w : Fine(w) /\ work' = [work EXCEPT ![p] = w]

LEMMA Changed ==
  ASSUME WorkInv, NEW p \in Pids, NEW w, Fine(w), work' = [work EXCEPT ![p] = w]
  PROVE  /\ WorkInv'
         /\ work'[p] = w
         /\ \A q \in Pids \ {p} : work'[q] = work[q]
<1>1. work \in [Pids -> Work] /\ w \in Work /\ \A q \in Pids : Fine(work[q])
  BY DEF WorkInv, Fine
<1>2. work' \in [Pids -> Work] /\ work'[p] = w /\ \A q \in Pids \ {p} : work'[q] = work[q]
  BY <1>1
<1>3. \A q \in Pids : Fine(work'[q])
  BY <1>1, <1>2
<1>4. QED
  BY <1>2, <1>3 DEF WorkInv, Fine

LEMMA WorkFields ==
  ASSUME NEW w \in Work
  PROVE  /\ \A to : [w EXCEPT !.step = to] = [step |-> to, stop |-> w.stop, code |-> w.code]
         /\ [w EXCEPT !.stop = TRUE] = [step |-> w.step, stop |-> TRUE, code |-> w.code]
         /\ w.step \in WorkSteps /\ w.stop \in BOOLEAN /\ w.code \in Codes
<1>1. \A to : [w EXCEPT !.step = to] = [step |-> to, stop |-> w.stop, code |-> w.code]
  BY DEF Work
<1>2. \A b \in BOOLEAN :
        [w EXCEPT !.stop = b] = [step |-> w.step, stop |-> b, code |-> w.code]
  BY DEF Work
<1>3. w.step \in WorkSteps /\ w.stop \in BOOLEAN /\ w.code \in Codes
  BY DEF Work
<1>4. QED
  BY <1>1, <1>2, <1>3

LEMMA StaysMoves == ASSUME WorkInv, NEW p \in Pids, work' = work PROVE Moves(p)
<1>1. work \in [Pids -> Work] /\ Fine(work[p])
  BY DEF WorkInv
<1>2. work' = [work EXCEPT ![p] = work[p]]
  BY <1>1
<1>3. QED
  BY <1>1, <1>2 DEF Moves

LEMMA ToldMoves == ASSUME WorkInv, NEW p \in Pids, work' = Told(p) PROVE Moves(p)
<1> DEFINE w == [step |-> work[p].step, stop |-> TRUE, code |-> work[p].code]
<1>1. work \in [Pids -> Work] /\ work[p] \in Work
  BY DEF WorkInv
<1>2. Fine(w)
  BY <1>1, WorkFields DEF Fine, Work
<1>3. work' = [work EXCEPT ![p] = w]
  <2>1. work' = [work EXCEPT ![p] = [work[p] EXCEPT !.stop = TRUE]]
    BY DEF Told
  <2>2. QED
    BY <1>1, <2>1, WorkFields
<1>4. QED
  BY <1>2, <1>3 DEF Moves

LEMMA DeadMoves ==
  ASSUME WorkInv, NEW p \in Pids, NEW code \in Codes, work' = Dead(p, code) PROVE Moves(p)
<1> DEFINE w == [step |-> "dead", stop |-> work[p].stop, code |-> code]
<1>1. work[p] \in Work
  BY DEF WorkInv
<1>2. Fine(w)
  BY <1>1, WorkFields DEF Fine, Work, WorkSteps
<1>3. work' = [work EXCEPT ![p] = w]
  BY DEF Dead
<1>4. QED
  BY <1>2, <1>3 DEF Moves

LEMMA GoesMoves ==
  ASSUME WorkInv, NEW p \in Pids, NEW from, NEW to \in WorkSteps, Goes(p, from, to),
         to \notin {"drain", "close"} \/ work[p].stop \/ from = "drain"
  PROVE  Moves(p) /\ work[p].step = from
<1> DEFINE w == [step |-> to, stop |-> work[p].stop, code |-> work[p].code]
<1>1. work[p] \in Work /\ Fine(work[p]) /\ work[p].step = from
  BY DEF WorkInv, Goes
<1>2. to \in {"drain", "close"} => work[p].stop = TRUE
  BY <1>1, WorkFields DEF Fine
<1>3. Fine(w)
  BY <1>1, <1>2, WorkFields DEF Fine, Work
<1>4. work' = [work EXCEPT ![p] = w]
  <2>1. work' = [work EXCEPT ![p] = [work[p] EXCEPT !.step = to]]
    BY DEF Goes
  <2>2. QED
    BY <1>1, <2>1, WorkFields
<1>5. QED
  BY <1>1, <1>3, <1>4 DEF Moves

-----------------------------------------------------------------------------
(* What one step does to the segment. *)

LEMMA NameMoves ==
  ASSUME NEW p \in Pids
  PROVE  /\ SegmentStep(p) => SegAction(p) /\ (file' = file \/ file = None)
         /\ Exit(p) \/ Reap(p) \/ Born(p) \/ Detach(p) => SegAction(p) /\ file' = file
         /\ Close(p) => SegAction(p) /\ (file' = file \/ file' = None)
<1>1. SegmentStep(p) => SegAction(p)
  BY DEF SegAction
<1>2. SegmentStep(p) => file' = file \/ file = None
  BY DEF SegmentStep, OsCreate, OsFound, OsOpen, Truncate, WriteHeader, Seal, ClearIndex, Make, Check, Claim
<1>3. Exit(p) \/ Reap(p) \/ Born(p) \/ Detach(p) => SegAction(p) /\ file' = file
  BY DEF SegAction, Exit, Reap, Born, Detach
<1>4. Close(p) => SegAction(p) /\ (file' = file \/ file' = None)
  BY DEF SegAction, Close
<1>5. QED
  BY <1>1, <1>2, <1>3, <1>4

(* The segment keeps its invariant, and the data their name, when the name *)
(* does not change, leads nowhere before, or is given up with the data.    *)
Quiet == UNCHANGED segmentVars \/ \E p \in Pids : Exit(p) \/ Reap(p) \/ Born(p) \/ Detach(p)

LEMMA QuietKeeps ==
  ASSUME ServiceInv, Quiet, home' = home \/ home' = file \/ home' = None
  PROVE  SegInv' /\ HomeInv'
<1>1. file' = file /\ ((\E p \in Pids : SegAction(p)) \/ UNCHANGED segmentVars)
  BY NameMoves DEF Quiet, segmentVars
<1>2. SegInv'
  BY <1>1, SegmentKept DEF ServiceInv
<1>3. home \in {None, file} /\ file \in Segs \cup {None} /\ home \in Segs \cup {None}
  BY DEF ServiceInv, HomeInv, DataSurvive, SegInv, SegmentTypeOK
<1>4. HomeInv'
  BY <1>1, <1>3 DEF HomeInv, DataSurvive
<1>5. QED
  BY <1>2, <1>4

LEMMA StepKeeps ==
  ASSUME ServiceInv, NEW p \in Pids, SegmentStep(p), home' = home
  PROVE  SegInv' /\ HomeInv'
<1>1. SegInv' /\ (file' = file \/ file = None)
  BY NameMoves, SegmentKept DEF ServiceInv
<1>2. home \in {None, file} /\ home \in Segs \cup {None}
  BY DEF ServiceInv, HomeInv, DataSurvive
<1>3. HomeInv'
  BY <1>1, <1>2 DEF HomeInv, DataSurvive
<1>4. QED
  BY <1>1, <1>3

LEMMA CloseKeeps ==
  ASSUME ServiceInv, NEW p \in Pids, Close(p), home' = IF file' = None THEN None ELSE home
  PROVE  SegInv' /\ HomeInv'
<1>1. SegInv' /\ (file' = file \/ file' = None)
  BY NameMoves, SegmentKept DEF ServiceInv
<1>2. home \in {None, file} /\ home \in Segs \cup {None}
  BY DEF ServiceInv, HomeInv, DataSurvive
<1>3. HomeInv'
  BY <1>1, <1>2 DEF HomeInv, DataSurvive
<1>4. QED
  BY <1>1, <1>3

-----------------------------------------------------------------------------
(* The bounds. *)
LEMMA Bounds ==
  ASSUME BoundsInv,
         deaths' = deaths \/ (deaths < MaxDeaths /\ deaths' = deaths + 1),
         faults' = faults \/ (faults < MaxFaults /\ faults' = faults + 1)
  PROVE  BoundsInv'
<1>1. MaxDeaths \in Nat /\ MaxFaults \in Nat
  BY ServiceValues
<1>2. QED
  BY <1>1 DEF BoundsInv

(* A step of the worker: it is the supervisor's, which does not move, and it *)
(* is not after a fatal code that it may bind.                               *)
LEMMA WorkerKeeps ==
  ASSUME ServiceInv, NEW p \in Pids, Worker(p), Moves(p), UNCHANGED supervisor,
         socket' \in {socket, p, None}, SegInv', HomeInv', BoundsInv'
  PROVE  ServiceInv'
<1>1. /\ WorkInv /\ ControlInv /\ Owned /\ SocketInv
      /\ sup' = sup /\ cur' = cur /\ stop' = stop /\ exit' = exit /\ pidfile' = pidfile /\ unnamed' = unnamed
  BY DEF ServiceInv, supervisor
<1>2. p = cur /\ cur # None
  BY <1>1, NoneIsNoSeg DEF Owned
<1>3. WorkInv' /\ \A q \in Pids \ {p} : work'[q] = work[q]
  BY <1>1, Changed DEF Moves
<1>4. ControlInv'
  BY <1>1 DEF ControlInv, PidfileTrue
<1>5. Owned'
  BY <1>1, <1>2, <1>3 DEF Owned, Worker
<1>6. SocketInv'
  BY <1>1, <1>2 DEF SocketInv, FatalLeavesNothing, ControlInv, Fatal
<1>7. QED
  BY <1>3, <1>4, <1>5, <1>6 DEF ServiceInv

(* A step of another process. *)
LEMMA AppKeeps ==
  ASSUME ServiceInv, UNCHANGED <<supervisor, work, socket>>, SegInv', HomeInv', BoundsInv'
  PROVE  ServiceInv'
<1>1. /\ WorkInv /\ ControlInv /\ Owned /\ SocketInv /\ work' = work /\ socket' = socket
      /\ sup' = sup /\ cur' = cur /\ stop' = stop /\ exit' = exit /\ pidfile' = pidfile /\ unnamed' = unnamed
  BY DEF ServiceInv, supervisor
<1>2. WorkInv' /\ ControlInv' /\ Owned' /\ SocketInv'
  BY <1>1 DEF WorkInv, ControlInv, PidfileTrue, Owned, Worker, SocketInv, FatalLeavesNothing
<1>3. QED
  BY <1>2 DEF ServiceInv

(* A signal to the worker, or none. *)
LEMMA Signalled ==
  ASSUME ServiceInv, NEW p \in Pids,
         \/ SendTerm(p)
         \/ Exit(p) /\ work' = Killed(p)
         \/ UNCHANGED <<segmentVars, work>>
  PROVE  Moves(p) /\ Quiet
<1>1. WorkInv
  BY DEF ServiceInv
<1>2. "signal" \in Codes
  BY DEF Codes
<1>3. CASE UNCHANGED <<segmentVars, work>>
  BY <1>1, <1>3, StaysMoves DEF Quiet
<1>4. CASE Exit(p) /\ work' = Killed(p)
  BY <1>1, <1>2, <1>4, DeadMoves DEF Quiet, Killed
<1>5. CASE work' = Told(p) /\ UNCHANGED segmentVars
  BY <1>1, <1>5, ToldMoves DEF Quiet
<1>6. QED
  BY <1>3, <1>4, <1>5 DEF SendTerm

-----------------------------------------------------------------------------
(* main of a worker, action by action. *)

LEMMA EndsMoves ==
  ASSUME ServiceInv, NEW p \in Pids, NEW code \in Codes, Ends(p, code)
  PROVE  Moves(p) /\ Quiet
  BY DeadMoves DEF Ends, Quiet, ServiceInv

LEMMA ExecKeeps == ASSUME ServiceInv, NEW p \in Pids, Exec(p) PROVE ServiceInv'
<1>1. WorkInv /\ BoundsInv /\ UNCHANGED supervisor /\ socket' = socket /\ home' = home
      /\ Quiet /\ deaths' = deaths /\ faults' = faults
  BY DEF ServiceInv, Exec, bounds, Quiet
<1>2. {"exec", "config"} \subseteq WorkSteps
  BY DEF WorkSteps
<1>3. Moves(p) /\ Worker(p)
  <2>1. CASE Goes(p, "fork", "exec")
    BY <2>1, <1>1, <1>2, GoesMoves DEF Worker
  <2>2. CASE Goes(p, "exec", "config")
    BY <2>2, <1>1, <1>2, GoesMoves DEF Worker
  <2>3. QED
    BY <2>1, <2>2 DEF Exec
<1>4. QED
  BY <1>1, <1>3, QuietKeeps, Bounds, WorkerKeeps

LEMMA ReadConfigKeeps == ASSUME ServiceInv, NEW p \in Pids, ReadConfig(p) PROVE ServiceInv'
<1>1. WorkInv /\ BoundsInv /\ UNCHANGED supervisor /\ socket' = socket /\ home' = home
      /\ deaths' = deaths /\ work[p].step = "config"
  BY DEF ServiceInv, ReadConfig
<1>2. Worker(p) /\ "open" \in WorkSteps /\ "config" \in Codes
  BY <1>1 DEF Worker, WorkSteps, Codes
<1>3. Moves(p) /\ Quiet /\ BoundsInv'
  <2>1. CASE Goes(p, "config", "open") /\ UNCHANGED <<segmentVars, faults>>
    BY <2>1, <1>1, <1>2, GoesMoves, Bounds DEF Quiet
  <2>2. CASE Ends(p, "config") /\ faults < MaxFaults /\ faults' = faults + 1
    BY <2>2, <1>1, <1>2, EndsMoves, Bounds
  <2>3. QED
    BY <2>1, <2>2 DEF ReadConfig
<1>4. QED
  BY <1>1, <1>2, <1>3, QuietKeeps, WorkerKeeps

LEMMA OpenKeeps == ASSUME ServiceInv, NEW p \in Pids, Open(p) PROVE ServiceInv'
<1>1. WorkInv /\ BoundsInv /\ UNCHANGED supervisor /\ socket' = socket /\ home' = home
      /\ deaths' = deaths /\ faults' = faults /\ work[p].step = "open"
  BY DEF ServiceInv, Open, bounds
<1>2. Worker(p) /\ "load" \in WorkSteps /\ {"shm", "signal"} \subseteq Codes /\ BoundsInv'
  BY <1>1, Bounds DEF Worker, WorkSteps, Codes
<1>3. CASE SegmentStep(p) /\ UNCHANGED work
  BY <1>1, <1>2, <1>3, StaysMoves, StepKeeps, WorkerKeeps
<1>4. CASE Goes(p, "open", "load") /\ UNCHANGED segmentVars
  <2>1. Moves(p) /\ Quiet
    BY <1>1, <1>2, <1>4, GoesMoves DEF Quiet
  <2>2. QED
    BY <1>1, <1>2, <2>1, QuietKeeps, WorkerKeeps
<1>5. CASE Ends(p, "shm") \/ Ends(p, "signal")
  BY <1>1, <1>2, <1>5, EndsMoves, QuietKeeps, WorkerKeeps
<1>6. QED
  BY <1>3, <1>4, <1>5 DEF Open

LEMMA LoadKeeps == ASSUME ServiceInv, NEW p \in Pids, Load(p) PROVE ServiceInv'
<1>1. WorkInv /\ BoundsInv /\ UNCHANGED supervisor /\ socket' = socket /\ home' = home
      /\ deaths' = deaths /\ work[p].step = "load"
  BY DEF ServiceInv, Load
<1>2. Worker(p) /\ "bind" \in WorkSteps /\ Fatal \subseteq Codes
  BY <1>1 DEF Worker, WorkSteps, Codes, Fatal
<1>3. Moves(p) /\ Quiet /\ BoundsInv'
  <2>1. CASE Goes(p, "load", "bind") /\ UNCHANGED <<segmentVars, faults>>
    BY <2>1, <1>1, <1>2, GoesMoves, Bounds DEF Quiet
  <2>2. CASE \E code \in Fatal : Ends(p, code) /\ faults < MaxFaults /\ faults' = faults + 1
    BY <2>2, <1>1, <1>2, EndsMoves, Bounds
  <2>3. QED
    BY <2>1, <2>2 DEF Load
<1>4. QED
  BY <1>1, <1>2, <1>3, QuietKeeps, WorkerKeeps

LEMMA BindKeeps == ASSUME ServiceInv, NEW p \in Pids, Bind(p) PROVE ServiceInv'
<1>1. WorkInv /\ BoundsInv /\ UNCHANGED supervisor /\ deaths' = deaths /\ work[p].step = "bind"
  BY DEF ServiceInv, Bind
<1>2. Worker(p) /\ "serve" \in WorkSteps /\ "error" \in Codes
  BY <1>1 DEF Worker, WorkSteps, Codes
<1>3. CASE /\ Goes(p, "bind", "serve") /\ socket' = p
           /\ home' = IF file = procs[p].seg THEN file ELSE None
           /\ UNCHANGED <<segmentVars, faults>>
  <2>1. Moves(p) /\ Quiet /\ BoundsInv'
    BY <1>1, <1>2, <1>3, GoesMoves, Bounds DEF Quiet
  <2>2. QED
    BY <1>1, <1>2, <1>3, <2>1, QuietKeeps, WorkerKeeps
<1>4. CASE /\ Ends(p, "error") /\ socket' = None /\ faults < MaxFaults /\ faults' = faults + 1
           /\ UNCHANGED home
  <2>1. Moves(p) /\ Quiet /\ BoundsInv'
    BY <1>1, <1>2, <1>4, EndsMoves, Bounds
  <2>2. QED
    BY <1>1, <1>2, <1>4, <2>1, QuietKeeps, WorkerKeeps
<1>5. QED
  BY <1>3, <1>4 DEF Bind

LEMMA LoopKeeps ==
  ASSUME ServiceInv, NEW p \in Pids, Block(p) \/ Unblock(p) \/ LeaveLoop(p) \/ RemoveSocket(p)
  PROVE  ServiceInv'
<1>1. WorkInv /\ BoundsInv /\ UNCHANGED supervisor /\ socket' \in {socket, None} /\ home' = home
      /\ Quiet /\ deaths' = deaths /\ faults' = faults
  BY DEF ServiceInv, Block, Unblock, LeaveLoop, RemoveSocket, bounds, Quiet
<1>2. {"serve", "blocked", "drain", "close"} \subseteq WorkSteps
  BY DEF WorkSteps
<1>3. Moves(p) /\ Worker(p)
  <2>1. CASE Block(p)
    BY <2>1, <1>1, <1>2, GoesMoves DEF Block, Worker
  <2>2. CASE Unblock(p)
    BY <2>2, <1>1, <1>2, GoesMoves DEF Unblock, Worker
  <2>3. CASE LeaveLoop(p)
    BY <2>3, <1>1, <1>2, GoesMoves DEF LeaveLoop, Worker
  <2>4. CASE RemoveSocket(p)
    BY <2>4, <1>1, <1>2, GoesMoves DEF RemoveSocket, Worker
  <2>5. QED
    BY <2>1, <2>2, <2>3, <2>4
<1>4. QED
  BY <1>1, <1>3, QuietKeeps, Bounds, WorkerKeeps

LEMMA CloseSegmentKeeps == ASSUME ServiceInv, NEW p \in Pids, CloseSegment(p) PROVE ServiceInv'
<1>1. WorkInv /\ BoundsInv /\ UNCHANGED supervisor /\ socket' = socket
      /\ deaths' = deaths /\ faults' = faults /\ work[p].step = "close"
  BY DEF ServiceInv, CloseSegment, bounds
<1>2. Worker(p) /\ "ok" \in Codes /\ BoundsInv' /\ work[p].stop = TRUE
  BY <1>1, Bounds DEF Worker, Codes, WorkInv, Fine
<1>3. home' = IF file' = None THEN None ELSE home
  BY <1>2 DEF CloseSegment
<1>4. CASE Close(p) /\ UNCHANGED work
  BY <1>1, <1>2, <1>3, <1>4, StaysMoves, CloseKeeps, WorkerKeeps
<1>5. CASE Ends(p, "ok")
  <2>1. Moves(p) /\ Quiet /\ (home' = home \/ home' = None)
    BY <1>2, <1>3, <1>5, EndsMoves
  <2>2. QED
    BY <1>1, <1>2, <2>1, QuietKeeps, WorkerKeeps
<1>6. QED
  BY <1>4, <1>5 DEF CloseSegment

LEMMA TermWorkerKeeps == ASSUME ServiceInv, NEW p \in Pids, TermWorker(p) PROVE ServiceInv'
<1>1. BoundsInv /\ UNCHANGED supervisor /\ socket' = socket /\ home' = home
      /\ Worker(p) /\ SendTerm(p) /\ BoundsInv'
  BY Bounds DEF ServiceInv, TermWorker, Running, Worker
<1>2. QED
  BY <1>1, Signalled, QuietKeeps, WorkerKeeps

LEMMA DieKeeps == ASSUME ServiceInv, NEW p \in Pids, Die(p) PROVE ServiceInv'
<1>1. UNCHANGED supervisor /\ socket' = socket /\ home' = home /\ Exit(p) /\ BoundsInv'
  BY Bounds DEF ServiceInv, Die
<1>2. CASE Worker(p)
  <2>1. work' = Killed(p)
    BY <1>2 DEF Die
  <2>2. QED
    BY <1>1, <1>2, <2>1, Signalled, QuietKeeps, WorkerKeeps
<1>3. CASE ~ Worker(p)
  <2>1. work' = work /\ Quiet
    BY <1>1, <1>3 DEF Die, Quiet
  <2>2. QED
    BY <1>1, <2>1, QuietKeeps, AppKeeps
<1>4. QED
  BY <1>2, <1>3

-----------------------------------------------------------------------------
(* Other processes. *)
LEMMA AppsKeep ==
  ASSUME ServiceInv, NEW p \in Pids,
         AppStart(p) \/ AppStep(p) \/ AppClose(p) \/ AppEnd(p) \/ AppReaped(p)
  PROVE  ServiceInv'
<1>1. UNCHANGED <<supervisor, work, socket>> /\ BoundsInv'
  BY Bounds DEF ServiceInv, AppStart, AppStep, AppClose, AppEnd, AppReaped, bounds
<1>2. SegInv' /\ HomeInv'
  <2>1. CASE AppStart(p)
    <3>1. Quiet /\ home' = home
      BY <2>1 DEF AppStart, Quiet, Born
    <3>2. QED
      BY <3>1, QuietKeeps
  <2>2. CASE AppStep(p)
    BY <2>2, StepKeeps DEF AppStep
  <2>3. CASE AppClose(p)
    <3>1. home' = IF file' = None THEN None ELSE home
      BY <2>3 DEF AppClose
    <3>2. CASE Close(p)
      BY <3>1, <3>2, CloseKeeps
    <3>3. CASE Detach(p)
      <4>1. Quiet /\ (home' = home \/ home' = None)
        BY <3>1, <3>3 DEF Quiet
      <4>2. QED
        BY <4>1, QuietKeeps
    <3>4. QED
      BY <2>3, <3>2, <3>3 DEF AppClose
  <2>4. CASE AppEnd(p) \/ AppReaped(p)
    <3>1. Quiet /\ home' = home
      BY <2>4 DEF AppEnd, AppReaped, Quiet
    <3>2. QED
      BY <3>1, QuietKeeps
  <2>5. QED
    BY <2>1, <2>2, <2>3, <2>4
<1>3. QED
  BY <1>1, <1>2, AppKeeps

-----------------------------------------------------------------------------
(* supervise_loop, action by action. *)

LEMMA StopAtTopKeeps == ASSUME ServiceInv, StopAtTop PROVE ServiceInv'
<1>1. /\ SegInv /\ WorkInv /\ ControlInv /\ Owned /\ SocketInv /\ BoundsInv
      /\ sup = "top" /\ cur = None
  BY DEF ServiceInv, StopAtTop, ControlInv
<1>2. /\ EndLoop("ok") /\ UNCHANGED <<segmentVars, work>>
      /\ cur' = cur /\ stop' = stop /\ home' = home /\ deaths' = deaths /\ faults' = faults
  BY <1>1 DEF StopAtTop, bounds
<1>3. SegInv' /\ HomeInv' /\ BoundsInv'
  BY <1>1, <1>2, QuietKeeps, Bounds DEF Quiet
<1>4. /\ sup' = "ended" /\ exit' = "ok" /\ pidfile' = None /\ unnamed' = FALSE /\ socket' = socket /\ work' = work
      /\ "ok" \notin Fatal /\ "ok" \in Codes
  BY <1>2 DEF EndLoop, Fatal, Codes
<1>5. ControlInv' /\ Owned' /\ SocketInv' /\ WorkInv'
  BY <1>1, <1>2, <1>4 DEF ControlInv, PidfileTrue, Owned, Worker, SocketInv, FatalLeavesNothing, WorkInv
<1>6. QED
  BY <1>3, <1>5 DEF ServiceInv

LEMMA ForkKeeps == ASSUME ServiceInv, Fork PROVE ServiceInv'
<1>1. /\ SegInv /\ WorkInv /\ ControlInv /\ Owned /\ SocketInv /\ BoundsInv
      /\ sup = "top" /\ cur = None /\ sup' = "forked"
      /\ stop' = stop /\ exit' = exit /\ pidfile' = pidfile /\ unnamed' = unnamed /\ socket' = socket /\ home' = home
      /\ deaths' = deaths /\ faults' = faults
  BY DEF ServiceInv, Fork, ControlInv, bounds
<1>2. PICK p \in Pids : /\ Born(p) /\ cur' = p
                        /\ work' = [work EXCEPT ![p] = [NoWork EXCEPT !.step = "fork"]]
  BY DEF Fork, Born
<1>3. Fine([NoWork EXCEPT !.step = "fork"])
  BY DEF Fine, Work, NoWork, WorkSteps, Codes
<1>4. WorkInv' /\ \A q \in Pids \ {p} : work'[q] = work[q]
  BY <1>1, <1>2, <1>3, Changed
<1>5. SegInv' /\ HomeInv' /\ BoundsInv'
  BY <1>1, <1>2, QuietKeeps, Bounds DEF Quiet
<1>6. Owned'
  BY <1>1, <1>2, <1>4, NoneIsNoSeg DEF Owned, Worker
<1>7. ControlInv' /\ SocketInv'
  BY <1>1, <1>2, NoneIsNoSeg DEF ControlInv, PidfileTrue, SocketInv, FatalLeavesNothing, Fatal
<1>8. QED
  BY <1>4, <1>5, <1>6, <1>7 DEF ServiceInv

LEMMA WaitingKeeps == ASSUME ServiceInv, WritePidfile \/ EnterWait PROVE ServiceInv'
<1>1. /\ WorkInv /\ ControlInv /\ Owned /\ SocketInv /\ BoundsInv
      /\ UNCHANGED segmentVars /\ cur' = cur /\ stop' = stop /\ exit' = exit
      /\ work' = work /\ socket' = socket /\ home' = home /\ deaths' = deaths
      /\ faults' = faults \/ (faults < MaxFaults /\ faults' = faults + 1)
  BY DEF ServiceInv, WritePidfile, EnterWait, bounds
<1>2. SegInv' /\ HomeInv' /\ BoundsInv' /\ WorkInv' /\ Owned'
  BY <1>1, QuietKeeps, Bounds DEF Quiet, WorkInv, Owned, Worker
<1>3. ControlInv' /\ SocketInv'
  <2>1. sup \notin {"top", "ended"} /\ sup' \in {"enter", "wait"}
    BY DEF WritePidfile, EnterWait
  <2>2. /\ unnamed' \in BOOLEAN /\ pidfile' \in Pids \cup {None}
        /\ unnamed' \/ pidfile' = cur
    BY <1>1, <2>1 DEF WritePidfile, EnterWait, NamesWorker, ControlInv, PidfileTrue
  <2>3. QED
    BY <1>1, <2>1, <2>2 DEF ControlInv, PidfileTrue, SocketInv, FatalLeavesNothing, Fatal
<1>4. QED
  BY <1>2, <1>3 DEF ServiceInv

(* The worker is gone: nothing is a worker any more. *)
LEMMA ReapedKeeps ==
  ASSUME ServiceInv, sup \notin {"top", "ended"}, Reaped(cur),
         home' = home, deaths' = deaths, faults' = faults
  PROVE  /\ SegInv' /\ HomeInv' /\ BoundsInv' /\ WorkInv' /\ Owned' /\ cur' = None
         /\ work[cur].code \in Codes
<1>1. cur \in Pids /\ WorkInv /\ BoundsInv /\ Owned
  BY DEF ServiceInv, ControlInv
<1>2. Reap(cur) /\ work' = [work EXCEPT ![cur] = NoWork] /\ cur' = None
  BY DEF Reaped
<1>3. Fine(NoWork) /\ NoWork.step = "none"
  BY DEF Fine, Work, NoWork, WorkSteps, Codes
<1>4. WorkInv' /\ work'[cur] = NoWork /\ \A q \in Pids \ {cur} : work'[q] = work[q]
  BY <1>1, <1>2, <1>3, Changed
<1>5. SegInv' /\ HomeInv' /\ BoundsInv'
  BY <1>1, <1>2, QuietKeeps, Bounds DEF Quiet
<1>6. Owned'
  BY <1>1, <1>3, <1>4 DEF Owned, Worker
<1>7. work[cur].code \in Codes
  BY <1>1, WorkFields DEF WorkInv
<1>8. QED
  BY <1>2, <1>4, <1>5, <1>6, <1>7

(* The supervisor ends, or comes round, with its worker reaped. *)
LEMMA AfterReaping ==
  ASSUME ServiceInv, sup \notin {"top", "ended"}, Reaped(cur), stop' = stop,
         home' = home, deaths' = deaths, faults' = faults,
         \/ \E code \in Codes : EndLoop(code)
         \/ sup' = "top" /\ unnamed' = FALSE /\ UNCHANGED <<exit, pidfile, socket>>
  PROVE  ServiceInv'
<1>1. SegInv' /\ HomeInv' /\ BoundsInv' /\ WorkInv' /\ Owned' /\ cur' = None
  BY ReapedKeeps
<1>2. ControlInv /\ SocketInv
  BY DEF ServiceInv
<1>3. CASE \E code \in Codes : EndLoop(code)
  BY <1>1, <1>2, <1>3 DEF EndLoop, ControlInv, PidfileTrue, SocketInv, FatalLeavesNothing, ServiceInv
<1>4. CASE sup' = "top" /\ unnamed' = FALSE /\ UNCHANGED <<exit, pidfile, socket>>
  <2>1. exit = "none"
    BY <1>2 DEF ControlInv
  <2>2. QED
    BY <1>1, <1>2, <1>4, <2>1 DEF ControlInv, PidfileTrue, SocketInv, FatalLeavesNothing, Fatal, ServiceInv
<1>5. QED
  BY <1>3, <1>4

LEMMA ReapingKeeps == ASSUME ServiceInv, WaitReturns \/ TermReaps PROVE ServiceInv'
<1>1. /\ sup \notin {"top", "ended"} /\ Reaped(cur) /\ stop' = stop /\ home' = home
      /\ deaths' = deaths /\ faults' = faults
  BY DEF WaitReturns, TermReaps, bounds
<1>2. work[cur].code \in Codes /\ "ok" \in Codes
  BY <1>1, ReapedKeeps DEF Codes
<1>3. \/ \E code \in Codes : EndLoop(code)
      \/ sup' = "top" /\ unnamed' = FALSE /\ UNCHANGED <<exit, pidfile, socket>>
  BY <1>2 DEF WaitReturns, TermReaps, AfterWait
<1>4. QED
  BY <1>1, <1>3, AfterReaping

(* A signal to the supervisor, and what it does to the worker. *)
LEMMA SignalKeeps == ASSUME ServiceInv, StopService \/ DumpStats \/ TermKills PROVE ServiceInv'
<1>1. /\ WorkInv /\ ControlInv /\ Owned /\ SocketInv /\ BoundsInv
      /\ cur' = cur /\ exit' = exit /\ pidfile' = pidfile /\ unnamed' = unnamed /\ socket' = socket
      /\ home' = home /\ deaths' = deaths /\ faults' = faults /\ stop' \in BOOLEAN
  BY DEF ServiceInv, StopService, DumpStats, TermKills, bounds, ControlInv
<1>2. \/ sup' = sup /\ UNCHANGED <<segmentVars, work>>
      \/ /\ (sup = "wait" /\ sup' = "term") \/ (sup = "term" /\ sup' = "kill")
         /\ \/ SendTerm(cur)
            \/ Exit(cur) /\ work' = Killed(cur)
            \/ UNCHANGED <<segmentVars, work>>
  <2>1. CASE StopService
    <3>1. CASE sup = "wait"
      BY <2>1, <3>1 DEF StopService, Interrupted
    <3>2. CASE sup # "wait"
      BY <2>1, <3>2 DEF StopService, Interrupted
    <3>3. QED
      BY <3>1, <3>2
  <2>2. CASE DumpStats
    BY <2>2 DEF DumpStats, Interrupted
  <2>3. CASE TermKills
    <3>1. /\ sup = "term" /\ sup' = "kill"
          /\ IF Alive(cur) THEN Exit(cur) /\ work' = Killed(cur) ELSE UNCHANGED <<segmentVars, work>>
      BY <2>3 DEF TermKills
    <3>2. QED
      BY <3>1
  <2>4. QED
    BY <2>1, <2>2, <2>3
<1>3. ControlInv' /\ SocketInv'
  BY <1>1, <1>2 DEF ControlInv, PidfileTrue, SocketInv, FatalLeavesNothing
<1>4. CASE sup' = sup /\ UNCHANGED <<segmentVars, work>>
  <2>1. SegInv' /\ HomeInv' /\ BoundsInv' /\ WorkInv' /\ Owned'
    BY <1>1, <1>4, QuietKeeps, Bounds DEF Quiet, WorkInv, Owned, Worker
  <2>2. QED
    BY <1>3, <2>1 DEF ServiceInv
<1>5. CASE /\ (sup = "wait" /\ sup' = "term") \/ (sup = "term" /\ sup' = "kill")
           /\ \/ SendTerm(cur)
              \/ Exit(cur) /\ work' = Killed(cur)
              \/ UNCHANGED <<segmentVars, work>>
  <2>1. cur \in Pids
    BY <1>1, <1>5 DEF ControlInv
  <2>2. Moves(cur) /\ Quiet
    BY <1>5, <2>1, Signalled
  <2>3. SegInv' /\ HomeInv' /\ BoundsInv'
    BY <1>1, <2>2, QuietKeeps, Bounds
  <2>4. WorkInv' /\ \A q \in Pids \ {cur} : work'[q] = work[q]
    BY <1>1, <2>1, <2>2, Changed DEF Moves
  <2>5. Owned'
    BY <1>1, <2>4 DEF Owned, Worker
  <2>6. QED
    BY <1>3, <2>3, <2>4, <2>5 DEF ServiceInv
<1>6. QED
  BY <1>2, <1>4, <1>5

-----------------------------------------------------------------------------
(* All together. *)

LEMMA ServiceStart == Init => ServiceInv
<1> SUFFICES ASSUME Init PROVE ServiceInv
  OBVIOUS
<1>1. SegInv
  BY SegmentStart DEF Init
<1>2. Fine(NoWork) /\ NoWork.step = "none"
  BY DEF Fine, Work, NoWork, WorkSteps, Codes
<1>3. WorkInv /\ Owned
  <2>1. \A p \in Pids : work[p] = NoWork
    BY DEF Init
  <2>2. work \in [Pids -> Work]
    BY <1>2 DEF Init, Fine
  <2>3. QED
    BY <1>2, <2>1, <2>2 DEF WorkInv, Owned, Worker
<1>4. ControlInv /\ SocketInv
  BY DEF Init, ControlInv, PidfileTrue, SocketInv, FatalLeavesNothing, Codes, Fatal
<1>5. HomeInv /\ BoundsInv
  BY ServiceValues DEF Init, SegmentInit, HomeInv, DataSurvive, BoundsInv
<1>6. QED
  BY <1>1, <1>3, <1>4, <1>5 DEF ServiceInv

LEMMA ServiceStep == ServiceInv /\ [Next]_vars => ServiceInv'
<1> SUFFICES ASSUME ServiceInv, [Next]_vars PROVE ServiceInv'
  OBVIOUS
<1>1. CASE Supervise \/ StopService \/ DumpStats
  BY <1>1, StopAtTopKeeps, ForkKeeps, WaitingKeeps, ReapingKeeps, SignalKeeps DEF Supervise
<1>2. ASSUME NEW p \in Pids,
             WorkerStep(p) \/ Block(p) \/ Unblock(p) \/ TermWorker(p) \/ Die(p)
      PROVE  ServiceInv'
  BY <1>2, ExecKeeps, ReadConfigKeeps, OpenKeeps, LoadKeeps, BindKeeps, LoopKeeps,
     CloseSegmentKeeps, TermWorkerKeeps, DieKeeps DEF WorkerStep
<1>3. ASSUME NEW p \in Pids,
             AppStart(p) \/ AppStep(p) \/ AppClose(p) \/ AppEnd(p) \/ AppReaped(p)
      PROVE  ServiceInv'
  BY <1>3, AppsKeep
<1>4. CASE UNCHANGED vars
  <2>1. Quiet /\ home' = home /\ UNCHANGED <<supervisor, work, socket>> /\ BoundsInv'
    BY <1>4, Bounds DEF vars, Quiet, bounds, ServiceInv
  <2>2. QED
    BY <2>1, QuietKeeps, AppKeeps
<1>5. QED
  BY <1>1, <1>2, <1>3, <1>4 DEF Next

LEMMA ServiceAlways == Spec => []ServiceInv
<1>1. QED
  BY ServiceStart, ServiceStep, PTL DEF Spec

\* Every variable of the service and of its segment keeps its type, whichever process
\* dies at whichever step.
THEOREM ServiceTypes == Spec => []TypeOK
<1>1. ServiceInv => TypeOK
  BY DEF ServiceInv, SegInv, WorkInv, Work, ControlInv, SocketInv, HomeInv, BoundsInv, TypeOK
<1>2. QED
  BY <1>1, ServiceAlways, PTL

\* supervise_loop never loses a worker: there is one at most, the one waitpid is called
\* for, and none when the supervisor forks or returns.
THEOREM ServiceNoOrphan == Spec => []NoOrphan
<1>1. ServiceInv => NoOrphan
  BY DEF ServiceInv, Owned, ControlInv, NoOrphan
<1>2. QED
  BY <1>1, ServiceAlways, PTL

\* The pid file names the worker while supervise_loop waits, unless it could not be
\* opened for this one, and goes with the supervisor.
THEOREM ServicePidfile == Spec => []PidfileTrue
<1>1. ServiceInv => PidfileTrue
  BY DEF ServiceInv, ControlInv
<1>2. QED
  BY <1>1, ServiceAlways, PTL

\* After a fatal code neither the socket nor the pid file is left, for no worker is
\* left that could bind a socket again.
THEOREM ServiceFatal == Spec => []FatalLeavesNothing
<1>1. ServiceInv => FatalLeavesNothing
  BY DEF ServiceInv, SocketInv
<1>2. QED
  BY <1>1, ServiceAlways, PTL

\* Whatever step of the creation its creator died at, a segment is used only with a
\* complete header: irt_shm_init refuses the others.
THEOREM ServiceNoRawAttach == Spec => []NoRawAttach
<1>1. ServiceInv => NoRawAttach
  <2> SUFFICES ASSUME ServiceInv, NEW p \in Pids, Attached(p)
               PROVE  segs[procs[p].seg].stage \in {"sealed", "ready"}
    BY DEF NoRawAttach
  <2>1. procs[p].seg # None
    BY ProcFields DEF ServiceInv, SegInv, Sound, Attached, Mapped
  <2>2. QED
    BY <2>1 DEF ServiceInv, SegInv, StageInv, Fits, Attached
<1>2. QED
  BY <1>1, ServiceAlways, PTL

\* The unlink of irt_shm_os_unmap takes the name of the caller's own segment, unless a
\* takeover raced with another or with the last close.
THEOREM ServiceOwnersName == Spec => []OwnersName
<1>1. ServiceInv => OwnersName
  BY DEF ServiceInv, SegInv, NameInv, OwnersName
<1>2. QED
  BY <1>1, ServiceAlways, PTL

\* The segment served last keeps its name until a worker that was told to stop, or
\* another owner, closes it: no death, fault or respawn loses the data.
THEOREM ServiceDataSurvive == Spec => []DataSurvive
<1>1. ServiceInv => DataSurvive
  BY DEF ServiceInv, HomeInv
<1>2. QED
  BY <1>1, ServiceAlways, PTL

=============================================================================
