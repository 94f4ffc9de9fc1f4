------------------------------ MODULE Segment ------------------------------
(***************************************************************************)
(* The shared memory segment of an instance and the processes that map it  *)
(* (irt_shm.c, irt_osal_posix.c): a process creates the segment under its  *)
(* name or maps the one it finds, and takes it over if its owner is dead;  *)
(* an owner that closes unlinks the name, whatever it leads to by then.    *)
(* A segment without a name lives as long as it is mapped.  A process may  *)
(* die at every step; kill(pid, 0) finds it until its parent has reaped    *)
(* it, and its number may be given out again then.                         *)
(***************************************************************************)
EXTENDS Naturals, FiniteSets

CONSTANTS
  Pids,    \* process numbers
  Segs,    \* segments, with or without a name
  None

ASSUME SegmentValues == None \notin Pids \cup Segs

VARIABLES
  file,    \* the segment the name leads to
  segs,    \* how far each segment is made, and hdr->owner_pid
  procs,   \* where each process is, what it maps, and s->os.owner
  rash     \* history: a takeover of a segment that had another owner or no name

segmentVars == <<file, segs, procs, rash>>

(* A segment grows: created, of full size and zero, its header written, its  *)
(* CRC stored, its index and meta data cleared.                              *)
Stages == {"empty", "zero", "header", "sealed", "ready"}
Steps  == {"size", "write", "seal", "clear", "reopen", "check", "claim"}
Mapped == (Steps \ {"reopen"}) \cup {"attached"}
Places == {"gone", "zombie", "idle", "failed", "attached"} \cup Steps

Unmapped(at) == [at |-> at, seg |-> None, owner |-> FALSE]
Gone == Unmapped("gone")
Idle == Unmapped("idle")
Zombie == Unmapped("zombie")

Exists(p) == procs[p].at # "gone"                        \* kill(p, 0) = 0
Alive(p)  == procs[p].at \notin {"gone", "zombie"}
Attached(p) == procs[p].at = "attached"
Mappers(s) == {p \in Pids : procs[p].seg = s}

NoData == [stage |-> "empty", owner |-> None]
SegmentInit ==
  /\ file = None
  /\ segs = [s \in Segs |-> NoData]
  /\ procs = [p \in Pids |-> Gone] /\ rash = FALSE

-----------------------------------------------------------------------------
(* The kernel keeps a segment as long as it has a name or is mapped. *)
KernelKeeps ==
  segs' = [s \in Segs |-> IF s = file' \/ \E p \in Pids : procs'[p].seg = s THEN segs[s] ELSE NoData]

(* irt_shm_os_map: O_EXCL tells who creates the segment. *)
FreeSegs == {s \in Segs : Mappers(s) = {}}
NewSeg == CHOOSE s \in FreeSegs : TRUE
OsCreate(p) ==
  /\ procs[p].at = "idle" /\ file = None /\ FreeSegs # {}
  /\ file' = NewSeg
  /\ procs' = [procs EXCEPT ![p] = [at |-> "size", seg |-> NewSeg, owner |-> TRUE]]
  /\ UNCHANGED <<segs, rash>>

(* The name exists: it is opened in a second call, and may be gone by then. *)
OsFound(p) ==
  /\ procs[p].at = "idle" /\ file # None
  /\ procs' = [procs EXCEPT ![p] = Unmapped("reopen")]
  /\ UNCHANGED <<file, segs, rash>>
OsOpen(p) ==
  /\ procs[p].at = "reopen"
  /\ procs' = [procs EXCEPT ![p] = IF file = None THEN Unmapped("failed")
                                  ELSE [at |-> "check", seg |-> file, owner |-> FALSE]]
  /\ UNCHANGED <<file, segs, rash>>

(* The creator's steps, up to its return from irt_shm_init. *)
Make(p, from, to, stage, owner) ==
  /\ procs[p].at = from
  /\ procs' = [procs EXCEPT ![p].at = to]
  /\ segs' = [segs EXCEPT ![procs[p].seg] = [stage |-> stage, owner |-> owner]]
  /\ UNCHANGED <<file, rash>>
Truncate(p)    == Make(p, "size", "write", "zero", None)
WriteHeader(p) == Make(p, "write", "seal", "header", p)
Seal(p)        == Make(p, "seal", "clear", "sealed", segs[procs[p].seg].owner)
ClearIndex(p)  == Make(p, "clear", "attached", "ready", segs[procs[p].seg].owner)

(* Attaching: a segment without its size ends the process (SIGBUS), one      *)
(* without a valid magic, version, size and CRC is refused, and an owner that *)
(* does not exist is replaced.  Every process is of one build and one         *)
(* configuration, so that version and sizes are right once the header is      *)
(* written, and of one user: the live owner of another user would be replaced *)
(* too, for kill fails with EPERM then and errno is not looked at.            *)
MutCheckable(s) == segs[s].stage \notin {"empty", "zero"}        \* no CRC
Checkable(s) == segs[s].stage \notin {"empty", "zero", "header"}
MutCheck(p) ==                     \* a refused segment stays mapped
  /\ procs[p].at = "check" /\ segs[procs[p].seg].stage # "empty"
  /\ procs' = [procs EXCEPT ![p].at = IF Checkable(procs[p].seg) THEN "attached" ELSE "failed"]
  /\ UNCHANGED <<file, rash>> /\ KernelKeeps
Checked(p) ==
  LET s == procs[p].seg IN
  IF ~ Checkable(s) THEN Unmapped("failed")
  ELSE IF segs[s].owner = p \/ Exists(segs[s].owner) THEN [procs[p] EXCEPT !.at = "attached"]
  ELSE [procs[p] EXCEPT !.at = "claim"]
Check(p) ==
  /\ procs[p].at = "check" /\ segs[procs[p].seg].stage # "empty"
  /\ procs' = [procs EXCEPT ![p] = Checked(p)]
  /\ UNCHANGED <<file, rash>> /\ KernelKeeps

BusError(p) == procs[p].at = "check" /\ segs[procs[p].seg].stage = "empty"

Claim(p) ==
  /\ procs[p].at = "claim"
  /\ procs' = [procs EXCEPT ![p] = [at |-> "attached", seg |-> procs[p].seg, owner |-> TRUE]]
  /\ segs' = [segs EXCEPT ![procs[p].seg].owner = p]
  /\ rash' = IF file # procs[p].seg \/ \E q \in Mappers(file) : procs[q].owner THEN TRUE ELSE rash
  /\ UNCHANGED file

SegmentStep(p) ==
  \/ OsCreate(p) \/ OsFound(p) \/ OsOpen(p) \/ Truncate(p) \/ WriteHeader(p) \/ Seal(p) \/ ClearIndex(p)
  \/ Check(p) \/ Claim(p)

(* irt_shm_os_unmap of an attached process; indurtdb_detach gives up the     *)
(* ownership before.                                                         *)
MutClose(p) ==                     \* unlinks whoever owns
  /\ Attached(p)
  /\ procs' = [procs EXCEPT ![p] = Idle]
  /\ file' = None
  /\ UNCHANGED rash /\ KernelKeeps
Close(p) ==
  /\ Attached(p)
  /\ procs' = [procs EXCEPT ![p] = Idle]
  /\ file' = IF procs[p].owner THEN None ELSE file
  /\ UNCHANGED rash /\ KernelKeeps

Detach(p) ==
  /\ Attached(p)
  /\ procs' = [procs EXCEPT ![p] = Idle]
  /\ UNCHANGED <<file, rash>> /\ KernelKeeps

(* The process ends without closing: the kernel unmaps. *)
Exit(p) == Alive(p) /\ procs' = [procs EXCEPT ![p] = Zombie] /\ UNCHANGED <<file, rash>> /\ KernelKeeps
Reap(p) == procs[p].at = "zombie" /\ procs' = [procs EXCEPT ![p] = Gone]
           /\ UNCHANGED <<file, segs, rash>>

-----------------------------------------------------------------------------
SegmentTypeOK ==
  /\ file \in Segs \cup {None}
  /\ segs \in [Segs -> [stage : Stages, owner : Pids \cup {None}]]
  /\ procs \in [Pids -> [at : Places, seg : Segs \cup {None}, owner : BOOLEAN]]
  /\ \A p \in Pids : /\ procs[p].seg # None <=> procs[p].at \in Mapped
                     /\ procs[p].owner => procs[p].seg # None
  /\ rash \in BOOLEAN

=============================================================================
