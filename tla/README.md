# A TLA+ model of InduRTDB

InduRTDB keeps the current values of industrial points in a POSIX shared-memory
segment. Processes map the segment and read and write records directly, under one
sequence lock; the daemon `rtdbd` owns a segment, serves clients over a Unix
socket, tells subscribers about changes and manages the registry of points. This
directory holds TLA+ modules of that code, the TLC configurations that check them,
and proofs for TLAPS. `PROJECT.json` lists the runs, the theorems, the hazards, and
the source lines each definition translates. Paths below are relative to the
repository root.

## 1. Inventory

| Component | State | Operations | Who calls it, and how |
|---|---|---|---|
| Sequence lock and records (`src/internal/irt_seqlock.h`, `src/core/irt_point_manager.c`) | the lock word `write_seq`; the 128-byte records | write, set quality, timeout scan, bounded reads, do-while reads | every process that maps the segment; shared memory, no other lock |
| Hash index (`src/core/irt_index.c`) | open-addressing slots, `index_count` | insert, remove, look up | registry calls (under the lock), look-ups (bounded read) |
| Point registry (`src/api/indurtdb.c`) | names, partitions, types in the records | create, delete, rename, load configuration | `rtdbd` requests and start-up; library users |
| Delta log (`src/core/irt_delta.c`) | a file of 80-byte records | append, replay | registry calls; `rtdbd` start-up |
| Segment (`src/core/irt_shm.c`, `src/osal/posix`) | header, owner pid, mapping | create, attach, take over, unlink, lock recovery | open/close of a handle |
| Handles (`src/api/indurtdb.c`) | 64 slots, a 32-bit mask, the default handle | open, close, detach, fork check | library users |
| Callbacks (`src/core/irt_subscription.c`) | 128 callback slots; heartbeat table in the segment | subscribe, unsubscribe, notify, heartbeat, clean-up | writers of the same process |
| `rtdbd` worker (`rtdbd/src/rtdbd.c`, `rbe.c`) | 32 connections: partition, subscriptions, gate, queue | poll loop: accept, flush, one request; shutdown | clients, over the socket; signals |
| `rtdbd` supervisor (`rtdbd.c`) | the worker's pid, `g_stop` | fork, wait, stop, respawn | signals, the worker's exit code |
| Policy, audit, statistics, log buffer (`rtdbd/src`) | rule table, rings, counters | match, record, dump | request handlers |
| Client library (`client/src/client.c`) | ring of pending writes, connection, partition | enqueue with merge, flush, connect, requests | acquisition processes |
| Semantics (`src/core/irt_semantics.c`) | none | deadband, range, validation | the worker |
| Configuration text, command line, tools, SylixOS port | none shared | parse, print | outside the model |

The behaviours that are hard to test:

* **the lock**: plain stores and copies of a record race with one another, and only
  two loads of a counter tell; a process may die inside, another may attach and
  repair the counter (`SeqLock`);
* **the registry**: a change is several locked sections with bounded attempts, a
  rollback, a file record after the fact, and a restart that replays the file over
  the base configuration (`Registry`);
* **notifications**: a bounded queue per connection, frames sent in pieces, peers
  that stop reading or vanish at any point, and a gate that suppresses small changes
  (`NotifyDaemon`);
* **the client**: writes queued and merged, replayed over a connection that breaks at
  any step, to a daemon that dies, comes back and refuses (`WriteClient`);
* **service**: a supervisor between signals, waits and exit codes, and a segment that
  outlives the processes that made it (`Service`, `Segment`);
* **callbacks**: application code in the middle of a notification that changes the
  table being walked, or closes the handle (`Callbacks`).

What makes each correct: the lock excludes and is never leaked, bounded reads are
atomic; the index is exact after every legal sequence, and a restart rebuilds the
registry; every notification that passes the gate is sent whole, waits, or is
counted, in order, and a subscriber is never further from the stored value than the
deadband; a write the client answers for is stored or queued and never goes back in
time; the supervisor loses no worker, brings the service back and stops; the name of
the segment leads to the data served last, and an owner unlinks only its own; a
notification calls each subscription in force once and no other.

## 2. Modules

| Module | Models | Status |
|---|---|---|
| `SeqLock` | lock, records, writers, scan, readers, crash, lock recovery on attach | modelled |
| `AtomicPoints` | abstract: whole records replaced in one step | refined by `SeqLock` |
| `SeqLock_proofs` | theorems about `SeqLock` | proved |
| `NotifyDaemon` | the worker's connections, queues, gate, requests, shutdown | modelled (see 5) |
| `NotifyDaemon_proofs` | types of `NotifyDaemon` | proved |
| `NotifyQueue_proofs` | theorems about its queues | proved |
| `NotifyGate_proofs` | theorems about its free slots and its gates | proved |
| `Registry` | names, index, create/delete/rename, load, delta log, stop/crash/start | modelled, one manager |
| `Directory` | abstract: a partial map id -> key, changed in one step | refined by `Registry` |
| `Policy` | the lines of the policy file, what refuses it, the rule match; the partition whitelist | modelled |
| `WriteClient` | the client library: queue, connection, calls; the daemon it talks to, with deaths and failures; uses `Policy` | modelled |
| `Segment` | the named segment and the processes that map it: creation in steps, attach, takeover, unlink | modelled |
| `Service` | the supervisor, the workers and other users of the segment; extends `Segment` | modelled |
| `Callbacks` | handles, subscriptions, notifications with callbacks inside one process | modelled |
| `Service_proofs` | the invariant of the segments, kept by each step of `Segment`; theorems about `Service` | proved |
| `WriteClient_proofs` | theorems about `WriteClient` | proved |
| `Callbacks_proofs` | theorems about `Callbacks` | proved |
| `Registry_proofs` | theorems about `Registry`, and that it refines `Directory` | proved |
| `MCSeqLock`, `MCNotifyDaemon`, `MCRegistry`, `MCWriteClient`, `MCService`, `MCCallbacks` | instances for TLC | |

### SeqLock

`seq` is `hdr->write_seq`, `pt` the records, `pc`/`loc` the place and the locals of
the call each process is in. Every access to the lock word is a step: the load that
begins a call, the compare-and-swap (`CasSeq`), the store of `write_end`
(`WriteEnd`), the loads of a reader (`ReadLoad`, `ReadCheck`; `LoopLoad`,
`LoopCheck`), and of an attaching process (`AttachLoad`, `AttachStore`). Each word
of a record stored (`StoreWord`) or copied (`CopyWord`) is a step too, in any order.
A record has two words: the quality, and a stamp that stands for the value, the type
and the time stamps, which every write stores together. `Casts` says which processes
run together; readers do not act on one another, so a cast has one kind of them.

`Backoff` shows what the code does: `write_begin` backs off but does not load the
word again, so once it has seen an odd value it ends in a refusal even if the lock
became free meanwhile; the wait described at `src/internal/irt_seqlock.h:19-24`
helps only through the caller's next attempt, which the timeout scan does not make.

`ImplementsAtomicPoints` maps the abstract store to the records at the last release
of the lock. It ends, for good, with a recovery by an attaching process: that one
publishes what a dead holder left half written, by design.

### NotifyDaemon

One thread: `Accept`, `HangUp`, `Flush` and the requests are enabled in `poll`; a
request ends in a reply, which is a step of its own (`Reply`) because `send_all`
blocks the thread until the peer reads or goes. `room` is what the kernel's socket
buffer still takes, in units of which a frame needs `FrameLen`: with `BufCap` below
`FrameLen` every frame goes out in pieces. A notification is represented by the
number of the write it announces. The gate (`RbeIndex`, `RbeSends`, `RbeAfter`,
`RbeClear`) works on the array of slots as `rbe.c` does, free slots with id 0
included. `stream`, `passed`, `delivered`, `dropped`, `due`, `told`, `lost` and `silent`
are history: what was sent, counted and owed. `dropped` splits the one counter
`notify_drop` by connection. The gate moves before `outq_push` decides, so `passed` and
`due` follow the gate, and `told` the queue: it is the last notification of the point
that was queued, and `lost` names the points whose last one was refused or evicted.

### Registry

`name` and `part` are fields of the records, `slots` and `count` the index, `log` the
delta file, `call` the library call in progress. Each locked section is one step
(`SeqLock` is about the lock); between two of them other processes may hold the lock
(`LockBusy`, `CheckBusy`, `LoadBusy`: a failed attempt, `MaxRefusals` of them) and the
manager may die (`Crash`: the segment stays; `Stop` unlinks it). `Start` runs
`LoadNext`..`LoadBusy` and `ReplayNext`, whose records go through the same `Check`,
`CreateRecord`, ... steps as requests do, with appending off. An append that fails may
leave a piece of its record (`Piece`), which `irt_delta_replay` fills up with the bytes
behind it: `Read` says which records are read as they were written, `Merged` that a
piece is read with the beginning of the next one and applied under any name. The probe
compares the key in the slot (it stands for the hash) and then the record the slot leads
to, as `irt_index_slot_matches` does.

`flaw` records the events after which the code itself promises less, and the properties
name the ones they exclude: `unchecked` (a busy look-up let a duplicate name pass),
`orphan` (the rollback of create gave up, or the process died between record and index),
`overlay` (the base configuration was loaded over a changed registry, after a crash),
`skipped` (replay gave up on a record), `foreign` (a point of another partition was
logged: the log has no partition), `unlogged` (an append failed, with or without a piece
left behind, or the process died before it), `crashed`, `drifted` (a replay after a
crash gave another registry than the one that crashed, so that the log no longer
describes it). Without these exclusions TLC finds the corresponding histories at once;
with them, everything else must hold.

### Policy and WriteClient

`queue`, `async`, `connected`, `partition` are the fields of `irtcli_t`; the ring is a
sequence. `call` is the library call the application is in: it connects, sends and
waits for its reply in steps of their own, because the daemon acts, answers, refuses,
turns the connection away or dies between any two of them. `irtcli_flush` takes an
entry out of the queue (`TakeNext`), so while it waits the entry is only in its hand
(`InHand`); what it does with the answer is `Believe`, `Broken` (connect anew and
submit once more), `GiveUp` and `PutBack` (the alert callback, which may write, and
then `count++`). `link` is the socket with what is on its way in both directions;
`late` says that the unread body of a list reply (`irtcli_list_in` with more points
than fit) will be read as the header of the next reply. A value is the number of the
write that made it, so that "newer" is "greater". `kept`, `newest`, `mistaken`,
`overtaken` and `clash` are history: `mistaken` is the newest write of each point that
was submitted on a connection out of step and let go for the `OK` of another request.

The daemon of this module serves what the client can notice: `ServeWrite` with the
policy and the whitelist, `FailWrite`, `ServeOther`, and `Reply` one step later, so that
it can die between taking effect and answering. `Rejected` are the writes its library
never takes (a point that is read-only or not there, a type it does not know); others it
may refuse once. `Stall` is another client that keeps the daemon's one thread in
`recv_all` or `send_all`, which have no timeout, and `Resume` its end, if it comes. A
policy file is a sequence of lines, each a rule or the name of what is wrong with it;
`PolicyLoads` is what `main` needs to start.

### Segment and Service

`file` is the segment the name leads to, `segs` how far each segment is made and its
`owner_pid`, `procs` where each process is in `irt_shm_init`, what it maps, and
`s->os.owner`. A segment is created, sized, given its header, sealed and cleared in
five steps, and a process may die at each of them; one that finds the name opens it in
a second call (`OsFound`, `OsOpen`), when it may be gone. `Check` reads the header and
asks `kill(pid, 0)` about the owner, and `Claim` takes over, one step later. A number
of a process is found by `kill` until its parent has reaped it, and may be given out
again then.

`sup` is the place in `supervise_loop`, `cur`, `stop` (`g_stop`) and `exit` its
variables, `work` the step of `main` each worker has reached, with its own `g_stop`
and its exit code. SIGTERM does what the code's handlers make of it at each moment: it
is lost between `fork` and `execv`, kills before the handlers are set, and sets a flag
that `recv_all` does not look at (`Block`). A signal ends a `waitpid` that has begun
(`Interrupted`) and none other (`EnterWait`). `terminate_and_reap` is `SendTerm`, then
`TermReaps` or, after half a second, `TermKills`. What a worker does while it serves is
`NotifyDaemon`. `home`, `rash` and `unnamed` are history: the segment served last, a
takeover that raced, and a pid file that could not be opened for the present worker.

### Callbacks

One thread: `stack` holds the notifications under way, and the program makes calls
outside the library or in the callback on top. `Bit` is `1u << i` on a mask of
`MaskBits`: beyond it C gives no value, and each use takes either what x86 or what ARM
gives (`Shifts`). `Zeroed` is the `memset` of `inst_shutdown`, which also empties the table
that notifications under way are walking. `Without` runs the loop of
`irt_sub_unsubscribe` (`Round`) as often as there are slots; `irt_sub_notify` reads
`slot_count` once and each slot again. `due`, `called`, `cancelled`, `holders` and
`subs` are history.

## 3. Runs

| Run | Checks | Bounds | States |
|---|---|---|---|
| `seqlock` | TypeOK, MutualExclusion, MarksOnlyStale, ImplementsAtomicPoints | casts {writer, scan, reader, attacher} and {writer, scan, poller}; one point, `MaxSeq` 3, one crash, stamps 1 and 3 | about 1 min |
| `seqlock_live` | NoLeakedLock, CallsReturn | casts {two writers, reader}, {writer, poller}, {writer, scan, reader} and {two writers, poller}; a read-only point, `MaxSeq` 2, one crash | 68 000, 25 s |
| `seqlock_tear` | violation of PollsConsistent | a writer and a poller | 1 s |
| `seqlock_steal` | violation of RecoversOnlyOrphans | as `seqlock` | 1 s |
| `notify` | TypeOK, FramesWhole, NothingLostSilently, QueuesInOrder, FreeSlotsClean, KnownWithinDeadband, FirstValueSent | two connections, points 1 and 2, values 0..3 around a deadband of 1 and a limit at 2, queue of 2, frames of 2 units in a buffer of 1, 3 writes, 5 requests | 4.0 million, 1.5 min |
| `notify_live` | QueuedLeaves | two connections, queue of 1, 2 writes, 4 requests | 50 000 |
| `notify_zero` | violation of FirstValueSent | points 0 and 5, one connection | 41-state trace |
| `notify_splice` | violation of RepliesBetweenFrames | one point, two writes | 1 s |
| `registry` | TypeOK, IndexExact, RestartRestores, ImplementsDirectory | two points, two names, two partitions, four buckets, most keys in the last; three calls, one restart, three refusals, one append that fails or leaves a piece | 0.8 million, 2.5 min |
| `client` | TypeOK, NothingDropped, QueueSound, PartitionKnown, NeverBack, OneFlushReplays, CallsReturn, QueueDrains | two points, queue of 2, three writes, two other calls, two requests under way, one death of the daemon, one failure or stall; three partitions, two allowed, a point that may be written in one of them only, and a write the library never takes | 1.6 million, 2 min |
| `service` | TypeOK, NoOrphan, PidfileTrue, FatalLeavesNothing, NoRawAttach, OwnersName, DataSurvive, ComesBack, StopEnds | two process numbers, two segments, one other process at a time, one kill, one other failure | 0.7 million, 3 min |
| `callbacks` | TypeOK, TableExact, HandlesDistinct, MissedBounded, CalledOnce | three handles over a mask of two bits, two points, three callbacks, notifications two deep, one range write | 3.1 million, 1.5 min |

Why the bounds are enough. *Lock*: `MaxSeq` bounds the updates that begin, not the word:
two complete updates, and a third process that overwrites the word, cover every pair of
overlapping sections; one back-off and two attempts reach each exit of the retry loops.
*Notifications*: a queue of two is the smallest with a head and a tail that differ,
three writes overfill it, a frame of two units the smallest that can be half sent; the
values let a writer creep within the deadband (0, 1, 2) and cross the limit within it
(2, 3); five requests hold a subscription, three writes and an unsubscription. The run
has one partition; `FreeSlotsStayClean` is proved for any. *Registry*: the index has
twice as many buckets as points, as `irt_layout_buckets` guarantees; keys that share the
last bucket make probes wrap and pass tombstones; three calls make, rename and remove,
or swap, and the restart follows any of them. *Client*: a queue of two can be full, with
one entry in the hand and one behind; three writes fill it and are merged into it or
refused; one death falls before, between and after the steps of any submission, and one
failure (a refused write, a connection turned away, a thread kept by another client) can
follow it; two other calls select and then list or reopen. *Service*: a worker and
another process are the two that can race for a segment, two segments are one with the
name and one without, and numbers of processes are given out again; the failure may be a
worker's start, a connection's or the pid file's. *Callbacks*: a removal in a table of
three moves a slot over one passed, over the current one or over one to come; a
notification inside a notification is enough for any pair of them; two handles fit the
mask, so that two callers can hold one each, and the third is beyond it and asked for
outside callbacks (`MaxBeyond` 0). `CHECK_DEADLOCK FALSE` in all runs but those of
`SeqLock`: a stopped worker, an ended supervisor, a refused start and exhausted bounds
are ends.

The four violation runs are disagreements between the code and its comments, described
under "findings" in `PROJECT.json`.

### Fairness

`SeqLock`: the scheduler runs every live process, so each step of a call that began is
taken in the end (weak fairness per process); no process has to begin a call, to attach,
or to crash. A bounded reader returns whatever the others do. A writer that loses a
compare-and-swap begins its count of retries again (`irt_seqlock.h:34-36`), and a
do-while reader reads again for as long as the word moves, so `CallsReturn` claims of
them only that they return once the word is left alone (`Quiet`; within `MaxSeq` it
always is in the end, which stands for "in the end"), and excepts a do-while reader once
a holder has died inside: it waits for that one for ever. `NotifyDaemon`: the poll loop
visits each ready connection in every round, so a flush or a hang-up that is ready again
and again is done (strong fairness: between rounds the thread is busy with a reply), and
a reply that can be sent is sent (weak). A peer that is still there reads what was sent
to it (weak fairness of `Receive`), which the code cannot enforce: a peer that never
reads keeps its queue, and `outq_push` then counts what it evicts, as
`NothingLostSilently` says. `QueuedLeaves` excepts a connection that keeps asking.
`WriteClient`: the application flushes again and again (the header of the library asks
for it), a call in progress takes its next step, the daemon, while no other client keeps
its thread, serves what it received, and the supervisor brings it back; all weak
fairness, none for writes, failures or deaths, and none for `Resume`: nothing in the
code ends a stall. `CallsReturn` and `QueueDrains` assume that the last stall ends
(`Unblocked`), and name what they except: a connection out of step, and a head of the
queue that the policy or the library refuses. `Service`: the supervisor, each worker and
each other process go on (weak fairness per process), except that a worker blocked in a
receive need never leave it, which is why `StopEnds` needs the forced termination;
nobody has to kill, signal or block. `ComesBack` and `StopEnds` name their exceptions
too. `Registry` and `Callbacks` are checked for safety only.

## 4. Proofs

`SeqLock_proofs` proves, for any sets of processes and points and any bounds
satisfying the assumptions of `SeqLock`:

* `TypeCorrect`: `Spec => []TypeOK`;
* `LockCorrect`: `Spec => []LockInv`, the inductive invariant;
* `ExclusionHolds` and `NoLockLeaks`, its consequences `[]MutualExclusion` and
  `[]NoLeakedLock`;
* `SnapshotCorrect`: `Spec => []SnapshotInv`, from which `AtomicReads`:
  `Spec => ImplementsAtomicPoints`, the refinement of `AtomicPoints`;
* `MarksCorrect`: `Spec => MarksOnlyStale`, the scan never marks a value that is fresh.

Mutual exclusion is not inductive: the compare-and-swap of one process excludes
another only because the one inside holds an even `seq0` and the word is `seq0 + 1`,
hence odd. Attaching processes add the last conjunct of `LockInv`: one that is about
to store remembers an odd word not newer than the current one, so that its store is
either the release of an orphan, or repeats a value already there, or is what
`stolen` records. The proof goes action by action (`StartLock`, `TakeLock`,
`LockStepLock`, `ScanStepLock`, `ReadersLock`, `CrashLock`, `AttachStepLock`), with
`LockFrame` for the steps that touch neither the word nor a process inside. The
lemmas with names in `...Type` and `...Fields` do the same for `TypeOK`.

That a read is one atomic step of `AtomicPoints` needs to know what a reader has copied
so far. `SnapshotInv` says it in terms of the word: a reader inside its window remembers
an even `seq0`; as long as the word has not moved from it, nobody has been inside since,
so the words copied are those of the record as it is, and a reader that finds the word
unmoved returns a record that was whole at that instant. A writer inside has changed its
own record alone, and maps to a stutter until the store that completes it. `MarkInv`
does the same for the scan: what it remembers of a point still holds while it is inside.
They say nothing once an attaching process has overwritten the word under a holder
(`stolen`, and for the copies `recovered`), as the properties do not.

The assumptions used are named in `SeqLock`: `BoundsAssumption`, `DataAssumption`,
`RolesAssumption` (a process has one role); TLC evaluates them in every run.

About `NotifyDaemon`, for any connections, points, values, meta data and sizes that
satisfy `NotifyBounds` and `NotifyMeta`:

* `TypeCorrect` (`NotifyDaemon_proofs`), inductive with `JobOK`: the reply in progress
  belongs to a connection, and the write it announces to a point;
* `FramesStayWhole`, `NothingIsLost`, `QueuesStayInOrder` (`NotifyQueue_proofs`);
* `FreeSlotsStayClean` and, if no point has the id 0, `FirstValueIsSent` and
  `SubscribersStayClose` (`NotifyGate_proofs`).

The queue proofs reduce each action to what it does to one queue (`QueueStep`): keep
it, throw it away, push a number, send units of it. `StepOfQueue` is the only lemma
that looks at the actions; `WholeStays`, `AccountedStays` and `InOrderStays` follow
from the four steps, with `PushFacts` (a push keeps the bound, counts what it evicts
and leaves a begun head alone) and `Division` (whole frames and the rest of a run of
units). Two strengthenings are needed: a free slot has an empty queue (`FreeEmpty`),
or `Accept` would lose notifications uncounted; and the number a running handler will
announce is newer than every queued one (`Newer`), because it is given out a step
before it is pushed.

The gate proofs do the same with `StepOfGate`. Their invariant, `Gate`, says what the
array of `rbe.c` stands for: the slots in use belong to different points, each announced
since it was subscribed, and, unless that notification was lost, remember the value told
last; a free slot has the id 0. The last clause is where the id 0 of a point breaks the
argument: a search for point 0 finds any free slot, and the slot in use may lie behind
it, which is the history of `notify_zero`. `SubscribersStayClose` also needs `CleanInv`
(a subscriber is a connection that is up, and no handler runs outside normal service).
It compares the stored value with the last notification of the point that was queued,
and excepts a point whose last one the queue refused or evicted (`lost`) and one whose
write was never announced (`silent`): there the subscriber may be off by more, as
section 5 says.

About `Segment` and `Service`, for any numbers of processes, any segments and any bounds
that satisfy the assumptions of the two modules:

* `SegmentKept` (`Service_proofs`): each step of a process keeps `SegInv`;
* `ServiceTypes`, `ServiceNoOrphan`, `ServicePidfile`, `ServiceFatal`,
  `ServiceNoRawAttach`, `ServiceOwnersName`, `ServiceDataSurvive` (`Service_proofs`):
  all the invariants of the run `service`.

The properties are not inductive: a step of a creation or of a takeover relies on what
an earlier step of the same process did. `SegInv` says, for each place of
`irt_shm_init`, how far the segment there must be (`StageInv`), that a segment is made
by one process (`MakerInv`), that one without a name and without a mapping holds nothing
(`FreeInv`), and, unless `rash` says that a takeover raced, that there is one owner and
the name leads to its segment (`OwnerInv`, `NameInv`). `Service_proofs` adds what the
supervisor knows (`ControlInv`: it has a worker exactly while it waits for one; `Owned`:
no process but `cur` is a worker) and which steps of `main` go with which stop flag and
exit code (`WorkInv`). `ServicePidfile` excepts a worker for which the pid file could
not be opened (`unnamed`): it names the worker before, or none. The steps of `Segment`
are looked at once, in `SegmentKept`.

About `WriteClient`, for any set of points, any capacity, any alert points, policy and
partitions, and any number of writes, calls, deaths and failures (`ClientValues` and
`PolicyValues`):

* `ClientAlways`: `Spec => [](ClientsInv /\ Served)`, the inductive invariant;
* `ClientTypes`, `ClientQueueSound`, `ClientNothingDropped`, `ClientPartitionKnown`, its
  consequences: all the invariants of the run `client`;
* `ClientReplays`: `Spec => OneFlushReplays`, from `CalmInv`;
* `ClientNeverBack`: `Spec => NeverBack`, from `OrderInv`.

`NothingDropped` excepts two losses, by name: the write of an alert callback (`clash`),
and a write let go on a connection out of step for the `OK` of another request
(`mistaken`). It is not inductive. That an entry may leave the hand when the status is
`OK` needs the status to be the answer to this very request, and true: `LinkInv` says
that a connection in step carries nothing between two calls and, while a call waits,
either its request (`Asked`) or its one reply (`Answered`), whose status is `True` of
the database and of the partition. That the entry fits when it is put back needs
`Sound`: the hand is counted in the capacity, and its point is not in the queue. `CallInv`
says at which places of a call there is an entry in the hand. `Served` (a status belongs to
a request) is what the replies of a connection out of step need. `LetGo`, `PutBackKeeps`
and `SameBacklog` treat the three things a step can do to the queue; the actions cite
them. `PushKeeps`, `TakeKeeps` and `ConsKeeps` are the facts about sequences.

`CalmInv` says of a call that met no death and no failure that the daemon is up and that
the connection of a second try is open: nothing but a reply that is not `OK` can then stop
a flush before its queue is empty. `OrderInv` puts everything on its way to one point in
one order: what is stored, what was sent and is not served yet (`SentInv`), the entry in
the hand and the queue (`UpInv`); each is no newer than what follows it. It speaks of no
point in `overtaken` and of nothing after a `clash`, as the property does.

About `Callbacks`, for any number of instances, any width of the mask, any size of the
tables, any finite interval of point ids and any depth of notification
(`CallbacksValues`):

* `CallbacksAlways`: `Spec => []CallbacksInv`, the inductive invariant;
* `CallbacksTypes`, `TablesExact`, `HandlesApart`, `MissesBounded`, its consequences: all
  the invariants of the run `callbacks`;
* `CallsInForce`: `Spec => CalledOnce`.

`CallbacksInv` has three parts. `TableInv`: every callback of a table is another one
(`Uniq`), the table is the subscriptions in force, and a handle that is not open has
none. `MaskInv`: a handle somebody holds lies below the width of the mask and has its bit.
`StackInv`: of every notification under way, `FrameInv`. `MissedBounded` speaks only of a
notification that is over; `FrameInv` says of every place of the loop that what was called
is in front of it (`Front`), that what is due lies within `slot_count` as it was read, and
that what is due, in front and not called is no more than was cancelled in front. An
unsubscribe keeps this because a subscription that stays never moves to a higher slot
(`StaysBefore`), so that nothing is lost from the front, and comes into it only through a
gap (`FrontMoves`, an injection of the newcomers into the slots cancelled).

What the loop of `irt_sub_unsubscribe` returns (`WithoutThins`) is a fact about a
recursive function. The invariant of its rounds (`RoundInv`, kept by each: `RoundKeeps`)
carries the argument, and in place of an induction the proof takes the least round that
would break it. The rounds suffice because each moves on or shortens the table.

Points are an interval because `indurtdb_h_write_range` adds 1 to an id and the id is a
place in the point table.

About `Registry`, for any finite set of points, any names and partitions, any hash, an
index of at least two buckets per point, any base configuration and any numbers of
requests, refusals, failed appends and lives (`RegistryBounds`, `RegistryMarkers`):

* `TypeCorrect`: `Spec => []TypeOK`;
* `IndexCorrect`: `Spec => []IndexExact`;
* `RefinesDirectory`: `Spec => ImplementsDirectory`, the refinement of `Directory`;
* `RestartCorrect`: `Spec => RestartRestores`.

The inductive invariant is `RegistryInv`, in three parts. `ShapeInv` says which calls
can be at which step in which mode, and that the log holds at most a record for each
request that is over. `IndexInv` is about the index while the history is clean.
`IndexExact` speaks of look-ups, which are searches; `IndexOK` says what makes them
succeed: a live slot holds the key of its point (`Own`), no slot before it in its
probe is empty (`Chained`), and no two slots have one point or one key (`Single`). A
point may lack a slot only while it is being made or the base configuration has still
to load it (`MissInv`), and a name that was checked stays available until the call
uses it (`StepInv`). That removal leaves a tombstone is what keeps `Chained`
(`ReachedStays`); that an insertion may go into the first tombstone of the probe needs
the whole probe to have missed the key. The two buckets per point give `AlwaysFits`: in
a clean history no insertion finds the index full. The refinement follows from the
index alone: a point has a key exactly when it has a slot (`KeysAre`), so the
lemmas `InsertRefines`, `DeleteRefines` and `RenameRefines` each turn one write of
slots into one change of the map.

`LogsInv` is about histories that no flaw but a crash has touched. It says that there is
a sequence of registries, one for each record of the log, that begins with the base
configuration and of which each is the `Effect` of a record on the one before; the last
is the registry before the call in progress (`Before`), and in the life after a stop
the one saved. The replay walks along this sequence: what it creates or renames was
possible on the same registry when it was logged, so that no check refuses it, and what
it ends with is what was stopped (`ReplayEnds`).

The attempt to prove `RestartCorrect` over several lives showed that it was not so: a
replay after a crash starts from the registry that crashed and not from the base
configuration, is refused where the first life was not, and can lose a point for good.
The next orderly stop then saves a registry that its log does not rebuild. `drifted`
marks these histories; the shortest is told at the end of section 5.

Only model-checked: the liveness properties (`CallsReturn` of the lock and of the
client, `QueuedLeaves`, `QueueDrains`, `ComesBack`, `StopEnds`), as fairness rests on
`ENABLED`, which the prover does not handle.

## 5. Abstractions, and what is not modelled

* **Memory** is sequentially consistent: the fences and acquire/release orders of the
  code are taken to do their work. What the C memory model says of the racing plain
  accesses is not modelled beyond reading any mix of words.
* **Counters** do not wrap: the 64-bit lock word and statistics are naturals.
* `NotifyDaemon`: subscriptions are a set (the array is unordered); a round of `poll`
  is any order of its steps; a request arrives whole, so a blocking `recv_all` in the
  middle of one is left out; the gate's parameters (`Meta`) are constant, so
  `SET_META` during service and the percentage deadband are left out; values are
  naturals, and their conversion to `double` is exact; time stamps are not modelled;
  a write that the library refuses is `WriteRefused`. `notify_zero` needs point id 0,
  which `config/rtdbd/points.yaml:13` shows in use.
* `Registry`: one managing process, with the delta log on; the process dies only
  between locked sections (a death inside is `SeqLock`'s); look-ups are atomic, which
  `ImplementsAtomicPoints` is about; the hash is the key; names are not truncated;
  types, access rights and meta data are left out; after a refused start nothing is
  said; two pieces in the log that make exactly one record, after which the replay would
  be in step again, are left out.
* `WriteClient`: one application thread; the callback that a full queue calls, which can
  call itself for ever and push the count past the capacity, is left out, so a callback
  writes only what finds room (`AlertWrites`). The daemon is what this one client sees of
  it; other clients are `NotifyDaemon`'s subject, and here only what keeps the daemon's
  thread (`Stall`). The audit record of a write is not read
  by anything here.
* `Segment`, `Service`: a failed `ftruncate` or `mmap` is not modelled, nor the death of
  the supervisor itself, nor the flag of ownership that a forked child inherits. The
  index is cleared after the header is sealed (`src/core/irt_shm.c:104-106`): `ClearIndex`
  is a step and `Check` accepts a sealed segment, but what a look-up or an insertion meets
  in an index of zeros, which are not its empty mark, is not modelled. The size an
  attaching process asks for is taken to be the segment's, and its version the header's:
  all processes are of one build and one configuration; one that asks for less would
  mask the index with too few bits (`src/core/irt_index.c:41`). All processes are of one
  user: `kill(pid, 0)` fails with `EPERM` for the process of another, which
  `src/core/irt_shm.c:141` takes for a dead owner.
* `Callbacks`: the heartbeat table is left out: `irt_sub_cleanup_zombies` has no caller
  in the repository, and the age it computes (`src/core/irt_subscription.c:93`) would be
  huge for a beat newer than `now`. The default handle of the v1 calls and the reset of
  the handles after `fork` are left out, and so is a range write that goes on with the
  instance of a handle a callback has closed and opened again.
* **Not modelled**: parsing of YAML and INI text, the audit ring, statistics, health
  windows and the log buffer, the command line and the tools (text and I/O without state
  shared with the rest); the SylixOS port (the POSIX one is taken as the reference).

Four facts met while modelling are kept as exclusions of a property instead of a run. A
write whose reply cannot be sent is stored but not announced to the subscribers
(`rtdbd/src/rtdbd.c:571`, against the comment at line 280): `silent` in `NotifyDaemon`.
A notification that the full queue refuses or evicts has moved the gate already
(`rtdbd/src/rtdbd.c:310`), so that later values near it are suppressed and the
subscriber stays away from the stored value by more than the deadband, with
`notify_drop` as the only trace: `lost`. A reload over a segment that survived a crash
makes the points of the base configuration anew without removing the index entries of
their old names (`src/api/indurtdb.c:423`, with `irt_index.c:146`): `overlay` in
`Registry`. And a replay over a segment that survived a crash may lose a point
(`src/api/indurtdb.c:742`), against the sentence of
`docs/plans/2026-10-07-v3.7-B4B5-implementation.md:77` that a replay of the same records
again gives the same result: `drifted`. From the base configuration 1:a, delete 1,
create 1 as b, rename 1 to a, create 2 as b; crash; the replay deletes point 1, cannot
create it as b, which is point 2's name now, cannot rename what is not there, and leaves
point 2 alone. TLC finds this history with two points and four calls if
`RestartRestores` is asked for after a crash as well.

## 6. Plan

1. `SeqLock`, `AtomicPoints`, proofs of exclusion, of no leak and of atomic reads: done.
2. `NotifyDaemon`: done, its safety properties proved; next, `SET_META` during
   service, and with it the relative deadband.
3. `Registry`, `Directory`: done for one manager, all its properties proved; next, several
   managers (the race at `src/api/indurtdb.c:585`).
4. `Policy`, `WriteClient`: done, all its safety properties proved; next, the callback of a
   full queue.
5. `Segment`, `Service`: done, the safety invariants proved; next, attaching with another
   size.
6. `Callbacks`: done, all its properties proved; next, the heartbeat table if something
   comes to call its clean-up.
