---------------------------- MODULE WriteClient ----------------------------
(***************************************************************************)
(* The client library's write queue, and the daemon it submits to.  The    *)
(* client is one thread: a call runs until it returns, and waits for the   *)
(* replies of its connection.  The daemon dies and comes back at any step, *)
(* and stands still while another client keeps its one thread.             *)
(* A value is the number of its write; a stamp is the source timestamp.    *)
(***************************************************************************)
EXTENDS Policy

CONSTANTS
  Points,       \* the points the client writes
  Uid,          \* the user the client runs as
  Cap,          \* c->cap
  AlertPoints,  \* the points the application's alert callback writes
  Rejected,     \* the writes the daemon's library never takes: of a read-only or an
                \* unknown point, or of a type that is not the point's
  MaxWrites, MaxCalls, MaxAhead,  \* bounds: writes, other calls, requests not answered
  MaxCrashes, MaxFaults           \* bounds: deaths of the daemon, other failures

ASSUME ClientValues ==
  /\ Points \subseteq Nat /\ AlertPoints \subseteq Points /\ Uid \in Nat
  /\ Cap \in Nat \ {0} /\ {MaxWrites, MaxCalls, MaxAhead, MaxCrashes, MaxFaults} \subseteq Nat

VARIABLES
  queue,      \* c->queue, oldest first
  async, connected, partition,    \* c->async, c->connected, c->partition
  call,       \* the call in progress
  link,       \* the connection c->fd names
  up,         \* the daemon listens
  value,      \* the value of each point in the database
  newest,     \* the newest write the database took of each point
  stalled,    \* the daemon's thread waits for another client
  kept,       \* the newest write the client answers for: queued, or confirmed
  mistaken,   \* the newest write it took for confirmed out of step
  clash,      \* an alert callback wrote the point in hand, or took its slot
  overtaken,  \* points written synchronously past a queued write
  writes, calls, crashes, faults

client == <<queue, async, connected, partition>>
world  == <<value, newest, stalled>>
ghosts == <<kept, mistaken, overtaken, clash>>
backlog == <<queue, kept, mistaken, clash, writes>>    \* what the end of a flush may change
bounds == <<writes, calls, crashes, faults>>
vars   == <<client, call, link, up, world, ghosts, bounds>>

Stamps == 0 .. MaxWrites
Entry == [point : Points, stamp : Stamps]
NoEntry == [point |-> 0, stamp |-> 0]

Statuses == {"OK", "DENIED", "ERROR"}
NoRequest == [op |-> "none", entry |-> NoEntry, part |-> 0]
Request == [op : {"none", "write", "select", "list", "ask"},
            entry : Entry \cup {NoEntry}, part : Partitions]

(* requests: sent and not answered; done: the status of the first, once it   *)
(* took effect; replies: on their way; part: conn->partition; late: what is  *)
(* still to be read begins inside the body of an earlier reply.              *)
NoLink == [open |-> FALSE, part |-> 0, requests |-> <<>>, done |-> "none",
           replies |-> <<>>, late |-> FALSE]
NewLink == [NoLink EXCEPT !.open = TRUE]

(* calm: the daemon has been up since the call began, and nothing failed.    *)
Idle == [op |-> "idle", at |-> "idle", request |-> NoRequest, try |-> 1, calm |-> FALSE]
Begin(op, request, at) ==
  [op |-> op, at |-> at, request |-> request, try |-> 1, calm |-> up]
WriteOf(e) == [op |-> "write", entry |-> e, part |-> 0]
InHand == IF call.op = "flush" THEN call.request.entry ELSE NoEntry

-----------------------------------------------------------------------------
(* q_push: a write of a point already queued takes its place. *)
Queued(q, p) == \E i \in DOMAIN q : q[i].point = p
Room(q, e) == Queued(q, e.point) \/ Len(q) < Cap
MutQPush(q, e) == IF Len(q) < Cap THEN Append(q, e) ELSE q
MutQPushFront(q, e) == IF Len(q) < Cap THEN <<e>> \o q ELSE q
QPush(q, e) ==
  IF Queued(q, e.point) THEN [i \in DOMAIN q |-> IF q[i].point = e.point THEN e ELSE q[i]]
  ELSE IF Len(q) < Cap THEN Append(q, e) ELSE q

Init ==
  /\ queue = <<>> /\ async = TRUE /\ connected = FALSE /\ partition = 0
  /\ call = Idle /\ link = NoLink /\ up \in {FALSE, PolicyLoads}
  /\ value = [p \in Points |-> 0] /\ newest = value /\ stalled = FALSE
  /\ kept = value /\ mistaken = value /\ overtaken = {} /\ clash = FALSE
  /\ writes = 0 /\ calls = 0 /\ crashes = 0 /\ faults = 0

-----------------------------------------------------------------------------
(* The application's calls. *)

Ready == call = Idle
NewEntry(p) == [point |-> p, stamp |-> writes + 1]
AnswerFor(e) == [kept EXCEPT ![e.point] = e.stamp]
FirstStep == IF connected THEN "send" ELSE "connect"

(* irtcli_write_*, asynchronous: merged, appended, or ERR_FULL. *)
WriteAsync(p) ==
  /\ Ready /\ async /\ writes < MaxWrites
  /\ queue' = QPush(queue, NewEntry(p))
  /\ kept' = IF Room(queue, NewEntry(p)) THEN AnswerFor(NewEntry(p)) ELSE kept
  /\ writes' = writes + 1
  /\ UNCHANGED <<async, connected, partition, call, link, up, world, mistaken, overtaken,
                 clash, calls, crashes, faults>>

(* irtcli_write_*, synchronous: past the queue, straight to the daemon. *)
WriteSync(p) ==
  /\ Ready /\ ~ async /\ writes < MaxWrites
  /\ call' = Begin("sync", WriteOf(NewEntry(p)), FirstStep)
  /\ overtaken' = IF Queued(queue, p) THEN overtaken \cup {p} ELSE overtaken
  /\ writes' = writes + 1
  /\ UNCHANGED <<client, link, up, world, kept, mistaken, clash, calls, crashes,
                 faults>>

(* irtcli_flush: connect if need be, then one entry after the other. *)
Flush ==
  /\ Ready /\ queue # <<>>
  /\ IF connected
     THEN /\ call' = Begin("flush", WriteOf(Head(queue)), "send")
          /\ queue' = Tail(queue)
     ELSE /\ call' = Begin("flush", NoRequest, "connect")
          /\ UNCHANGED queue
  /\ UNCHANGED <<async, connected, partition, link, up, world, ghosts, bounds>>

(* irtcli_select, irtcli_list_in, and the requests that change nothing here. *)
Control(op, q) ==
  /\ Ready /\ calls < MaxCalls /\ calls' = calls + 1
  /\ call' = Begin(op, [op |-> op, entry |-> NoEntry, part |-> q], FirstStep)
  /\ UNCHANGED <<client, link, up, world, ghosts, writes, crashes, faults>>

SetAsync(mode) ==
  /\ Ready /\ calls < MaxCalls /\ calls' = calls + 1 /\ async' = mode /\ async # mode
  /\ UNCHANGED <<queue, connected, partition, call, link, up, world, ghosts, writes, crashes,
                 faults>>

(* irtcli_close and irtcli_init again: what was queued is given up. *)
Reopen ==
  /\ Ready /\ calls < MaxCalls /\ calls' = calls + 1
  /\ queue' = <<>> /\ async' = TRUE /\ connected' = FALSE /\ partition' = 0
  /\ link' = NoLink
  /\ kept' = [p \in Points |-> IF kept[p] <= newest[p] THEN kept[p] ELSE newest[p]]
  /\ UNCHANGED <<call, up, world, mistaken, overtaken, clash, writes, crashes, faults>>

-----------------------------------------------------------------------------
(* The steps of a call. *)

Return == call' = Idle
MutTakeNext ==
  /\ call' = [call EXCEPT !.at = "send", !.try = @ + 1, !.request = WriteOf(Head(queue))]
  /\ queue' = Tail(queue)
TakeNext ==
  /\ call' = [call EXCEPT !.at = "send", !.try = 1, !.request = WriteOf(Head(queue))]
  /\ queue' = Tail(queue)

(* A flush that cannot submit its entry tells the application and counts the *)
(* entry's slot again.  What the callback queues in between goes to that     *)
(* slot if it was the last one free.  A write that finds the queue full       *)
(* would call the callback again: it is left out.                            *)
AlertWrites == {NoEntry} \cup
  (IF async /\ writes < MaxWrites
   THEN {n \in {NewEntry(p) : p \in AlertPoints} : Room(queue, n)} ELSE {})
TakesSlot(n) == n # NoEntry /\ ~ Queued(queue, n.point) /\ Len(queue) = Cap - 1
MutPutBack(e) == UNCHANGED backlog
PutBack(e) ==
  \E n \in AlertWrites :
    /\ queue' = <<IF TakesSlot(n) THEN n ELSE e>> \o
                (IF n = NoEntry THEN queue ELSE QPush(queue, n))
    /\ kept' = IF n = NoEntry THEN kept ELSE AnswerFor(n)
    /\ clash' = IF n # NoEntry /\ (TakesSlot(n) \/ n.point = e.point) THEN TRUE ELSE clash
    /\ writes' = IF n = NoEntry THEN writes ELSE writes + 1
    /\ UNCHANGED mistaken

GiveUp ==
  /\ Return
  /\ IF InHand # NoEntry THEN PutBack(InHand) ELSE UNCHANGED backlog

(* A failed send or receive: a flush connects anew and submits once more. *)
MutBroken == GiveUp /\ connected' = FALSE
MutBrokenStays ==
  IF call.op = "flush" /\ call.try = 1
  THEN call' = [call EXCEPT !.at = "send", !.try = 2] /\ UNCHANGED <<connected, backlog>>
  ELSE GiveUp /\ UNCHANGED connected
Broken ==
  IF call.op = "flush" /\ call.try = 1
  THEN /\ call' = [call EXCEPT !.at = "connect", !.try = 2]
       /\ connected' = FALSE
       /\ UNCHANGED backlog
  ELSE GiveUp /\ connected' = (call.op = "flush")

(* irtcli_connect: the old connection is closed, and the new one is in       *)
(* partition 0.                                                              *)
Connect ==
  /\ call.at = "connect"
  /\ connected' = up
  /\ IF up
     THEN /\ link' = NewLink /\ UNCHANGED <<kept, mistaken, clash, writes>>
          /\ IF call.request = NoRequest THEN TakeNext
             ELSE call' = [call EXCEPT !.at = "send"] /\ UNCHANGED queue
     ELSE link' = NoLink /\ GiveUp
  /\ UNCHANGED <<async, partition, up, world, overtaken, calls, crashes, faults>>

Send ==
  /\ call.at = "send" /\ (link.open => Len(link.requests) < MaxAhead)
  /\ IF link.open
     THEN /\ link' = [link EXCEPT !.requests = Append(@, call.request)]
          /\ call' = [call EXCEPT !.at = "wait"]
          /\ UNCHANGED <<connected, backlog>>
     ELSE Broken /\ UNCHANGED link
  /\ UNCHANGED <<async, partition, up, world, overtaken, calls, crashes, faults>>

(* What a call does with the status it takes for its own: an OK confirms the *)
(* write it submitted, also on a connection out of step, where it answers    *)
(* for something else.                                                       *)
MutBelieve(status) ==
  /\ IF call.op = "flush" /\ status # "OK" THEN GiveUp
     ELSE Return /\ UNCHANGED backlog
  /\ partition' = IF call.op = "select" THEN call.request.part ELSE partition
Confirm(e) ==
  /\ kept' = IF call.op = "sync" THEN AnswerFor(e) ELSE kept
  /\ mistaken' = IF link.late /\ mistaken[e.point] < e.stamp
                 THEN [mistaken EXCEPT ![e.point] = e.stamp] ELSE mistaken
Believe(status) ==
  IF status = "OK"
  THEN /\ IF call.op = "flush" /\ queue # <<>> THEN TakeNext ELSE Return /\ UNCHANGED queue
       /\ partition' = IF call.op = "select" THEN call.request.part ELSE partition
       /\ IF call.request.op = "write" THEN Confirm(call.request.entry)
          ELSE UNCHANGED <<kept, mistaken>>
       /\ UNCHANGED <<clash, writes>>
  ELSE GiveUp /\ UNCHANGED partition

Receive ==
  /\ call.at = "wait" /\ ~ link.late /\ link.replies # <<>>
  /\ Believe(Head(link.replies))
  /\ \E over \in BOOLEAN :       \* irtcli_list_in: n > cap, the body is left unread
       /\ over => call.op = "list" /\ PartitionAllowed(call.request.part)
       /\ link' = [link EXCEPT !.replies = Tail(@), !.late = over]
  /\ UNCHANGED <<async, connected, up, world, overtaken, calls, crashes, faults>>

(* Out of step: anything may be read as the header, or nothing ends the body *)
(* the call believes in, until the connection goes.                          *)
ReceiveLate ==
  /\ call.at = "wait" /\ link.late
  /\ \E status \in Statuses : Believe(status)
  /\ UNCHANGED <<async, connected, link, up, world, overtaken, calls, crashes, faults>>

ReceiveEnd ==
  /\ call.at = "wait" /\ ~ link.open /\ (link.late \/ link.replies = <<>>)
  /\ Broken
  /\ UNCHANGED <<async, partition, link, up, world, overtaken, calls, crashes, faults>>

-----------------------------------------------------------------------------
(* The daemon, one thread: a request takes effect, and is answered then. *)

Pending == up /\ ~ stalled /\ link.open /\ link.requests # <<>> /\ link.done = "none"
MayWrite(p) == Allows(Uid, link.part, p) /\ PartitionAllowed(link.part)

(* op_write: the policy and the whitelist refuse first, then the library. *)
ServeWrite ==
  /\ Pending /\ Head(link.requests).op = "write"
  /\ LET e == Head(link.requests).entry
         status == IF ~ MayWrite(e.point) THEN "DENIED"
                   ELSE IF e \in Rejected THEN "ERROR" ELSE "OK"
     IN  /\ link' = [link EXCEPT !.done = status]
         /\ IF status = "OK"
            THEN /\ value' = [value EXCEPT ![e.point] = e.stamp]
                 /\ newest' = [newest EXCEPT ![e.point] = IF @ < e.stamp THEN e.stamp ELSE @]
            ELSE UNCHANGED <<value, newest>>
  /\ UNCHANGED <<client, call, up, stalled, ghosts, bounds>>

(* op_select, and the requests that only read: irtcli_list_in is answered    *)
(* with an empty list outside the whitelist.                                 *)
ServeOther ==
  /\ Pending
  /\ LET r == Head(link.requests) IN
     CASE r.op = "select" /\ PartitionAllowed(r.part) ->
            link' = [link EXCEPT !.part = r.part, !.done = "OK"]
       [] r.op = "select" /\ ~ PartitionAllowed(r.part) -> link' = [link EXCEPT !.done = "DENIED"]
       [] r.op = "list" -> link' = [link EXCEPT !.done = "OK"]
       [] r.op = "ask" -> \E status \in {"OK", "ERROR"} : link' = [link EXCEPT !.done = status]
       [] OTHER -> FALSE
  /\ UNCHANGED <<client, call, up, world, ghosts, bounds>>

MutReply ==
  /\ up /\ ~ stalled /\ link.open /\ link.done \notin {"none", "DENIED"}
  /\ link' = [link EXCEPT !.requests = Tail(@), !.done = "none", !.replies = Append(@, link.done)]
  /\ UNCHANGED <<client, call, up, world, ghosts, bounds>>
Reply ==
  /\ up /\ ~ stalled /\ link.open /\ link.done # "none"
  /\ link' = [link EXCEPT !.requests = Tail(@), !.done = "none",
                          !.replies = IF link.late THEN <<>> ELSE Append(@, link.done)]
  /\ UNCHANGED <<client, call, up, world, ghosts, bounds>>

(* do_write fails for once: the point's lock timed out. *)
FailWrite ==
  /\ Pending /\ Head(link.requests).op = "write" /\ MayWrite(Head(link.requests).entry.point)
  /\ Head(link.requests).entry \notin Rejected
  /\ faults < MaxFaults /\ faults' = faults + 1
  /\ link' = [link EXCEPT !.done = "ERROR"]
  /\ call' = [call EXCEPT !.calm = FALSE]
  /\ UNCHANGED <<client, up, world, ghosts, writes, calls, crashes>>

(* The daemon closes the connection: no slot is free for it. *)
TurnAway ==
  /\ up /\ ~ stalled /\ link.open /\ faults < MaxFaults /\ faults' = faults + 1
  /\ link' = [link EXCEPT !.open = FALSE]
  /\ call' = [call EXCEPT !.calm = FALSE]
  /\ UNCHANGED <<client, up, world, ghosts, writes, calls, crashes>>

(* Another client sends half a request, or does not read the reply sent to   *)
(* it: recv_all and send_all have no timeout, and wait for as long as it     *)
(* likes.                                                                    *)
Stall ==
  /\ up /\ ~ stalled /\ stalled' = TRUE /\ link.done = "none"
  /\ faults < MaxFaults /\ faults' = faults + 1
  /\ UNCHANGED <<client, call, link, up, value, newest, ghosts, writes, calls, crashes>>
Resume ==
  /\ stalled /\ stalled' = FALSE
  /\ UNCHANGED <<client, call, link, up, value, newest, ghosts, bounds>>

(* The worker dies: the segment stays, and so do the replies already sent. *)
Crash ==
  /\ up /\ crashes < MaxCrashes /\ crashes' = crashes + 1
  /\ up' = FALSE /\ stalled' = FALSE /\ link' = [link EXCEPT !.open = FALSE]
  /\ call' = [call EXCEPT !.calm = FALSE]
  /\ UNCHANGED <<client, value, newest, ghosts, writes, calls, faults>>

(* main, over a policy file that loads. *)
Start ==
  /\ ~ up /\ PolicyLoads /\ up' = TRUE
  /\ UNCHANGED <<client, call, link, world, ghosts, bounds>>

-----------------------------------------------------------------------------
ControlCalls ==
  \/ \E q \in Partitions : Control("select", q) \/ Control("list", q)
  \/ Control("ask", 0)
Daemon ==
  \/ ServeWrite \/ ServeOther \/ Reply \/ FailWrite \/ TurnAway
  \/ Stall \/ Resume \/ Crash \/ Start
Next ==
  \/ \E p \in Points : WriteAsync(p) \/ WriteSync(p)
  \/ Flush \/ ControlCalls \/ Reopen \/ \E mode \in BOOLEAN : SetAsync(mode)
  \/ Connect \/ Send \/ Receive \/ ReceiveLate \/ ReceiveEnd
  \/ Daemon

(* The application flushes periodically, its calls run, the supervisor       *)
(* brings the daemon back, and the daemon serves its connections while it    *)
(* does not stand still.  What holds it up need never end.                   *)
Fairness ==
  /\ WF_vars(Flush) /\ WF_vars(Connect \/ Send \/ Receive \/ ReceiveEnd)
  /\ WF_vars(ServeWrite \/ ServeOther \/ Reply) /\ WF_vars(Start)
Spec == Init /\ [][Next]_vars /\ Fairness

-----------------------------------------------------------------------------
TypeOK ==
  /\ queue \in Seq(Entry) /\ partition \in Partitions
  /\ {async, connected, up, stalled} \subseteq BOOLEAN
  /\ call \in [op : {"idle", "flush", "sync", "select", "list", "ask"},
               at : {"idle", "connect", "send", "wait"}, request : Request,
               try : {1, 2}, calm : BOOLEAN]
  /\ link \in [open : BOOLEAN, part : Partitions, requests : Seq(Request),
               done : Statuses \cup {"none"}, replies : Seq(Statuses), late : BOOLEAN]
  /\ {value, newest, kept, mistaken} \subseteq [Points -> Stamps]
  /\ overtaken \subseteq Points /\ clash \in BOOLEAN
  /\ writes \in Stamps /\ {calls, crashes, faults} \subseteq Nat

Entries == {queue[i] : i \in DOMAIN queue} \cup ({InHand} \ {NoEntry})

\* A write the client answered for is in the database, or queued, or a later write
\* of its point is: irtcli_flush takes an entry off the queue only for an OK, whatever
\* dies in between.  Two writes are excepted.  One is the write an alert callback makes
\* while the entry is in neither place, which may take its slot.  The other is one that
\* was submitted on a connection out of step, where the OK may be that of another
\* request (irtcli_list_in leaves a list too long for its caller unread).
NothingDropped ==
  clash \/ \A p \in Points :
    \/ kept[p] <= newest[p] \/ kept[p] <= mistaken[p]
    \/ \E e \in Entries : e.point = p /\ kept[p] <= e.stamp

\* The queue has room for what irtcli_flush holds in its hand, and a point is in the
\* queue or the hand once: a second write of it was merged into the first.
QueueSound ==
  LET q == IF InHand = NoEntry THEN queue ELSE <<InHand>> \o queue IN
  \/ clash
  \/ /\ Len(q) <= Cap
     /\ \A i, j \in DOMAIN q : q[i].point = q[j].point => i = j

\* Replaying the queue never puts an older value over a newer one, though an entry
\* whose reply was lost is submitted again: only a synchronous write that overtook
\* the queue is overwritten by what it overtook.
NeverBack ==
  [][\A p \in Points : value'[p] < value[p] => clash \/ p \in overtaken]_vars

\* A connection in step is in the partition the client believes it selected, or,
\* after the reconnect that irtcli_connect makes without a SELECT, in partition 0.
PartitionKnown ==
  link.open /\ ~ link.late =>
    \/ link.part \in {0, partition}
    \/ call.op = "select" /\ call.at = "wait" /\ link.part = call.request.part

\* One flush replays the whole queue over a daemon that is up, even when it begins on
\* the connection of before a restart (irtcli_flush, the second submit): it leaves an
\* entry behind only for a reply that is not OK.
Refused == call.at = "wait" /\ (link.late \/ (link.replies # <<>> /\ Head(link.replies) # "OK"))
OneFlushReplays ==
  [][(call.op = "flush" /\ call.calm /\ call' = Idle) => (queue' = <<>> \/ Refused)]_vars

\* A call returns, over any deaths and refusals of the daemon, as long as no other
\* client keeps its thread for good: recv_all has no timeout.  Only a connection out
\* of step can keep the call then.
Unblocked == <>[] ~ stalled
CallsReturn == Unblocked => ((call # Idle) ~> (call = Idle \/ link.late))

\* A queued write reaches the database once the daemon is back and its thread is not
\* kept for good, unless the head of the queue is a write the daemon refuses, by its
\* policy or by what its library takes, at which every flush stops, or the connection
\* is out of step, which no call repairs.
Hopeless(e) == ~ MayWrite(e.point) \/ e \in Rejected
Stuck == link.late \/ (queue # <<>> /\ Hopeless(Head(queue)))
QueueDrains == Unblocked => ((Entries # {}) ~> (Entries = {} \/ Stuck))

=============================================================================
