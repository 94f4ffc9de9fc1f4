---------------------------- MODULE NotifyDaemon ----------------------------
(***************************************************************************)
(* The connections of an rtdbd worker and the change notifications it sends *)
(* over them (rtdbd.c, rbe.c).  One thread polls the sockets: it accepts a *)
(* connection, flushes the queue of a writable one, or reads one request   *)
(* and runs its handler.  A handler sends its reply with a blocking        *)
(* send_all, so the reply is a step of its own: until it is sent, or the   *)
(* peer turns out to be gone, the thread does nothing else.  poll reports  *)
(* the ready sockets in any combination: the steps come in any order.      *)
(* A socket is the number of units its kernel buffer still takes; a        *)
(* notification frame is FrameLen units and may be sent in pieces, a reply *)
(* is one unit.  A notification is the number of the write it announces.   *)
(***************************************************************************)
EXTENDS Naturals, Sequences, FiniteSets

CONSTANTS Conns,        \* the slots of g_conns (RTDBD_MAX_CLIENTS), numbers
          Points,       \* point ids that clients name
          Values,       \* numeric values they write
          Partitions,   \* partitions they select; a connection starts in 0
          Permitted,    \* <<partition, point>> that policy and white list allow
          Meta,         \* [Points -> deadband, EURange and their flags]
          SubMax,       \* RTDBD_SUB_MAX, also RTDBD_RBE_MAX
          Cap,          \* RTDBD_OUTQ_CAP
          FrameLen,     \* units of a notification frame
          BufCap,       \* units a socket buffer holds
          MaxWrites,    \* bound: stored writes
          MaxAsks       \* bound: requests

ASSUME NotifyBounds ==
  /\ Conns \subseteq Nat /\ Points \subseteq Nat /\ Values \subseteq Nat
  /\ 0 \in Partitions /\ Partitions \subseteq Nat
  /\ SubMax \in Nat \ {0} /\ Cap \in Nat \ {0} /\ FrameLen \in Nat \ {0}
  /\ BufCap \in Nat \ {0} /\ MaxWrites \in Nat /\ MaxAsks \in Nat
ASSUME NotifyMeta ==
  Meta \in [Points -> [rbe : BOOLEAN, deadband : Nat, eur : BOOLEAN, lo : Nat, hi : Nat]]

VARIABLES mode,     \* "serving", "draining" after a signal, "stopped"
          peer,     \* each slot: "none" (fd < 0), "up", or "gone" (peer closed)
          asked,    \* a request of the peer waits in the socket
          asks,     \* requests so far
          room,     \* units the socket buffer still takes
          part,     \* conn->partition
          subs,     \* conn->subs, a set
          rbe,      \* conn->rbe.slots
          outq,     \* conn->outq, oldest first
          sent,     \* conn->outq_sent
          value,    \* the stored value of each point
          writes,   \* the number of the last write
          job,      \* the reply the running handler has to send
          \* history, read by no action:
          stream,   \* the frame begun on the stream: its write, units sent
          passed,   \* notifications that passed the gate, per slot
          delivered,\* notifications sent whole
          dropped,  \* what notify_drop counts
          due,      \* points subscribed and not announced since
          told,     \* the last notification of each point that was queued
          lost,     \* points whose last notification was refused or evicted
          silent    \* points whose last write its subscribers were not told

sockets == <<peer, asked, asks, room>>
gate == <<subs, rbe, due, told, lost>>
queue == <<outq, sent, stream, passed, delivered, dropped>>
store == <<value, writes, silent>>
vars == <<mode, sockets, part, gate, queue, store, job>>

-----------------------------------------------------------------------------
(* Report by exception: rbe.c and the comparisons of irt_semantics.c. *)

EmptySlot == [id |-> 0, valid |-> FALSE, last |-> 0]
Slots == [1 .. SubMax -> [id : Nat, valid : BOOLEAN, last : Nat]]

First(S) == CHOOSE i \in S : \A j \in S : i <= j

(* rbe_clear: the first slot with that id, whether it is in use or not. *)
MutRbeClear(s, p) == s                              \* unsubscribing leaves the slot
RbeClear(s, p) ==
  LET hits == {i \in DOMAIN s : s[i].id = p} IN
  IF hits = {} THEN s
  ELSE [s EXCEPT ![First(hits)] = [id |-> 0, valid |-> FALSE, last |-> @.last]]

(* The slot rbe_decide works on: the first with that id, else the first free *)
(* one; 0 if there is none.                                                  *)
RbeIndex(s, p) ==
  LET hits == {i \in DOMAIN s : s[i].id = p}
      free == {i \in DOMAIN s : s[i].id = 0 /\ ~s[i].valid}
  IN IF hits # {} THEN First(hits) ELSE IF free # {} THEN First(free) ELSE 0

Apart(a, b) == IF a > b THEN a - b ELSE b - a
Band(p, v) ==
  IF v < Meta[p].lo THEN "low" ELSE IF v > Meta[p].hi THEN "high" ELSE "none"

(* Worth telling: no gate is configured, or the deadband or a limit of the   *)
(* EURange is crossed.                                                       *)
Exceeds(p, old, new) ==
  \/ ~Meta[p].rbe /\ ~Meta[p].eur
  \/ Meta[p].rbe /\ Apart(old, new) > Meta[p].deadband
  \/ Meta[p].eur /\ Band(p, old) # Band(p, new)

RbeSends(s, p, v) ==
  LET i == RbeIndex(s, p) IN
  i = 0 \/ ~s[i].valid \/ Exceeds(p, s[i].last, v)

MutRbeAfter(s, p, v) ==                             \* remembers what it suppressed
  LET i == RbeIndex(s, p) IN
  IF i = 0 THEN s ELSE [s EXCEPT ![i] = [id |-> p, valid |-> TRUE, last |-> v]]
RbeAfter(s, p, v) ==
  LET i == RbeIndex(s, p) IN
  IF i = 0 \/ ~RbeSends(s, p, v) THEN s
  ELSE [s EXCEPT ![i] = [id |-> p, valid |-> TRUE, last |-> v]]

-----------------------------------------------------------------------------
(* The bounded queue: when it is full the oldest goes, unless a part of it   *)
(* is already on the stream: then the new one is not taken.                  *)

MutFull(q) == Len(q) > Cap                          \* one slot too many
Full(q) == Len(q) = Cap
MutRefuses(q, started) == FALSE                     \* evicts a frame half sent
Refuses(q, started) == Full(q) /\ started > 0
MutPush(q, started, n) ==                           \* evicts without moving the head
  IF Refuses(q, started) THEN q
  ELSE IF Full(q) THEN [q EXCEPT ![1] = n] ELSE Append(q, n)
Push(q, started, n) ==
  IF Refuses(q, started) THEN q ELSE Append(IF Full(q) THEN Tail(q) ELSE q, n)
Loses(q) == IF Full(q) THEN 1 ELSE 0

-----------------------------------------------------------------------------
NoJob == [conn |-> 0, after |-> "none", point |-> 0]
NoFrame == [at |-> 0, done |-> 0]
Nothing == [write |-> 0, value |-> 0]
Notes == [write : Nat, value : Nat]

Init ==
  /\ mode = "serving"
  /\ peer = [c \in Conns |-> "none"] /\ asked = [c \in Conns |-> FALSE] /\ asks = 0
  /\ room = [c \in Conns |-> BufCap]
  /\ part = [c \in Conns |-> 0]
  /\ subs = [c \in Conns |-> {}]
  /\ rbe = [c \in Conns |-> [i \in 1 .. SubMax |-> EmptySlot]]
  /\ outq = [c \in Conns |-> <<>>] /\ sent = [c \in Conns |-> 0]
  /\ value = [p \in Points |-> 0] /\ writes = 0
  /\ job = NoJob
  /\ stream = [c \in Conns |-> NoFrame]
  /\ passed = [c \in Conns |-> 0] /\ delivered = [c \in Conns |-> 0]
  /\ dropped = [c \in Conns |-> 0]
  /\ due = [c \in Conns |-> {}] /\ told = [c \in Conns |-> [p \in Points |-> Nothing]]
  /\ lost = [c \in Conns |-> {}]
  /\ silent = {}

-----------------------------------------------------------------------------
(* The peers. *)

Ask(c) ==
  /\ peer[c] = "up" /\ ~asked[c] /\ asks < MaxAsks /\ mode = "serving"
  /\ asked' = [asked EXCEPT ![c] = TRUE] /\ asks' = asks + 1
  /\ UNCHANGED <<mode, peer, room, part, gate, queue, store, job>>

Receive(c) ==
  /\ peer[c] = "up" /\ room[c] < BufCap
  /\ room' = [room EXCEPT ![c] = @ + 1]
  /\ UNCHANGED <<mode, peer, asked, asks, part, gate, queue, store, job>>

Leave(c) ==
  /\ peer[c] = "up"
  /\ peer' = [peer EXCEPT ![c] = "gone"]
  /\ UNCHANGED <<mode, asked, asks, room, part, gate, queue, store, job>>

-----------------------------------------------------------------------------
(* Accepting and closing. *)

Polling == mode = "serving" /\ job = NoJob

(* conn_init: a slot starts without partition, subscriptions, gate or queue. *)
MutConnInit(c) ==                                   \* subscriptions stay behind
  /\ part' = [part EXCEPT ![c] = 0]
  /\ outq' = [outq EXCEPT ![c] = <<>>] /\ sent' = [sent EXCEPT ![c] = 0]
  /\ stream' = [stream EXCEPT ![c] = NoFrame]
  /\ UNCHANGED <<subs, rbe, due>>
ConnInit(c) ==
  /\ part' = [part EXCEPT ![c] = 0]
  /\ subs' = [subs EXCEPT ![c] = {}] /\ due' = [due EXCEPT ![c] = {}]
  /\ rbe' = [rbe EXCEPT ![c] = [i \in 1 .. SubMax |-> EmptySlot]]
  /\ outq' = [outq EXCEPT ![c] = <<>>] /\ sent' = [sent EXCEPT ![c] = 0]
  /\ stream' = [stream EXCEPT ![c] = NoFrame]

(* The first free slot.  (With no slot free the connection is closed at once.) *)
Accept(c) ==
  /\ Polling /\ asks < MaxAsks
  /\ peer[c] = "none" /\ \A d \in Conns : peer[d] = "none" => c <= d
  /\ ConnInit(c)
  /\ peer' = [peer EXCEPT ![c] = "up"]
  /\ room' = [room EXCEPT ![c] = BufCap]
  /\ UNCHANGED <<mode, asked, asks, told, lost, passed, delivered, dropped, store, job>>

(* conn_discard_outq counts what is thrown away. *)
MutDiscarded(c) == 0                                \* nobody counts it
Discarded(c) == Len(outq[c])

(* close, conn_discard_outq, conn_init. *)
Close(c) ==
  /\ dropped' = [dropped EXCEPT ![c] = @ + Discarded(c)]
  /\ ConnInit(c)
  /\ peer' = [peer EXCEPT ![c] = "none"] /\ asked' = [asked EXCEPT ![c] = FALSE]
  /\ UNCHANGED <<asks, room, told, lost, passed, delivered>>

(* recv finds the peer gone. *)
HangUp(c) ==
  /\ Polling /\ peer[c] = "gone"
  /\ Close(c)
  /\ UNCHANGED <<mode, store, job>>

(* A request of another protocol version is not answered. *)
WrongVersion(c) ==
  /\ Polling /\ peer[c] = "up" /\ asked[c]
  /\ Close(c)
  /\ UNCHANGED <<mode, store, job>>

-----------------------------------------------------------------------------
(* outq_flush: any number of units the buffer takes, across frames. *)

(* The stream after k more units of c's queue. *)
Flushed(c, k) ==
  LET units == sent[c] + k
      whole == units \div FrameLen
      rest == units % FrameLen
  IN /\ outq' = [outq EXCEPT ![c] = SubSeq(@, whole + 1, Len(@))]
     /\ sent' = [sent EXCEPT ![c] = rest]
     /\ delivered' = [delivered EXCEPT ![c] = @ + whole]
     /\ stream' = [stream EXCEPT ![c] =
          IF rest = 0 THEN NoFrame
          ELSE [at |-> IF whole = 0 /\ sent[c] > 0 THEN @.at ELSE outq[c][whole + 1],
                done |-> rest]]
     /\ UNCHANGED <<passed, dropped>>

(* POLLOUT: the buffer has some room, not necessarily for a whole frame. *)
MutWritable(c) == room[c] >= FrameLen               \* waits for a whole frame's
Writable(c) == room[c] > 0

Flush(c) ==
  /\ job = NoJob /\ mode # "stopped" /\ outq[c] # <<>>
  /\ \/ /\ peer[c] = "up" /\ Writable(c)
        /\ \E k \in 1 .. room[c] :
             /\ sent[c] + k <= FrameLen * Len(outq[c])
             /\ Flushed(c, k)
             /\ room' = [room EXCEPT ![c] = @ - k]
        /\ UNCHANGED <<peer, asked, asks, part, gate>>
     \/ /\ peer[c] = "gone" /\ mode = "serving"
        /\ Close(c)
     \/ /\ peer[c] = "gone" /\ mode = "draining"
        /\ dropped' = [dropped EXCEPT ![c] = @ + Discarded(c)]
        /\ outq' = [outq EXCEPT ![c] = <<>>] /\ sent' = [sent EXCEPT ![c] = 0]
        /\ stream' = [stream EXCEPT ![c] = NoFrame]
        /\ UNCHANGED <<sockets, part, gate, passed, delivered>>
  /\ UNCHANGED <<mode, store, job>>

-----------------------------------------------------------------------------
(* Requests.  A handler ends in a reply, and then keeps the connection,      *)
(* closes it, or announces the write.                                        *)

Handle(c, after, p) ==
  /\ Polling /\ peer[c] # "none" /\ asked[c]
  /\ asked' = [asked EXCEPT ![c] = FALSE]
  /\ job' = [conn |-> c, after |-> after, point |-> p]
  /\ UNCHANGED <<mode, peer, asks, room, queue>>

(* PING, GET, LIST, HEALTH and the other requests without an effect here. *)
Query(c) == Handle(c, "keep", 0) /\ UNCHANGED <<part, gate, store>>

(* An unknown opcode or a wrong length is answered BAD_REQUEST. *)
BadRequest(c) == Handle(c, "close", 0) /\ UNCHANGED <<part, gate, store>>

Select(c, q) ==
  /\ Handle(c, "keep", 0)
  /\ part' = [part EXCEPT ![c] = q]
  /\ UNCHANGED <<gate, store>>

Subscribe(c, p) ==
  /\ Handle(c, "keep", 0)
  /\ \/ /\ p \notin subs[c] /\ Cardinality(subs[c]) < SubMax
        /\ subs' = [subs EXCEPT ![c] = @ \cup {p}]
        /\ due' = [due EXCEPT ![c] = @ \cup {p}]
     \/ /\ p \in subs[c] \/ Cardinality(subs[c]) = SubMax
        /\ UNCHANGED <<subs, due>>
  /\ UNCHANGED <<rbe, told, lost, part, store>>

Unsubscribe(c, p) ==
  /\ Handle(c, "keep", 0)
  /\ rbe' = [rbe EXCEPT ![c] = RbeClear(@, p)]
  /\ subs' = [subs EXCEPT ![c] = @ \ {p}]
  /\ due' = [due EXCEPT ![c] = @ \ {p}]
  /\ UNCHANGED <<told, lost, part, store>>

(* DENIED, an unsupported type, or a library error (busy, read-only). *)
WriteRefused(c) == Handle(c, "keep", 0) /\ UNCHANGED <<part, gate, store>>

Write(c, p, v) ==
  /\ <<part[c], p>> \in Permitted /\ writes < MaxWrites
  /\ Handle(c, "announce", p)
  /\ value' = [value EXCEPT ![p] = v] /\ writes' = writes + 1
  /\ UNCHANGED <<silent, part, gate>>

-----------------------------------------------------------------------------
(* The reply, and what follows it. *)

(* notify_broadcast: every subscriber whose gate lets the value through. *)
Hears(c, p) == peer[c] # "none" /\ p \in subs[c]
Passes(c, p) == Hears(c, p) /\ RbeSends(rbe[c], p, value[p])

(* The gate has moved before outq_push decides: a notification that is then  *)
(* refused, or evicted later, was never sent, and nothing takes the gate back. *)
Enqueues(c) == ~Refuses(outq[c], sent[c])
Evicted(c) == IF Full(outq[c]) THEN {q \in Points : told[c][q].write = Head(outq[c])} ELSE {}

Broadcast(p) ==
  /\ rbe' = [c \in Conns |-> IF Hears(c, p) THEN RbeAfter(rbe[c], p, value[p]) ELSE rbe[c]]
  /\ outq' = [c \in Conns |-> IF Passes(c, p) THEN Push(outq[c], sent[c], writes) ELSE outq[c]]
  /\ dropped' = [c \in Conns |-> IF Passes(c, p) THEN dropped[c] + Loses(outq[c]) ELSE dropped[c]]
  /\ passed' = [c \in Conns |-> IF Passes(c, p) THEN passed[c] + 1 ELSE passed[c]]
  /\ due' = [c \in Conns |-> IF Passes(c, p) THEN due[c] \ {p} ELSE due[c]]
  /\ told' = [c \in Conns |->
                IF Passes(c, p) /\ Enqueues(c)
                THEN [told[c] EXCEPT ![p] = [write |-> writes, value |-> value[p]]] ELSE told[c]]
  /\ lost' = [c \in Conns |->
                IF ~Passes(c, p) THEN lost[c]
                ELSE IF Enqueues(c) THEN (lost[c] \cup Evicted(c)) \ {p} ELSE lost[c] \cup {p}]
  /\ silent' = silent \ {p}
  /\ UNCHANGED <<subs, sent, stream, delivered>>

Reply ==
  LET c == job.conn IN
  /\ job # NoJob
  /\ job' = NoJob
  /\ \/ /\ peer[c] = "up" /\ room[c] > 0
        /\ \/ /\ job.after = "keep"
              /\ room' = [room EXCEPT ![c] = @ - 1]
              /\ UNCHANGED <<peer, asked, asks, part, gate, queue, silent>>
           \/ /\ job.after = "announce"
              /\ room' = [room EXCEPT ![c] = @ - 1]
              /\ Broadcast(job.point)
              /\ UNCHANGED <<peer, asked, asks, part>>
           \/ /\ job.after = "close"
              /\ Close(c)
              /\ UNCHANGED silent
     \/ /\ peer[c] = "gone"                          \* send_all fails
        /\ Close(c)
        /\ silent' = IF /\ job.after = "announce"
                        /\ \E d \in Conns \ {c} : Hears(d, job.point)
                     THEN silent \cup {job.point} ELSE silent
  /\ UNCHANGED <<mode, value, writes>>

-----------------------------------------------------------------------------
(* Shutdown: flush for a while, then discard and close whatever is left. *)

Stop ==
  /\ Polling /\ mode' = "draining"
  /\ UNCHANGED <<sockets, part, gate, queue, store, job>>

Finish ==
  /\ mode = "draining" /\ mode' = "stopped"
  /\ dropped' = [c \in Conns |-> dropped[c] + Discarded(c)]
  /\ outq' = [c \in Conns |-> <<>>] /\ sent' = [c \in Conns |-> 0]
  /\ stream' = [c \in Conns |-> NoFrame]
  /\ peer' = [c \in Conns |-> "none"]
  /\ UNCHANGED <<asked, asks, room, part, gate, passed, delivered, store, job>>

-----------------------------------------------------------------------------
Request(c) ==
  \/ Query(c) \/ BadRequest(c) \/ WriteRefused(c)
  \/ \E q \in Partitions : Select(c, q)
  \/ \E p \in Points : \/ Subscribe(c, p) \/ Unsubscribe(c, p)
                       \/ \E v \in Values : Write(c, p, v)

Next ==
  \/ \E c \in Conns : \/ Ask(c) \/ Receive(c) \/ Leave(c)
                      \/ Accept(c) \/ HangUp(c) \/ WrongVersion(c) \/ Flush(c) \/ Request(c)
  \/ Reply \/ Stop \/ Finish

(* The worker keeps polling and every round visits every ready connection:   *)
(* a reply is sent once it can be, a closed peer is noticed, a writable      *)
(* socket is flushed.  A peer that stays reads what was sent to it.          *)
Fairness ==
  /\ WF_vars(Reply)
  /\ \A c \in Conns : SF_vars(Flush(c)) /\ SF_vars(HangUp(c)) /\ WF_vars(Receive(c))

Spec == Init /\ [][Next]_vars /\ Fairness

-----------------------------------------------------------------------------
(* Properties. *)

\* The shape of the state: at most Cap notifications in a queue, a frame sent in
\* part is shorter than a frame, and a buffer never holds more than it can.
TypeOK ==
  /\ mode \in {"serving", "draining", "stopped"}
  /\ peer \in [Conns -> {"none", "up", "gone"}] /\ asked \in [Conns -> BOOLEAN]
  /\ asks \in Nat /\ room \in [Conns -> 0 .. BufCap]
  /\ part \in [Conns -> Partitions] /\ subs \in [Conns -> SUBSET Points]
  /\ rbe \in [Conns -> Slots]
  /\ outq \in [Conns -> Seq(Nat)] /\ \A c \in Conns : Len(outq[c]) <= Cap
  /\ sent \in [Conns -> 0 .. FrameLen - 1]
  /\ value \in [Points -> Nat] /\ writes \in Nat
  /\ job \in [conn : Nat, after : {"none", "keep", "close", "announce"}, point : Nat]
  /\ stream \in [Conns -> [at : Nat, done : 0 .. FrameLen - 1]]
  /\ passed \in [Conns -> Nat] /\ delivered \in [Conns -> Nat] /\ dropped \in [Conns -> Nat]
  /\ due \in [Conns -> SUBSET Points] /\ told \in [Conns -> [Points -> Notes]]
  /\ lost \in [Conns -> SUBSET Points]
  /\ silent \subseteq Points

\* outq_push never evicts the frame outq_flush has begun: what is on the stream in
\* part is the head of the queue, up to outq_sent, so no frame is the beginning of
\* one notification and the end of another.
FramesWhole ==
  \A c \in Conns :
    \/ sent[c] = 0 /\ stream[c] = NoFrame
    \/ sent[c] > 0 /\ outq[c] # <<>> /\ stream[c] = [at |-> Head(outq[c]), done |-> sent[c]]

\* No notification disappears unseen (conn_discard_outq): each one that passed the
\* gate was sent whole, waits in the queue or is counted in notify_drop, whatever
\* evictions, closed peers and shutdown did.
NothingLostSilently ==
  \A c \in Conns : passed[c] = delivered[c] + Len(outq[c]) + dropped[c]

\* Queues keep the order of the writes, and hold no write twice.
QueuesInOrder ==
  \A c \in Conns : /\ \A i, j \in DOMAIN outq[c] : i < j => outq[c][i] < outq[c][j]
                   /\ \A i \in DOMAIN outq[c] : outq[c][i] <= writes

\* A free slot holds no subscription (conn_table_check), no gate and no queue for
\* the next peer that gets it.
FreeSlotsClean ==
  mode # "stopped" =>
    \A c \in Conns : peer[c] = "none" =>
       /\ subs[c] = {} /\ outq[c] = <<>> /\ part[c] = 0
       /\ \A i \in DOMAIN rbe[c] : rbe[c][i] = EmptySlot

\* notify_broadcast runs for the write of the reply just sent.
Announces(p) ==
  job.after = "announce" /\ job.point = p /\ job' = NoJob /\ peer[job.conn] = "up"

\* The first value of a point after a subscription, and after a new one that follows
\* an unsubscription, always passes the gate: nothing is remembered of the old one.
FirstValueSent ==
  [][\A c \in Conns, p \in Points :
        Announces(p) /\ p \in due[c] /\ peer[c] # "none" => passed'[c] = passed[c] + 1]_vars

\* The gate never lets a subscriber drift: the value of the last notification that
\* was queued for it, and is sent or still waits, stays within the deadband and on
\* the same side of the EURange of the stored value, although each write is compared
\* with what passed last and not with the write before it.  Excepted are a point
\* whose last notification the full queue refused or evicted (counted in notify_drop:
\* the gate remembers it as told, rtdbd.c:310, so values near it are suppressed), and
\* one whose last write was not announced (silent).
KnownWithinDeadband ==
  \A c \in Conns : \A p \in subs[c] \ (due[c] \cup silent \cup lost[c]) :
    peer[c] = "up" /\ ~(job.after = "announce" /\ job.point = p) =>
       ~Exceeds(p, told[c][p].value, value[p]) \/ told[c][p].value = value[p]

\* A queued notification leaves the queue, by being sent or counted as dropped, if
\* its connection stops asking: no frame is stuck half way.
QueuedLeaves ==
  \A c \in Conns : \A n \in 1 .. MaxWrites :
    (n \in {outq[c][i] : i \in DOMAIN outq[c]})
       ~> (asked[c] \/ n \notin {outq[c][i] : i \in DOMAIN outq[c]})

-----------------------------------------------------------------------------
(* What a comment of the source promises and the code does not keep. *)

\* A peer never gets a frame it cannot parse (outq_push): the reply of a handler
\* does not land between the pieces of a notification.
RepliesBetweenFrames ==
  [][job # NoJob /\ job' = NoJob /\ peer[job.conn] = "up" => sent[job.conn] = 0]_vars

=============================================================================
