------------------------- MODULE WriteClient_proofs -------------------------
(***************************************************************************)
(* The write queue of the client loses nothing and holds a point once, the *)
(* client knows its partition, one flush replays the queue, and the        *)
(* database never goes back, for any number of points, calls, deaths and   *)
(* failures, and any length of the queue.                                  *)
(***************************************************************************)
EXTENDS WriteClient, TLAPS, SequenceTheorems

Written == {e \in Entry : e.stamp # 0}
InQueue(q, e) == \E i \in DOMAIN q : q[i] = e
Once(q) == \A i, j \in DOMAIN q : q[i].point = q[j].point => i = j

(* The queue and what a flush holds in its hand, together. *)
Sound(q, h) ==
  /\ Len(q) + (IF h = NoEntry THEN 0 ELSE 1) <= Cap
  /\ Once(q)
  /\ h # NoEntry => ~ Queued(q, h.point)

LEMMA WrittenFields ==
  ASSUME NEW e \in Written
  PROVE  e \in Entry /\ e.point \in Points /\ e.stamp \in Stamps /\ e.stamp \in Nat /\ e # NoEntry
  BY DEF Written, Entry, Stamps, NoEntry

LEMMA Numbers == Cap \in Nat /\ Cap > 0 /\ MaxWrites \in Nat /\ Points \subseteq Nat
  BY ClientValues

(* q_push keeps each point once and stays within the capacity. *)
LEMMA PushKeeps ==
  ASSUME NEW q \in Seq(Written), NEW e \in Written
  PROVE  /\ QPush(q, e) \in Seq(Written)
         /\ Len(q) <= Cap => Len(QPush(q, e)) <= Cap
         /\ Len(QPush(q, e)) = IF Queued(q, e.point) \/ Len(q) >= Cap THEN Len(q) ELSE Len(q) + 1
         /\ Once(q) => Once(QPush(q, e))
         /\ \A p : Queued(QPush(q, e), p) => Queued(q, p) \/ p = e.point
         /\ \A x : InQueue(q, x) /\ x.point # e.point => InQueue(QPush(q, e), x)
         /\ Room(q, e) => InQueue(QPush(q, e), e)
         /\ ~ Room(q, e) => QPush(q, e) = q
<1>0. Cap \in Nat /\ Len(q) \in Nat /\ DOMAIN q = 1 .. Len(q) /\ \A i \in 1 .. Len(q) : q[i] \in Written
  BY Numbers, LenProperties, ElementOfSeq
<1>1. CASE Queued(q, e.point)
  <2> DEFINE r == [i \in DOMAIN q |-> IF q[i].point = e.point THEN e ELSE q[i]]
  <2>1. QPush(q, e) = r
    BY <1>1 DEF QPush
  <2>2. r \in Seq(Written) /\ Len(r) = Len(q) /\ DOMAIN r = DOMAIN q
    <3>1. r \in [1 .. Len(q) -> Written]
      BY <1>0
    <3>2. QED
      BY <3>1, <1>0
  <2>3. \A i \in DOMAIN q : r[i].point = q[i].point /\ (r[i] = e \/ r[i] = q[i])
                            /\ (q[i].point = e.point => r[i] = e)
                            /\ (q[i].point # e.point => r[i] = q[i])
    OBVIOUS
  <2> HIDE DEF r
  <2>4. Once(q) => Once(r)
    BY <2>2, <2>3 DEF Once
  <2>5. \A p : Queued(r, p) => Queued(q, p)
    BY <2>2, <2>3 DEF Queued
  <2>6. \A x : InQueue(q, x) /\ x.point # e.point => InQueue(r, x)
    BY <2>2, <2>3 DEF InQueue
  <2>7. InQueue(r, e)
    BY <1>1, <2>2, <2>3 DEF InQueue, Queued
  <2>8. QED
    BY <1>0, <1>1, <2>1, <2>2, <2>4, <2>5, <2>6, <2>7 DEF Room
<1>2. CASE ~ Queued(q, e.point) /\ Len(q) < Cap
  <2> DEFINE r == Append(q, e)
  <2>1. QPush(q, e) = r
    BY <1>2 DEF QPush
  <2>2. /\ r \in Seq(Written) /\ Len(r) = Len(q) + 1 /\ DOMAIN r = 1 .. Len(q) + 1
        /\ r[Len(q) + 1] = e /\ \A i \in DOMAIN q : r[i] = q[i]
    BY <1>0, AppendProperties
  <2> HIDE DEF r
  <2>3. \A i \in DOMAIN r : i \in DOMAIN q \/ i = Len(q) + 1
    BY <1>0, <2>2
  <2>4. \A i \in DOMAIN q : q[i].point # e.point /\ i \in DOMAIN r
    BY <1>0, <1>2, <2>2 DEF Queued
  <2>5. Once(q) => Once(r)
    BY <2>2, <2>3, <2>4 DEF Once
  <2>6. \A p : Queued(r, p) => Queued(q, p) \/ p = e.point
    BY <2>2, <2>3 DEF Queued
  <2>7. (\A x : InQueue(q, x) => InQueue(r, x)) /\ InQueue(r, e)
    BY <1>0, <2>2, <2>4 DEF InQueue
  <2>8. QED
    BY <1>0, <1>2, <2>1, <2>2, <2>5, <2>6, <2>7 DEF Room
<1>3. CASE ~ Queued(q, e.point) /\ ~ (Len(q) < Cap)
  <2>1. QPush(q, e) = q
    BY <1>3 DEF QPush
  <2>2. ~ Room(q, e) /\ Len(q) >= Cap
    BY <1>0, <1>3 DEF Room
  <2>3. QED
    BY <1>0, <1>3, <2>1, <2>2
<1>4. QED
  BY <1>1, <1>2, <1>3

(* Taking the head into the hand, and putting what is in the hand back. *)
LEMMA TakeKeeps ==
  ASSUME NEW q \in Seq(Written), q # <<>>
  PROVE  /\ Head(q) \in Written /\ Tail(q) \in Seq(Written)
         /\ Sound(q, NoEntry) => Sound(Tail(q), Head(q))
         /\ \A x : InQueue(q, x) => InQueue(Tail(q), x) \/ x = Head(q)
<1>1. /\ Len(q) \in Nat /\ DOMAIN q = 1 .. Len(q) /\ \A i \in 1 .. Len(q) : q[i] \in Written
      /\ Len(q) # 0 /\ Head(q) = q[1]
  BY LenProperties, ElementOfSeq, EmptySeq
<1> DEFINE t == Tail(q)
<1>2. /\ t \in Seq(Written) /\ Len(t) = Len(q) - 1
      /\ \A i \in 1 .. Len(t) : t[i] = q[i + 1]
  BY <1>1, HeadTailProperties
<1> HIDE DEF t
<1>3. DOMAIN t = 1 .. Len(q) - 1 /\ \A i \in DOMAIN t : i + 1 \in DOMAIN q /\ t[i] = q[i + 1]
  BY <1>1, <1>2, LenProperties
<1>4. Head(q) \in Written /\ Head(q) # NoEntry
  BY <1>1, WrittenFields
<1>5. ASSUME Sound(q, NoEntry) PROVE Sound(t, Head(q))
  <2>1. Once(q) /\ Len(q) <= Cap
    BY <1>1, <1>5, Numbers DEF Sound
  <2>2. Once(t)
    BY <1>1, <1>3, <2>1 DEF Once
  <2>3. ~ Queued(t, Head(q).point)
    BY <1>1, <1>3, <2>1 DEF Once, Queued
  <2>4. QED
    BY <1>1, <1>2, <1>4, <2>1, <2>2, <2>3, Numbers DEF Sound
<1>6. ASSUME NEW i \in DOMAIN q PROVE InQueue(t, q[i]) \/ q[i] = Head(q)
  <2>1. CASE i = 1
    BY <1>1, <2>1
  <2>2. CASE i # 1
    <3>1. i - 1 \in DOMAIN t /\ t[i - 1] = q[i]
      BY <1>1, <1>3, <2>2
    <3>2. QED
      BY <3>1 DEF InQueue
  <2>3. QED
    BY <2>1, <2>2
<1>7. QED
  BY <1>2, <1>4, <1>5, <1>6 DEF t, InQueue

LEMMA ConsKeeps ==
  ASSUME NEW q \in Seq(Written), NEW h \in Written
  PROVE  /\ <<h>> \o q \in Seq(Written)
         /\ Len(<<h>> \o q) = Len(q) + 1
         /\ Once(q) /\ ~ Queued(q, h.point) => Once(<<h>> \o q)
         /\ InQueue(<<h>> \o q, h) /\ \A x : InQueue(q, x) => InQueue(<<h>> \o q, x)
<1>1. Len(q) \in Nat /\ DOMAIN q = 1 .. Len(q)
  BY LenProperties
<1>2. <<h>> \in Seq(Written) /\ Len(<<h>>) = 1 /\ <<h>>[1] = h
  OBVIOUS
<1> DEFINE r == <<h>> \o q
<1>3. /\ r \in Seq(Written) /\ Len(r) = Len(q) + 1
      /\ \A i \in 1 .. Len(r) : r[i] = IF i <= 1 THEN <<h>>[i] ELSE q[i - 1]
  BY <1>1, <1>2, ConcatProperties
<1>4. DOMAIN r = 1 .. Len(q) + 1 /\ r[1] = h
  BY <1>1, <1>2, <1>3, LenProperties
<1> HIDE DEF r
<1>5. \A i \in DOMAIN r : i = 1 \/ (i - 1 \in DOMAIN q /\ r[i] = q[i - 1])
  BY <1>1, <1>3, <1>4
<1>6. \A i \in DOMAIN q : i + 1 \in DOMAIN r /\ r[i + 1] = q[i]
  BY <1>1, <1>3, <1>4
<1>7. ASSUME Once(q), ~ Queued(q, h.point), NEW i \in DOMAIN r, NEW j \in DOMAIN r,
             r[i].point = r[j].point
      PROVE  i = j
  <2>1. i \in Nat /\ j \in Nat
    BY <1>1, <1>4
  <2>2. QED
    BY <1>4, <1>5, <1>7, <2>1 DEF Once, Queued
<1>8. InQueue(r, h) /\ \A x : InQueue(q, x) => InQueue(r, x)
  BY <1>1, <1>4, <1>6 DEF InQueue
<1>9. QED
  BY <1>3, <1>7, <1>8 DEF r, Once

-----------------------------------------------------------------------------
(* The types, with what a request may carry. *)
Ops == {"none", "write", "select", "list", "ask"}
Req == {r \in [op : Ops, entry : Entry \cup {NoEntry}, part : Partitions] :
          IF r.op = "write" THEN r.entry \in Written ELSE r.entry = NoEntry}
Call == [op : {"idle", "flush", "sync", "select", "list", "ask"},
         at : {"idle", "connect", "send", "wait"}, request : Req, try : {1, 2}, calm : BOOLEAN]
Link == [open : BOOLEAN, part : Partitions, requests : Seq(Req),
         done : Statuses \cup {"none"}, replies : Seq(Statuses), late : BOOLEAN]

WorldInv == value \in [Points -> Stamps] /\ newest \in [Points -> Stamps]
ClientInv ==
  /\ partition \in Partitions
  /\ async \in BOOLEAN /\ connected \in BOOLEAN /\ up \in BOOLEAN
  /\ overtaken \subseteq Points
  /\ {calls, crashes, faults} \subseteq Nat
BacklogInv ==
  /\ queue \in Seq(Written) /\ kept \in [Points -> Stamps] /\ mistaken \in [Points -> Stamps]
  /\ clash \in BOOLEAN /\ writes \in Stamps

(* Where a call may be: only a flush that has not connected yet holds no     *)
(* request, and there is something to flush.                                 *)
CallInv ==
  /\ call \in Call
  /\ \/ call.at = "idle" /\ call.op = "idle"
     \/ call.at # "idle" /\ call.op \in {"flush", "sync"} /\ call.request.op = "write"
     \/ call.at # "idle" /\ call.op \in {"select", "list", "ask"} /\ call.request.op = call.op
     \/ call.at = "connect" /\ call.op = "flush" /\ call.request = NoRequest /\ queue # <<>>

(* A connection in step carries nothing between two calls, and during a call *)
(* its request or its reply.  A status is true of the database, and of the   *)
(* partition.                                                                *)
True(s) ==
  /\ s = "OK" /\ call.request.op = "write" =>
       call.request.entry.stamp <= newest[call.request.entry.point]
  /\ link.open => IF s = "OK" /\ call.op = "select" THEN link.part = call.request.part
                  ELSE link.part \in {0, partition}
Quiet == link.requests = <<>> /\ link.replies = <<>> /\ link.done = "none"
Asked == link.requests = <<call.request>> /\ link.replies = <<>> /\ True(link.done)
Answered == link.requests = <<>> /\ link.done = "none"
            /\ \E s \in Statuses : link.replies = <<s>> /\ True(s)
LinkInv ==
  /\ link \in Link
  /\ ~ link.late => IF call.at = "wait" THEN Asked \/ Answered
                    ELSE link.open => Quiet /\ link.part \in {0, partition}

Settled(p) == kept[p] <= newest[p] \/ kept[p] <= mistaken[p]
Kept(p) == Settled(p) \/ \E e : /\ InQueue(queue, e) \/ e = InHand
                               /\ e # NoEntry /\ e.point = p /\ kept[p] <= e.stamp
QueueInv == clash \/ (Sound(queue, InHand) /\ \A p \in Points : Kept(p))

ClientsInv ==
  WorldInv /\ ClientInv /\ BacklogInv /\ CallInv /\ LinkInv /\ QueueInv

-----------------------------------------------------------------------------
(* The records. *)

LEMMA CallFields ==
  ASSUME NEW c \in Call
  PROVE  /\ c.op \in {"idle", "flush", "sync", "select", "list", "ask"}
         /\ c.at \in {"idle", "connect", "send", "wait"}
         /\ c.request \in Req /\ c.try \in {1, 2} /\ c.calm \in BOOLEAN
  BY DEF Call

LEMMA CallGoes ==
  ASSUME NEW c \in Call, NEW at \in {"connect", "send", "wait"}
  PROVE  /\ [c EXCEPT !.at = at] \in Call /\ [c EXCEPT !.at = at].at = at
         /\ [c EXCEPT !.at = at].op = c.op /\ [c EXCEPT !.at = at].request = c.request
  BY DEF Call

LEMMA CallRetries ==
  ASSUME NEW c \in Call
  PROVE  LET d == [c EXCEPT !.at = "connect", !.try = 2]
         IN  d \in Call /\ d.at = "connect" /\ d.op = c.op /\ d.request = c.request
  BY DEF Call

LEMMA CallTakes ==
  ASSUME NEW c \in Call, NEW r \in Req
  PROVE  LET d == [c EXCEPT !.at = "send", !.try = 1, !.request = r]
         IN  d \in Call /\ d.at = "send" /\ d.op = c.op /\ d.request = r
  BY DEF Call

LEMMA CallStormy ==
  ASSUME NEW c \in Call, NEW b \in BOOLEAN
  PROVE  /\ [c EXCEPT !.calm = b] \in Call
         /\ [c EXCEPT !.calm = b].at = c.at /\ [c EXCEPT !.calm = b].op = c.op
         /\ [c EXCEPT !.calm = b].request = c.request
  BY DEF Call

LEMMA CallBegins ==
  ASSUME NEW op \in {"flush", "sync", "select", "list", "ask"}, NEW r \in Req,
         NEW at \in {"connect", "send"}, up \in BOOLEAN
  PROVE  /\ Begin(op, r, at) \in Call /\ Begin(op, r, at).op = op
         /\ Begin(op, r, at).request = r /\ Begin(op, r, at).at = at
  BY DEF Begin, Call

LEMMA NoRequestType == NoRequest \in Req /\ NoRequest.entry = NoEntry /\ NoRequest.op = "none"
  BY PolicyValues DEF NoRequest, Req, Ops

LEMMA IdleType == Idle \in Call /\ Idle.at = "idle" /\ Idle.op = "idle" /\ Idle.request = NoRequest
  BY NoRequestType DEF Idle, Call

LEMMA WriteOfType ==
  ASSUME NEW e \in Written
  PROVE  WriteOf(e) \in Req /\ WriteOf(e).op = "write" /\ WriteOf(e).entry = e
  BY PolicyValues, WrittenFields DEF WriteOf, Req, Ops

LEMMA ReqFields ==
  ASSUME NEW r \in Req
  PROVE  /\ r.op \in Ops /\ r.part \in Partitions
         /\ r.op = "write" => r.entry \in Written
         /\ r.op # "write" => r.entry = NoEntry
  BY DEF Req

LEMMA LinkFields ==
  ASSUME NEW l \in Link
  PROVE  /\ l.open \in BOOLEAN /\ l.part \in Partitions /\ l.requests \in Seq(Req)
         /\ l.done \in Statuses \cup {"none"} /\ l.replies \in Seq(Statuses) /\ l.late \in BOOLEAN
  BY DEF Link

LinkIs(l, open, part, requests, done, replies, late) ==
  /\ l \in Link /\ l.open = open /\ l.part = part /\ l.requests = requests
  /\ l.done = done /\ l.replies = replies /\ l.late = late

LEMMA LinkOpens ==
  ASSUME NEW l \in Link, NEW b \in BOOLEAN
  PROVE  LinkIs([l EXCEPT !.open = b], b, l.part, l.requests, l.done, l.replies, l.late)
  BY DEF Link, LinkIs

LEMMA LinkAsks ==
  ASSUME NEW l \in Link, NEW r \in Seq(Req)
  PROVE  LinkIs([l EXCEPT !.requests = r], l.open, l.part, r, l.done, l.replies, l.late)
  BY DEF Link, LinkIs

LEMMA LinkGoes ==
  ASSUME NEW l \in Link, NEW b \in BOOLEAN, NEW q \in Partitions, NEW r \in Seq(Req),
         NEW d \in Statuses \cup {"none"}, NEW s \in Seq(Statuses)
  PROVE  /\ LinkIs([l EXCEPT !.done = d], l.open, l.part, l.requests, d, l.replies, l.late)
         /\ LinkIs([l EXCEPT !.part = q, !.done = d], l.open, q, l.requests, d, l.replies, l.late)
         /\ LinkIs([l EXCEPT !.requests = r, !.done = d, !.replies = s], l.open, l.part, r, d, s, l.late)
         /\ LinkIs([l EXCEPT !.replies = s, !.late = b], l.open, l.part, l.requests, l.done, s, b)
<1>1. LinkIs([l EXCEPT !.done = d], l.open, l.part, l.requests, d, l.replies, l.late)
  BY DEF Link, LinkIs
<1>2. LinkIs([l EXCEPT !.part = q, !.done = d], l.open, q, l.requests, d, l.replies, l.late)
  BY DEF Link, LinkIs
<1>3. LinkIs([l EXCEPT !.requests = r, !.done = d, !.replies = s], l.open, l.part, r, d, s, l.late)
  BY DEF Link, LinkIs
<1>4. LinkIs([l EXCEPT !.replies = s, !.late = b], l.open, l.part, l.requests, l.done, s, b)
  BY DEF Link, LinkIs
<1>5. QED
  BY <1>1, <1>2, <1>3, <1>4

LEMMA LinkServes ==
  ASSUME NEW l \in Link, NEW d \in Statuses
  PROVE  LinkIs([l EXCEPT !.done = d], l.open, l.part, l.requests, d, l.replies, l.late)
  BY DEF Link, LinkIs

LEMMA LinkSelects ==
  ASSUME NEW l \in Link, NEW q \in Partitions, NEW d \in Statuses
  PROVE  LinkIs([l EXCEPT !.part = q, !.done = d], l.open, q, l.requests, d, l.replies, l.late)
  BY DEF Link, LinkIs

LEMMA LinkReplies ==
  ASSUME NEW l \in Link, NEW r \in Seq(Req), NEW s \in Seq(Statuses)
  PROVE  LinkIs([l EXCEPT !.requests = r, !.done = "none", !.replies = s],
                l.open, l.part, r, "none", s, l.late)
  BY DEF Link, LinkIs

LEMMA LinkReads ==
  ASSUME NEW l \in Link, NEW s \in Seq(Statuses), NEW b \in BOOLEAN
  PROVE  LinkIs([l EXCEPT !.replies = s, !.late = b], l.open, l.part, l.requests, l.done, s, b)
  BY DEF Link, LinkIs

LEMMA LinkStart ==
  /\ NoLink \in Link /\ NoLink.open = FALSE /\ NoLink.late = FALSE
  /\ NewLink \in Link /\ NewLink.late = FALSE /\ NewLink.requests = <<>>
  /\ NewLink.replies = <<>> /\ NewLink.done = "none" /\ NewLink.part = 0
<1>1. 0 \in Partitions
  BY PolicyValues
<1>2. /\ NoLink \in Link /\ NoLink.open = FALSE /\ NoLink.late = FALSE /\ NoLink.part = 0
      /\ NoLink.requests = <<>> /\ NoLink.replies = <<>> /\ NoLink.done = "none"
  BY <1>1 DEF NoLink, Link
<1>3. LinkIs(NewLink, TRUE, 0, <<>>, "none", <<>>, FALSE)
  <2>1. \A b \in BOOLEAN : LinkIs([NoLink EXCEPT !.open = b], b, 0, <<>>, "none", <<>>, FALSE)
    BY <1>2, LinkOpens
  <2>2. LinkIs([NoLink EXCEPT !.open = TRUE], TRUE, 0, <<>>, "none", <<>>, FALSE)
    BY <2>1
  <2>3. QED
    BY <2>2 DEF NewLink
<1>4. QED
  BY <1>1, <1>2, <1>3 DEF LinkIs

-----------------------------------------------------------------------------
(* What a step does to the queue. *)

LEMMA Hand ==
  ASSUME CallInv
  PROVE  /\ InHand \in Written \cup {NoEntry}
         /\ InHand # NoEntry => call.op = "flush" /\ call.request.op = "write" /\ InHand = call.request.entry
         /\ call.op # "flush" \/ call.request = NoRequest => InHand = NoEntry
<1>1. call \in Call /\ call.request \in Req
  BY CallFields DEF CallInv
<1>2. QED
  BY <1>1, ReqFields, NoRequestType DEF InHand

LEMMA Stamped ==
  ASSUME WorldInv, BacklogInv
  PROVE  \A p \in Points : kept[p] \in Nat /\ newest[p] \in Nat /\ mistaken[p] \in Nat
  BY Numbers DEF WorldInv, BacklogInv, Stamps

LEMMA SameBacklog ==
  ASSUME ClientsInv, UNCHANGED backlog, InHand' = InHand, WorldInv',
         \A p \in Points : newest[p] <= newest'[p]
  PROVE  BacklogInv' /\ QueueInv'
<1>1. BacklogInv' /\ BacklogInv /\ QueueInv /\ WorldInv
      /\ queue' = queue /\ kept' = kept /\ mistaken' = mistaken /\ clash' = clash
  BY DEF ClientsInv, backlog, BacklogInv
<1>2. \A p \in Points : kept[p] \in Nat /\ newest[p] \in Nat /\ newest'[p] \in Nat
  BY <1>1, Stamped, Numbers DEF WorldInv, Stamps
<1>3. ASSUME NEW p \in Points, Kept(p) PROVE Kept(p)'
  <2>1. CASE Settled(p)
    BY <1>1, <1>2, <2>1 DEF Kept, Settled
  <2>2. CASE ~ Settled(p)
    BY <1>1, <1>3, <2>2 DEF Kept
  <2>3. QED
    BY <2>1, <2>2
<1>4. QED
  BY <1>1, <1>3 DEF QueueInv

(* The entry in the hand is let go because it is confirmed, or taken to be   *)
(* so; the next one may be taken.                                            *)
LEMMA LetGo ==
  ASSUME ClientsInv, clash' = clash, writes' = writes, newest' = newest,
         kept' \in [Points -> Stamps], mistaken' \in [Points -> Stamps],
         \A p \in Points : mistaken[p] <= mistaken'[p],
         \A p \in Points : kept'[p] = kept[p] \/ kept'[p] <= newest[p] \/ kept'[p] <= mistaken'[p],
         InHand # NoEntry => \/ InHand.stamp <= newest[InHand.point]
                             \/ InHand.stamp <= mistaken'[InHand.point],
         \/ queue' = queue /\ InHand' = NoEntry
         \/ queue # <<>> /\ queue' = Tail(queue) /\ InHand' = Head(queue)
  PROVE  BacklogInv' /\ QueueInv'
<1>1. BacklogInv /\ QueueInv /\ WorldInv /\ CallInv /\ queue \in Seq(Written)
  BY DEF ClientsInv, BacklogInv
<1>2. /\ queue' \in Seq(Written)
      /\ Sound(queue, NoEntry) => Sound(queue', InHand')
      /\ \A x : InQueue(queue, x) => InQueue(queue', x) \/ x = InHand'
  <2>1. CASE queue' = queue /\ InHand' = NoEntry
    BY <1>1, <2>1
  <2>2. CASE queue # <<>> /\ queue' = Tail(queue) /\ InHand' = Head(queue)
    BY <1>1, <2>2, TakeKeeps
  <2>3. QED
    BY <2>1, <2>2
<1>3. BacklogInv'
  BY <1>1, <1>2 DEF BacklogInv
<1>4. Sound(queue, InHand) => Sound(queue, NoEntry)
  <2>1. Len(queue) \in Nat
    BY <1>1, LenProperties
  <2>2. QED
    BY <2>1, Numbers DEF Sound
<1>5. ASSUME NEW p \in Points, Kept(p) PROVE Kept(p)'
  <2>1. /\ kept[p] \in Nat /\ newest[p] \in Nat /\ newest'[p] = newest[p]
        /\ mistaken[p] \in Nat /\ mistaken'[p] \in Nat
    BY <1>1, Stamped, Numbers DEF Stamps
  <2>2. CASE kept'[p] <= newest[p] \/ kept'[p] <= mistaken'[p]
    BY <2>1, <2>2 DEF Kept, Settled
  <2>3. CASE kept'[p] = kept[p] /\ ~ (kept[p] <= newest[p]) /\ ~ (kept[p] <= mistaken'[p])
    <3>1. PICK e : /\ InQueue(queue, e) \/ e = InHand
                   /\ e # NoEntry /\ e.point = p /\ kept[p] <= e.stamp
      BY <1>5, <2>1, <2>3 DEF Kept, Settled
    <3>2. e \in Written
      <4>1. InQueue(queue, e) => e \in Written
        BY <1>1, LenProperties, ElementOfSeq DEF InQueue
      <4>2. e = InHand => e \in Written
        BY <1>1, <3>1, Hand
      <4>3. QED
        BY <3>1, <4>1, <4>2
    <3>3. e.stamp \in Nat
      BY <3>2, WrittenFields
    <3>4. InQueue(queue, e)
      BY <2>1, <2>3, <3>1, <3>3
    <3>5. InQueue(queue', e) \/ e = InHand'
      BY <1>2, <3>4
    <3>6. QED
      BY <2>3, <3>1, <3>5 DEF Kept
  <2>4. QED
    BY <2>2, <2>3
<1>6. QED
  BY <1>1, <1>2, <1>3, <1>4, <1>5 DEF QueueInv

LEMMA NewEntryType ==
  ASSUME BacklogInv, writes < MaxWrites, NEW p \in Points
  PROVE  NewEntry(p) \in Written /\ NewEntry(p).point = p /\ writes + 1 \in Stamps
<1>1. writes \in Nat /\ writes + 1 \in Stamps /\ writes + 1 # 0
  BY Numbers DEF BacklogInv, Stamps
<1>2. QED
  BY <1>1 DEF NewEntry, Written, Entry

LEMMA AnswerType ==
  ASSUME BacklogInv, NEW e \in Written
  PROVE  /\ AnswerFor(e) \in [Points -> Stamps] /\ AnswerFor(e)[e.point] = e.stamp
         /\ \A p \in Points : p # e.point => AnswerFor(e)[p] = kept[p]
  BY WrittenFields DEF BacklogInv, AnswerFor

(* An entry that is known to be in the queue or in the hand. *)
LEMMA KeptEntry ==
  ASSUME ClientsInv, NEW p \in Points, Kept(p)
  PROVE  Settled(p) \/
         \E e \in Written : (InQueue(queue, e) \/ e = InHand) /\ e.point = p /\ kept[p] <= e.stamp
<1>1. CallInv /\ queue \in Seq(Written)
  BY DEF ClientsInv, BacklogInv
<1>2. \A e : InQueue(queue, e) => e \in Written
  BY <1>1, LenProperties, ElementOfSeq DEF InQueue
<1>3. \A e : e = InHand /\ e # NoEntry => e \in Written
  BY <1>1, Hand
<1>4. QED
  BY <1>2, <1>3 DEF Kept

(* The entry goes back in front of what the alert callback has queued. *)
LEMMA PutBackKeeps ==
  ASSUME ClientsInv, InHand # NoEntry, PutBack(InHand), InHand' = NoEntry, newest' = newest
  PROVE  BacklogInv' /\ QueueInv'
<1> DEFINE e == InHand
<1>1. /\ BacklogInv /\ QueueInv /\ WorldInv /\ e \in Written /\ e # NoEntry
      /\ queue \in Seq(Written) /\ Len(queue) \in Nat /\ clash \in BOOLEAN
  BY Hand, LenProperties DEF ClientsInv, BacklogInv
<1>2. PICK n \in AlertWrites :
        /\ queue' = <<IF TakesSlot(n) THEN n ELSE e>> \o (IF n = NoEntry THEN queue ELSE QPush(queue, n))
        /\ kept' = IF n = NoEntry THEN kept ELSE AnswerFor(n)
        /\ clash' = IF n # NoEntry /\ (TakesSlot(n) \/ n.point = e.point) THEN TRUE ELSE clash
        /\ writes' = IF n = NoEntry THEN writes ELSE writes + 1
        /\ mistaken' = mistaken
  BY DEF PutBack
<1> HIDE DEF e
<1>3. CASE n = NoEntry
  <2>1. queue' = <<e>> \o queue /\ kept' = kept /\ clash' = clash /\ writes' = writes
    BY <1>2, <1>3 DEF TakesSlot
  <2>2. BacklogInv'
    BY <1>1, <1>2, <2>1, ConsKeeps DEF BacklogInv
  <2>3. Sound(queue, e) => Sound(queue', NoEntry)
    BY <1>1, <2>1, ConsKeeps, Numbers DEF Sound
  <2>4. ASSUME NEW p \in Points, Kept(p) PROVE Kept(p)'
    <3>1. \A x \in Written : InQueue(queue, x) \/ x = e => InQueue(queue', x) /\ x # NoEntry
      BY <1>1, <2>1, ConsKeeps, WrittenFields
    <3>2. QED
      BY <1>2, <2>1, <2>4, <3>1, KeptEntry DEF Kept, Settled, e
  <2>5. QED
    BY <1>1, <2>1, <2>2, <2>3, <2>4 DEF QueueInv, e
<1>4. CASE n # NoEntry
  <2>1. n \in Written /\ Room(queue, n) /\ writes + 1 \in Stamps
    <3>1. PICK p \in AlertPoints : n = NewEntry(p) /\ writes < MaxWrites /\ Room(queue, n)
      BY <1>4 DEF AlertWrites
    <3>2. p \in Points
      BY ClientValues
    <3>3. QED
      BY <1>1, <3>1, <3>2, NewEntryType
  <2> DEFINE q == QPush(queue, n)
  <2>2. /\ q \in Seq(Written) /\ Len(q) \in Nat
        /\ Len(q) = IF Queued(queue, n.point) \/ Len(queue) >= Cap THEN Len(queue) ELSE Len(queue) + 1
        /\ Once(queue) => Once(q)
        /\ \A p : Queued(q, p) => Queued(queue, p) \/ p = n.point
        /\ \A x : InQueue(queue, x) /\ x.point # n.point => InQueue(q, x)
        /\ InQueue(q, n)
    BY <1>1, <2>1, PushKeeps, LenProperties
  <2> HIDE DEF q
  <2>3. \E h \in {n, e} : queue' = <<h>> \o q
    BY <1>2, <1>4 DEF q
  <2>4. BacklogInv'
    <3>1. queue' \in Seq(Written)
      BY <1>1, <2>1, <2>2, <2>3, ConsKeeps
    <3>2. kept' \in [Points -> Stamps] /\ writes' \in Stamps
      BY <1>1, <1>2, <1>4, <2>1, AnswerType
    <3>3. clash' \in BOOLEAN
      BY <1>1, <1>2
    <3>4. mistaken' \in [Points -> Stamps]
      BY <1>1, <1>2 DEF BacklogInv
    <3>5. QED
      BY <3>1, <3>2, <3>3, <3>4 DEF BacklogInv
  <2>5. CASE TakesSlot(n) \/ n.point = e.point
    BY <1>2, <1>4, <2>4, <2>5 DEF QueueInv
  <2>6. CASE ~ TakesSlot(n) /\ n.point # e.point
    <3>1. queue' = <<e>> \o q /\ kept' = AnswerFor(n) /\ clash' = clash
      BY <1>2, <1>4, <2>6 DEF q
    <3>2. Sound(queue, e) => Sound(queue', NoEntry)
      <4>1. SUFFICES ASSUME Sound(queue, e) PROVE Sound(queue', NoEntry)
        OBVIOUS
      <4>2. Len(queue) + 1 <= Cap /\ Once(queue) /\ ~ Queued(queue, e.point)
        BY <1>1, <4>1 DEF Sound
      <4>3. Len(q) + 1 <= Cap
        BY <1>1, <1>4, <2>2, <2>6, <4>2, Numbers DEF TakesSlot
      <4>4. ~ Queued(q, e.point) /\ Once(q)
        BY <2>2, <2>6, <4>2
      <4>5. QED
        BY <1>1, <2>2, <3>1, <4>3, <4>4, ConsKeeps, Numbers DEF Sound
    <3>3. ASSUME NEW p \in Points, Kept(p) PROVE Kept(p)'
      <4>1. CASE p = n.point
        <5>1. InQueue(queue', n) /\ n # NoEntry /\ kept'[p] = n.stamp /\ n.stamp \in Nat
          BY <1>1, <1>4, <2>1, <2>2, <3>1, <4>1, ConsKeeps, AnswerType, WrittenFields
        <5>2. QED
          BY <4>1, <5>1 DEF Kept
      <4>2. CASE p # n.point
        <5>1. kept'[p] = kept[p]
          BY <1>1, <2>1, <3>1, <4>2, AnswerType
        <5>2. \A x \in Written : x.point = p /\ (InQueue(queue, x) \/ x = e) =>
                InQueue(queue', x) /\ x # NoEntry
          BY <1>1, <2>2, <3>1, <4>2, ConsKeeps, WrittenFields
        <5>3. QED
          BY <1>2, <3>3, <5>1, <5>2, KeptEntry DEF Kept, Settled, e
      <4>3. QED
        BY <4>1, <4>2
    <3>4. QED
      BY <1>1, <2>4, <3>1, <3>2, <3>3 DEF QueueInv, e
  <2>7. QED
    BY <2>5, <2>6
<1>5. QED
  BY <1>3, <1>4

LEMMA GiveUpKeeps ==
  ASSUME ClientsInv, GiveUp, newest' = newest
  PROVE  BacklogInv' /\ QueueInv' /\ call' = Idle
<1>1. call' = Idle /\ InHand' = NoEntry
  BY IdleType DEF GiveUp, Return, InHand
<1>2. CASE InHand # NoEntry
  BY <1>1, <1>2, PutBackKeeps DEF GiveUp
<1>3. CASE InHand = NoEntry
  <2>1. UNCHANGED backlog
    BY <1>3 DEF GiveUp
  <2>2. /\ queue' = queue /\ kept' = kept /\ mistaken' = mistaken
        /\ clash' = clash /\ writes' = writes
        /\ kept \in [Points -> Stamps] /\ mistaken \in [Points -> Stamps]
        /\ WorldInv /\ BacklogInv
    BY <2>1 DEF backlog, ClientsInv, BacklogInv
  <2>3. \A p \in Points : mistaken[p] <= mistaken'[p]
    BY <2>2, Stamped
  <2>4. QED
    BY <1>1, <1>3, <2>2, <2>3, LetGo
<1>4. QED
  BY <1>1, <1>2, <1>3

-----------------------------------------------------------------------------
(* What a step leaves of the connection and of the call. *)

LEMMA LinkSame ==
  ASSUME LinkInv, UNCHANGED <<call, link, partition, newest>>
  PROVE  LinkInv'
  BY DEF LinkInv, Asked, Answered, Quiet, True

LEMMA LinkLeft ==
  ASSUME LinkInv, link' = link, call'.at # "wait",
         (call.at # "wait" /\ partition' = partition) \/ link.late \/ ~ link.open
  PROVE  LinkInv'
<1>1. link \in Link /\ link.late \in BOOLEAN /\ link.open \in BOOLEAN
  BY LinkFields DEF LinkInv
<1>2. CASE call.at # "wait" /\ partition' = partition
  BY <1>2 DEF LinkInv, Quiet
<1>3. CASE link.late
  BY <1>1, <1>3 DEF LinkInv
<1>4. CASE ~ link.open
  BY <1>1, <1>4 DEF LinkInv
<1>5. QED
  BY <1>2, <1>3, <1>4

LEMMA CallIdle == ASSUME call' = Idle PROVE CallInv' /\ call'.at # "wait" /\ InHand' = NoEntry
  BY IdleType DEF CallInv, InHand

LEMMA IdleCall == ASSUME call = Idle PROVE call.at # "wait" /\ InHand = NoEntry
  BY IdleType DEF InHand

(* The second try of a flush keeps its entry in the hand. *)
LEMMA BrokenKeeps ==
  ASSUME ClientsInv, call.at \in {"send", "wait"}, Broken, UNCHANGED world
  PROVE  BacklogInv' /\ QueueInv' /\ CallInv' /\ call'.at # "wait" /\ connected' \in BOOLEAN
<1>1. CallInv /\ call \in Call /\ WorldInv' /\ newest' = newest
  BY DEF ClientsInv, CallInv, WorldInv, world
<1>2. CASE call.op = "flush" /\ call.try = 1
  <2>1. /\ call' = [call EXCEPT !.at = "connect", !.try = 2]
        /\ connected' = FALSE /\ UNCHANGED backlog
    BY <1>2 DEF Broken
  <2>2. call.request.op = "write" /\ call.request \in Req
    BY <1>1, <1>2, CallFields DEF CallInv
  <2>3. /\ call' \in Call /\ call'.at = "connect" /\ call'.op = "flush"
        /\ call'.request = call.request
    BY <1>1, <1>2, <2>1, CallRetries
  <2>4. CallInv' /\ call'.at # "wait"
    BY <2>2, <2>3 DEF CallInv
  <2>5. InHand' = InHand
    BY <1>2, <2>3 DEF InHand
  <2>6. \A p \in Points : newest[p] <= newest'[p]
    <3>1. \A p \in Points : newest[p] \in Nat
      BY Stamped DEF ClientsInv
    <3>2. QED
      BY <1>1, <3>1
  <2>7. BacklogInv' /\ QueueInv'
    BY <1>1, <2>1, <2>5, <2>6, SameBacklog
  <2>8. QED
    BY <2>1, <2>4, <2>7
<1>3. CASE ~ (call.op = "flush" /\ call.try = 1)
  <2>1. GiveUp /\ connected' \in BOOLEAN
    BY <1>3 DEF Broken
  <2>2. QED
    BY <1>1, <2>1, GiveUpKeeps, CallIdle
<1>4. QED
  BY <1>2, <1>3

-----------------------------------------------------------------------------
(* The application's calls. *)

LEMMA WriteAsyncKeeps ==
  ASSUME ClientsInv, NEW p \in Points, WriteAsync(p)
  PROVE  ClientsInv'
<1> DEFINE e == NewEntry(p)
<1>1. /\ WorldInv /\ ClientInv /\ BacklogInv /\ CallInv /\ LinkInv /\ QueueInv
      /\ queue \in Seq(Written) /\ clash \in BOOLEAN /\ kept \in [Points -> Stamps]
      /\ call = Idle /\ call' = call /\ link' = link /\ partition' = partition
      /\ value' = value /\ newest' = newest /\ clash' = clash /\ mistaken' = mistaken
      /\ queue' = QPush(queue, e) /\ writes' = writes + 1
      /\ kept' = IF Room(queue, e) THEN AnswerFor(e) ELSE kept
  BY DEF ClientsInv, BacklogInv, WriteAsync, Ready, world
<1>2. ClientInv' /\ WorldInv' /\ LinkInv' /\ CallInv'
  BY <1>1, LinkSame, CallIdle DEF WriteAsync, ClientInv, WorldInv
<1>3. e \in Written /\ e.point = p /\ writes + 1 \in Stamps
  BY <1>1, NewEntryType DEF WriteAsync
<1> HIDE DEF e
<1>4. kept' \in [Points -> Stamps] /\ \A x \in Points : x # p => kept'[x] = kept[x]
  BY <1>1, <1>3, AnswerType
<1>5. BacklogInv'
  BY <1>1, <1>3, <1>4, PushKeeps DEF BacklogInv
<1>6. InHand = NoEntry /\ InHand' = NoEntry
  BY <1>1, IdleCall, CallIdle
<1>7. Sound(queue, NoEntry) => Sound(queue', NoEntry)
  <2>1. Len(queue) \in Nat /\ Len(queue') \in Nat
    BY <1>1, <1>5, LenProperties DEF BacklogInv
  <2>2. QED
    BY <1>1, <1>3, <2>1, PushKeeps, Numbers DEF Sound
<1>8. ASSUME NEW x \in Points, Kept(x) PROVE Kept(x)'
  <2>1. CASE x = p /\ Room(queue, e)
    <3>1. kept'[x] = e.stamp /\ InQueue(queue', e) /\ e # NoEntry /\ e.stamp \in Nat
      BY <1>1, <1>3, <2>1, AnswerType, PushKeeps, WrittenFields
    <3>2. QED
      BY <1>3, <2>1, <3>1 DEF Kept
  <2>2. CASE ~ Room(queue, e)
    BY <1>1, <1>3, <1>6, <1>8, <2>2, PushKeeps DEF Kept, Settled
  <2>3. CASE x # p
    <3>1. \A y \in Written : y.point = x /\ (InQueue(queue, y) \/ y = InHand) =>
            InQueue(queue', y) /\ y # NoEntry
      BY <1>1, <1>3, <1>6, <2>3, PushKeeps, WrittenFields
    <3>2. QED
      BY <1>1, <1>4, <1>8, <2>3, <3>1, KeptEntry DEF Kept, Settled
  <2>4. QED
    BY <2>1, <2>2, <2>3
<1>9. QED
  BY <1>1, <1>2, <1>5, <1>6, <1>7, <1>8 DEF ClientsInv, QueueInv

(* A call begins, or nothing of the queue is touched. *)
LEMMA BeginKeeps ==
  ASSUME ClientsInv, call = Idle, CallInv', call'.at # "wait", WorldInv', ClientInv',
         newest' = newest, link' = link, partition' = partition,
         BacklogInv', QueueInv'
  PROVE  ClientsInv'
  BY IdleCall, LinkLeft DEF ClientsInv

LEMMA WriteSyncKeeps ==
  ASSUME ClientsInv, NEW p \in Points, WriteSync(p)
  PROVE  ClientsInv'
<1> DEFINE e == NewEntry(p)
<1>1. /\ WorldInv /\ ClientInv /\ BacklogInv /\ QueueInv
      /\ call = Idle /\ link' = link /\ partition' = partition /\ up \in BOOLEAN
      /\ value' = value /\ newest' = newest /\ clash' = clash /\ queue' = queue
      /\ mistaken' = mistaken
      /\ kept' = kept /\ writes' = writes + 1 /\ writes < MaxWrites
      /\ call' = Begin("sync", WriteOf(e), FirstStep) /\ FirstStep \in {"connect", "send"}
  BY DEF ClientsInv, WriteSync, Ready, world, client, FirstStep, ClientInv
<1>2. e \in Written /\ writes + 1 \in Stamps
  BY <1>1, NewEntryType
<1> HIDE DEF e
<1>3. WriteOf(e) \in Req /\ WriteOf(e).op = "write"
  BY <1>2, WriteOfType
<1>4. call' \in Call /\ call'.op = "sync" /\ call'.request = WriteOf(e) /\ call'.at \in {"connect", "send"}
  BY <1>1, <1>3, CallBegins
<1>5. CallInv' /\ call'.at # "wait" /\ InHand' = NoEntry
  BY <1>3, <1>4 DEF CallInv, InHand
<1>6. WorldInv' /\ ClientInv' /\ BacklogInv'
  BY <1>1, <1>2 DEF WorldInv, WriteSync, ClientInv, BacklogInv, client
<1>7. QueueInv'
  BY <1>1, <1>5, IdleCall DEF QueueInv, Kept, Settled
<1>8. QED
  BY <1>1, <1>5, <1>6, <1>7, BeginKeeps

LEMMA ControlKeeps ==
  ASSUME ClientsInv, NEW op \in {"select", "list", "ask"}, NEW q \in Partitions, Control(op, q)
  PROVE  ClientsInv'
<1> DEFINE r == [op |-> op, entry |-> NoEntry, part |-> q]
<1>1. /\ WorldInv /\ ClientInv /\ BacklogInv /\ QueueInv
      /\ call = Idle /\ link' = link /\ partition' = partition /\ up \in BOOLEAN
      /\ value' = value /\ newest' = newest /\ clash' = clash /\ queue' = queue
      /\ mistaken' = mistaken
      /\ kept' = kept /\ writes' = writes
      /\ call' = Begin(op, r, FirstStep) /\ FirstStep \in {"connect", "send"}
  BY DEF ClientsInv, Control, Ready, world, client, ghosts, FirstStep, ClientInv
<1>2. r \in Req /\ r.op = op
  BY DEF Req, Ops
<1> HIDE DEF r
<1>3. call' \in Call /\ call'.op = op /\ call'.request = r /\ call'.at \in {"connect", "send"}
  BY <1>1, <1>2, CallBegins
<1>4. CallInv' /\ call'.at # "wait" /\ InHand' = NoEntry
  BY <1>2, <1>3 DEF CallInv, InHand
<1>5. WorldInv' /\ ClientInv' /\ BacklogInv'
  BY <1>1 DEF WorldInv, Control, ClientInv, BacklogInv, client, ghosts
<1>6. QueueInv'
  BY <1>1, <1>4, IdleCall DEF QueueInv, Kept, Settled
<1>7. QED
  BY <1>1, <1>4, <1>5, <1>6, BeginKeeps

LEMMA FlushKeeps == ASSUME ClientsInv, Flush PROVE ClientsInv'
<1>1. /\ WorldInv /\ ClientInv /\ BacklogInv /\ QueueInv /\ queue \in Seq(Written)
      /\ call = Idle /\ link' = link /\ partition' = partition /\ up \in BOOLEAN
      /\ value' = value /\ newest' = newest /\ clash' = clash /\ queue # <<>>
      /\ mistaken' = mistaken /\ mistaken \in [Points -> Stamps]
      /\ \A p \in Points : mistaken[p] <= mistaken'[p]
      /\ kept' = kept /\ kept \in [Points -> Stamps] /\ writes' = writes
  BY Stamped DEF ClientsInv, Flush, Ready, world, ghosts, bounds, ClientInv, BacklogInv
<1>2. WorldInv' /\ ClientInv'
  BY <1>1 DEF WorldInv, Flush, ClientInv, ghosts, bounds
<1>3. InHand = NoEntry
  BY <1>1, IdleCall
<1>4. CASE connected
  <2>1. call' = Begin("flush", WriteOf(Head(queue)), "send") /\ queue' = Tail(queue)
    BY <1>4 DEF Flush
  <2>2. WriteOf(Head(queue)) \in Req /\ WriteOf(Head(queue)).op = "write"
        /\ WriteOf(Head(queue)).entry = Head(queue)
    BY <1>1, TakeKeeps, WriteOfType
  <2>3. call' \in Call /\ call'.op = "flush" /\ call'.at = "send" /\ call'.request = WriteOf(Head(queue))
    BY <1>1, <2>1, <2>2, CallBegins
  <2>4. CallInv' /\ call'.at # "wait" /\ InHand' = Head(queue)
    BY <2>2, <2>3 DEF CallInv, InHand
  <2>5. BacklogInv' /\ QueueInv'
    BY <1>1, <1>3, <2>1, <2>4, LetGo
  <2>6. QED
    BY <1>1, <1>2, <2>4, <2>5, BeginKeeps
<1>5. CASE ~ connected
  <2>1. call' = Begin("flush", NoRequest, "connect") /\ queue' = queue
    BY <1>5 DEF Flush
  <2>2. call' \in Call /\ call'.op = "flush" /\ call'.at = "connect" /\ call'.request = NoRequest
    BY <1>1, <2>1, NoRequestType, CallBegins
  <2>3. CallInv' /\ call'.at # "wait" /\ InHand' = NoEntry
    BY <1>1, <2>1, <2>2, NoRequestType DEF CallInv, InHand
  <2>4. BacklogInv' /\ QueueInv'
    BY <1>1, <1>3, <2>1, <2>3, LetGo
  <2>5. QED
    BY <1>1, <1>2, <2>3, <2>4, BeginKeeps
<1>6. QED
  BY <1>4, <1>5

LEMMA SetAsyncKeeps == ASSUME ClientsInv, NEW mode \in BOOLEAN, SetAsync(mode) PROVE ClientsInv'
<1>1. /\ WorldInv /\ ClientInv /\ BacklogInv /\ QueueInv
      /\ call = Idle /\ call' = call /\ link' = link /\ partition' = partition
      /\ value' = value /\ newest' = newest /\ clash' = clash /\ queue' = queue
      /\ mistaken' = mistaken
      /\ kept' = kept /\ writes' = writes
  BY DEF ClientsInv, SetAsync, Ready, world, ghosts
<1>2. CallInv' /\ call'.at # "wait" /\ InHand' = InHand
  BY <1>1, CallIdle, IdleCall
<1>3. WorldInv' /\ ClientInv' /\ BacklogInv' /\ QueueInv'
  BY <1>1, <1>2 DEF WorldInv, SetAsync, ClientInv, BacklogInv, ghosts, QueueInv, Kept, Settled
<1>4. QED
  BY <1>1, <1>2, <1>3, BeginKeeps

(* What was queued is given up: the client answers for nothing more. *)
LEMMA ReopenKeeps == ASSUME ClientsInv, Reopen PROVE ClientsInv'
<1>1. /\ WorldInv /\ ClientInv /\ BacklogInv /\ call = Idle /\ call' = call /\ link' = NoLink
      /\ value' = value /\ newest' = newest /\ queue' = <<>> /\ partition' = 0
      /\ clash' = clash /\ mistaken' = mistaken /\ writes' = writes /\ async' = TRUE /\ connected' = FALSE
      /\ kept' = [p \in Points |-> IF kept[p] <= newest[p] THEN kept[p] ELSE newest[p]]
  BY DEF ClientsInv, Reopen, Ready, world
<1>2. CallInv' /\ call'.at # "wait" /\ InHand' = NoEntry
  BY <1>1, CallIdle
<1>3. LinkInv'
  BY <1>1, <1>2, LinkStart DEF LinkInv
<1>4. WorldInv' /\ ClientInv'
  <2>1. /\ calls' = calls + 1 /\ up' = up /\ overtaken' = overtaken
        /\ crashes' = crashes /\ faults' = faults /\ 0 \in Partitions
    BY PolicyValues DEF Reopen
  <2>2. {calls', crashes', faults'} \subseteq Nat
    BY <1>1, <2>1 DEF ClientInv
  <2>3. async' \in BOOLEAN /\ connected' \in BOOLEAN
    BY <1>1
  <2>4. WorldInv'
    BY <1>1 DEF WorldInv
  <2>5. QED
    BY <1>1, <2>1, <2>2, <2>3, <2>4 DEF ClientInv
<1>5. \A p \in Points : kept[p] \in Stamps /\ newest[p] \in Stamps /\ kept[p] \in Nat /\ newest[p] \in Nat
  BY <1>1, Stamped DEF WorldInv, BacklogInv
<1>6. kept' \in [Points -> Stamps] /\ \A p \in Points : kept'[p] <= newest'[p]
  BY <1>1, <1>5
<1>7. BacklogInv'
  BY <1>1, <1>6 DEF BacklogInv
<1>8. QueueInv'
  <2>1. Len(queue') = 0 /\ DOMAIN queue' = {}
    BY <1>1
  <2>2. QED
    BY <1>2, <1>6, <2>1, Numbers DEF QueueInv, Sound, Once, Kept, Settled
<1>9. QED
  BY <1>2, <1>3, <1>4, <1>7, <1>8 DEF ClientsInv

-----------------------------------------------------------------------------
(* The steps of a call. *)

LEMMA TakeNextKeeps ==
  ASSUME CallInv, call.op = "flush", queue \in Seq(Written), queue # <<>>, TakeNext
  PROVE  /\ CallInv' /\ call'.at = "send" /\ InHand' = Head(queue) /\ queue' = Tail(queue)
<1>1. WriteOf(Head(queue)) \in Req /\ WriteOf(Head(queue)).op = "write"
      /\ WriteOf(Head(queue)).entry = Head(queue)
  BY TakeKeeps, WriteOfType
<1>2. call \in Call
  BY DEF CallInv
<1>3. call' = [call EXCEPT !.at = "send", !.try = 1, !.request = WriteOf(Head(queue))]
      /\ queue' = Tail(queue)
  BY DEF TakeNext
<1>4. call' \in Call /\ call'.at = "send" /\ call'.op = "flush" /\ call'.request = WriteOf(Head(queue))
  BY <1>1, <1>2, <1>3, CallTakes
<1>5. QED
  BY <1>1, <1>3, <1>4 DEF CallInv, InHand

LEMMA ConnectKeeps == ASSUME ClientsInv, Connect PROVE ClientsInv'
<1>1. /\ WorldInv /\ ClientInv /\ BacklogInv /\ CallInv /\ call \in Call /\ queue \in Seq(Written)
      /\ call.at = "connect" /\ connected' = up /\ up \in BOOLEAN
      /\ kept \in [Points -> Stamps] /\ mistaken \in [Points -> Stamps]
      /\ value' = value /\ newest' = newest /\ partition' = partition
  BY DEF ClientsInv, ClientInv, BacklogInv, CallInv, Connect, world
<1>2. WorldInv' /\ ClientInv'
  BY <1>1 DEF WorldInv, ClientInv, Connect
<1>3. CASE up
  <2>1. /\ link' = NewLink /\ kept' = kept /\ clash' = clash /\ writes' = writes
        /\ mistaken' = mistaken /\ \A p \in Points : mistaken[p] <= mistaken'[p]
    BY <1>1, <1>3, Stamped DEF Connect
  <2>2. CASE call.request = NoRequest
    <3>1. TakeNext
      BY <1>3, <2>2 DEF Connect
    <3>2. call.op = "flush" /\ queue # <<>>
      BY <1>1, <2>2, NoRequestType DEF CallInv
    <3>3. CallInv' /\ call'.at = "send" /\ InHand' = Head(queue) /\ queue' = Tail(queue)
      BY <1>1, <3>1, <3>2, TakeNextKeeps
    <3>4. BacklogInv' /\ QueueInv'
      BY <1>1, <2>1, <2>2, <3>2, <3>3, Hand, LetGo
    <3>5. LinkInv'
      BY <2>1, <3>3, LinkStart DEF LinkInv, Quiet
    <3>6. QED
      BY <1>2, <3>3, <3>4, <3>5 DEF ClientsInv
  <2>3. CASE call.request # NoRequest
    <3>1. call' = [call EXCEPT !.at = "send"] /\ queue' = queue
      BY <1>3, <2>3 DEF Connect
    <3>2. call' \in Call /\ call'.at = "send" /\ call'.op = call.op /\ call'.request = call.request
      BY <1>1, <3>1, CallGoes
    <3>3. CallInv' /\ InHand' = InHand
      BY <1>1, <2>3, <3>2 DEF CallInv, InHand
    <3>4. BacklogInv' /\ QueueInv'
      <4>1. \A p \in Points : newest[p] <= newest'[p]
        BY <1>1, Stamped
      <4>2. QED
        BY <1>2, <2>1, <3>1, <3>3, <4>1, SameBacklog DEF backlog
    <3>5. LinkInv'
      BY <2>1, <3>2, LinkStart DEF LinkInv, Quiet
    <3>6. QED
      BY <1>2, <3>3, <3>4, <3>5 DEF ClientsInv
  <2>4. QED
    BY <2>2, <2>3
<1>4. CASE ~ up
  <2>1. link' = NoLink /\ GiveUp
    BY <1>4 DEF Connect
  <2>2. BacklogInv' /\ QueueInv' /\ CallInv' /\ call'.at # "wait"
    BY <1>1, <2>1, GiveUpKeeps, CallIdle
  <2>3. LinkInv'
    BY <2>1, <2>2, LinkStart DEF LinkInv
  <2>4. QED
    BY <1>2, <2>2, <2>3 DEF ClientsInv
<1>5. QED
  BY <1>3, <1>4

LEMMA SendKeeps == ASSUME ClientsInv, Send PROVE ClientsInv'
<1>1. /\ WorldInv /\ ClientInv /\ BacklogInv /\ CallInv /\ call \in Call /\ LinkInv /\ link \in Link
      /\ call.at = "send" /\ UNCHANGED world /\ partition' = partition
      /\ value' = value /\ newest' = newest
  BY DEF ClientsInv, CallInv, LinkInv, Send, world
<1>2. WorldInv'
  BY <1>1 DEF WorldInv
<1>3. CASE link.open
  <2>1. /\ link' = [link EXCEPT !.requests = Append(@, call.request)]
        /\ call' = [call EXCEPT !.at = "wait"]
        /\ connected' = connected /\ UNCHANGED backlog
    BY <1>3 DEF Send
  <2>2. call' \in Call /\ call'.at = "wait" /\ call'.op = call.op /\ call'.request = call.request
    BY <1>1, <2>1, CallGoes
  <2>3. CallInv' /\ InHand' = InHand
    BY <1>1, <2>2 DEF CallInv, InHand
  <2>4. \A p \in Points : newest[p] <= newest'[p]
    BY <1>1, Stamped
  <2>5. BacklogInv' /\ QueueInv'
    BY <1>2, <2>1, <2>3, <2>4, SameBacklog
  <2>6. ClientInv'
    BY <1>1, <2>1 DEF ClientInv, Send
  <2>7. LinkInv'
    <3>1. link.requests \in Seq(Req) /\ call.request \in Req /\ link.late \in BOOLEAN
      BY <1>1, LinkFields, CallFields
    <3>2. Append(link.requests, call.request) \in Seq(Req)
      BY <3>1
    <3>3. link' = [link EXCEPT !.requests = Append(link.requests, call.request)]
      BY <2>1
    <3>4. LinkIs(link', link.open, link.part, Append(link.requests, call.request), link.done,
                 link.replies, link.late)
      <4>1. \A r \in Seq(Req) : LinkIs([link EXCEPT !.requests = r], link.open, link.part, r,
                                       link.done, link.replies, link.late)
        BY <1>1, LinkAsks
      <4>2. QED
        BY <3>2, <3>3, <4>1
    <3>5. CASE link.late
      BY <3>4, <3>5 DEF LinkIs, LinkInv
    <3>6. CASE ~ link.late
      <4>1. Quiet /\ link.part \in {0, partition}
        BY <1>1, <1>3, <3>6 DEF LinkInv
      <4>2. link'.requests = <<call.request>> /\ link'.replies = <<>> /\ link'.done = "none"
            /\ link'.part \in {0, partition} /\ link' \in Link
        BY <3>1, <3>4, <4>1 DEF LinkIs, Quiet
      <4>3. Asked'
        BY <1>1, <2>2, <4>2 DEF Asked, True
      <4>4. QED
        BY <2>2, <4>2, <4>3 DEF LinkInv
    <3>7. QED
      BY <3>1, <3>5, <3>6
  <2>8. QED
    BY <1>2, <2>3, <2>5, <2>6, <2>7 DEF ClientsInv
<1>4. CASE ~ link.open
  <2>1. Broken /\ link' = link
    BY <1>4 DEF Send
  <2>2. BacklogInv' /\ QueueInv' /\ CallInv' /\ call'.at # "wait" /\ connected' \in BOOLEAN
    BY <1>1, <2>1, BrokenKeeps
  <2>3. LinkInv'
    BY <1>1, <1>4, <2>1, <2>2, LinkLeft
  <2>4. ClientInv'
    BY <1>1, <2>2 DEF ClientInv, Send
  <2>5. QED
    BY <1>2, <2>2, <2>3, <2>4 DEF ClientsInv
<1>5. QED
  BY <1>3, <1>4

(* A status that is believed: true of the database, or read out of step. *)
LEMMA BelieveKeeps ==
  ASSUME ClientsInv, call.at = "wait", NEW s \in Statuses, Believe(s), newest' = newest,
         link.late \/ True(s)
  PROVE  /\ BacklogInv' /\ QueueInv' /\ CallInv' /\ call'.at # "wait"
         /\ partition' = IF s = "OK" /\ call.op = "select" THEN call.request.part ELSE partition
<1>1. /\ WorldInv /\ BacklogInv /\ CallInv /\ queue \in Seq(Written) /\ call.request \in Req
      /\ kept \in [Points -> Stamps] /\ \A p \in Points : kept[p] \in Nat /\ newest[p] \in Nat
  BY CallFields, Stamped DEF ClientsInv, BacklogInv, CallInv
<1>2. CASE s # "OK"
  <2>1. GiveUp /\ partition' = partition
    BY <1>2 DEF Believe
  <2>2. QED
    BY <1>2, <2>1, GiveUpKeeps, CallIdle
<1>3. CASE s = "OK"
  <2>1. /\ IF call.op = "flush" /\ queue # <<>> THEN TakeNext ELSE Return /\ queue' = queue
        /\ partition' = IF call.op = "select" THEN call.request.part ELSE partition
        /\ IF call.request.op = "write" THEN Confirm(call.request.entry)
           ELSE kept' = kept /\ mistaken' = mistaken
        /\ clash' = clash /\ writes' = writes
    BY <1>3 DEF Believe
  <2>2. /\ CallInv' /\ call'.at # "wait"
        /\ \/ queue' = queue /\ InHand' = NoEntry
           \/ queue # <<>> /\ queue' = Tail(queue) /\ InHand' = Head(queue)
    <3>1. CASE call.op = "flush" /\ queue # <<>>
      BY <1>1, <2>1, <3>1, TakeNextKeeps
    <3>2. CASE ~ (call.op = "flush" /\ queue # <<>>)
      BY <2>1, <3>2, CallIdle DEF Return
    <3>3. QED
      BY <3>1, <3>2
  <2>3. mistaken \in [Points -> Stamps] /\ \A p \in Points : mistaken[p] \in Nat
    BY <1>1, Stamped DEF BacklogInv
  <2>4. /\ kept' \in [Points -> Stamps] /\ mistaken' \in [Points -> Stamps]
        /\ \A p \in Points : mistaken[p] <= mistaken'[p]
        /\ \A p \in Points : kept'[p] = kept[p] \/ kept'[p] <= newest[p] \/ kept'[p] <= mistaken'[p]
        /\ InHand # NoEntry => \/ InHand.stamp <= newest[InHand.point]
                               \/ InHand.stamp <= mistaken'[InHand.point]
    <3>1. CASE call.request.op = "write"
      <4> DEFINE e == call.request.entry
      <4>1. /\ e \in Written /\ e.point \in Points /\ e.stamp \in Stamps /\ e.stamp \in Nat
            /\ InHand # NoEntry => InHand = e
        BY <1>1, <3>1, Hand, ReqFields, WrittenFields
      <4>2. /\ kept' = IF call.op = "sync" THEN AnswerFor(e) ELSE kept
            /\ mistaken' = IF link.late /\ mistaken[e.point] < e.stamp
                           THEN [mistaken EXCEPT ![e.point] = e.stamp] ELSE mistaken
        BY <2>1, <3>1 DEF Confirm
      <4>3. ~ link.late => e.stamp <= newest[e.point]
        BY <1>3, <3>1 DEF True
      <4> HIDE DEF e
      <4>4. /\ mistaken' \in [Points -> Stamps] /\ \A p \in Points : mistaken[p] <= mistaken'[p]
            /\ link.late => e.stamp <= mistaken'[e.point]
        BY <2>3, <4>1, <4>2
      <4>5. /\ kept' \in [Points -> Stamps]
            /\ \A p \in Points : kept'[p] = kept[p] \/ (p = e.point /\ kept'[p] = e.stamp)
        BY <1>1, <4>1, <4>2, AnswerType
      <4>6. QED
        BY <4>1, <4>3, <4>4, <4>5
    <3>2. CASE call.request.op # "write"
      <4>1. kept' = kept /\ mistaken' = mistaken
        BY <2>1, <3>2
      <4>2. InHand = NoEntry
        BY <1>1, <3>2, Hand
      <4>3. QED
        BY <1>1, <2>3, <4>1, <4>2
    <3>3. QED
      BY <3>1, <3>2
  <2>5. BacklogInv' /\ QueueInv'
    BY <1>1, <2>1, <2>2, <2>4, LetGo
  <2>6. QED
    BY <1>3, <2>1, <2>2, <2>5
<1>4. QED
  BY <1>2, <1>3

LEMMA StatusPartition ==
  ASSUME ClientsInv
  PROVE  call.request.part \in Partitions /\ partition \in Partitions
  BY CallFields, ReqFields DEF ClientsInv, CallInv, ClientInv

LEMMA ReceiveKeeps == ASSUME ClientsInv, Receive PROVE ClientsInv'
<1> DEFINE s == Head(link.replies)
<1>1. /\ WorldInv /\ ClientInv /\ LinkInv /\ link \in Link
      /\ call.at = "wait" /\ ~ link.late /\ link.replies # <<>> /\ Believe(s)
      /\ UNCHANGED world /\ value' = value /\ newest' = newest
      /\ async' = async /\ connected' = connected /\ up' = up
      /\ overtaken' = overtaken /\ calls' = calls /\ crashes' = crashes /\ faults' = faults
  BY DEF ClientsInv, LinkInv, Receive, world
<1>2. Answered
  BY <1>1 DEF LinkInv, Asked
<1>3. s \in Statuses /\ True(s) /\ Tail(link.replies) = <<>> /\ link.requests = <<>> /\ link.done = "none"
  BY <1>2 DEF Answered
<1>4. PICK over \in BOOLEAN : link' = [link EXCEPT !.replies = Tail(link.replies), !.late = over]
  BY DEF Receive
<1> HIDE DEF s
<1>5. /\ BacklogInv' /\ QueueInv' /\ CallInv' /\ call'.at # "wait"
      /\ partition' = IF s = "OK" /\ call.op = "select" THEN call.request.part ELSE partition
  BY <1>1, <1>3, BelieveKeeps
<1>6. WorldInv' /\ ClientInv'
  BY <1>1, <1>5, StatusPartition DEF WorldInv, ClientInv
<1>7. LinkInv'
  <2>1. LinkIs(link', link.open, link.part, <<>>, "none", <<>>, over)
    <3>1. <<>> \in Seq(Statuses)
      OBVIOUS
    <3>2. QED
      BY <1>1, <1>3, <1>4, <3>1, LinkReads
  <2>2. link.open => link.part \in {0, partition'}
    BY <1>3, <1>5 DEF True
  <2>3. QED
    BY <1>5, <2>1, <2>2 DEF LinkIs, LinkInv, Quiet
<1>8. QED
  BY <1>5, <1>6, <1>7 DEF ClientsInv

LEMMA ReceiveLateKeeps == ASSUME ClientsInv, ReceiveLate PROVE ClientsInv'
<1>1. /\ WorldInv /\ ClientInv /\ LinkInv /\ call.at = "wait" /\ link.late /\ link' = link
      /\ UNCHANGED world /\ value' = value /\ newest' = newest
      /\ async' = async /\ connected' = connected /\ up' = up
      /\ overtaken' = overtaken /\ calls' = calls /\ crashes' = crashes /\ faults' = faults
  BY DEF ClientsInv, ReceiveLate, world
<1>2. PICK s \in Statuses : Believe(s)
  BY DEF ReceiveLate
<1>3. /\ BacklogInv' /\ QueueInv' /\ CallInv' /\ call'.at # "wait"
      /\ partition' = IF s = "OK" /\ call.op = "select" THEN call.request.part ELSE partition
  BY <1>1, <1>2, BelieveKeeps
<1>4. WorldInv' /\ ClientInv'
  BY <1>1, <1>3, StatusPartition DEF WorldInv, ClientInv
<1>5. LinkInv'
  BY <1>1, <1>3, LinkLeft
<1>6. QED
  BY <1>3, <1>4, <1>5 DEF ClientsInv

LEMMA ReceiveEndKeeps == ASSUME ClientsInv, ReceiveEnd PROVE ClientsInv'
<1>1. /\ WorldInv /\ ClientInv /\ LinkInv /\ call.at = "wait" /\ ~ link.open /\ link' = link
      /\ UNCHANGED world /\ value' = value /\ newest' = newest /\ Broken
      /\ async' = async /\ partition' = partition /\ up' = up
      /\ overtaken' = overtaken /\ calls' = calls /\ crashes' = crashes /\ faults' = faults
  BY DEF ClientsInv, ReceiveEnd, world
<1>2. BacklogInv' /\ QueueInv' /\ CallInv' /\ call'.at # "wait" /\ connected' \in BOOLEAN
  BY <1>1, BrokenKeeps
<1>3. WorldInv' /\ ClientInv' /\ LinkInv'
  BY <1>1, <1>2, LinkLeft DEF WorldInv, ClientInv
<1>4. QED
  BY <1>2, <1>3 DEF ClientsInv

-----------------------------------------------------------------------------
(* The daemon. *)

(* What a step of the daemon leaves of the call, and must keep of the        *)
(* connection.                                                               *)
LEMMA DaemonKeeps ==
  ASSUME ClientsInv, call' = call \/ call' = [call EXCEPT !.calm = FALSE],
         UNCHANGED <<client, ghosts, writes>>, WorldInv',
         \A p \in Points : newest[p] <= newest'[p],
         up' \in BOOLEAN, {calls', crashes', faults'} \subseteq Nat,
         link' \in Link, link'.late = link.late,
         ~ link.late => IF call.at = "wait" THEN Asked' \/ Answered'
                        ELSE link'.open => Quiet' /\ link'.part \in {0, partition}
  PROVE  ClientsInv'
<1>1. /\ call \in Call /\ CallInv /\ ClientInv
      /\ queue' = queue /\ async' = async /\ connected' = connected /\ partition' = partition
      /\ UNCHANGED backlog /\ overtaken' = overtaken
  BY DEF ClientsInv, CallInv, client, ghosts, backlog
<1>2. call' \in Call /\ call'.at = call.at /\ call'.op = call.op /\ call'.request = call.request
  <2>1. \A b \in BOOLEAN : /\ [call EXCEPT !.calm = b] \in Call
                           /\ [call EXCEPT !.calm = b].at = call.at
                           /\ [call EXCEPT !.calm = b].op = call.op
                           /\ [call EXCEPT !.calm = b].request = call.request
    BY <1>1, CallStormy
  <2>2. QED
    BY <1>1, <2>1
<1>3. CallInv' /\ InHand' = InHand
  BY <1>1, <1>2 DEF CallInv, InHand
<1>4. BacklogInv' /\ QueueInv'
  BY <1>1, <1>3, SameBacklog
<1>5. ClientInv'
  BY <1>1 DEF ClientInv
<1>6. LinkInv'
  BY <1>1, <1>2 DEF LinkInv
<1>7. QED
  BY <1>3, <1>4, <1>5, <1>6 DEF ClientsInv

LEMMA PendingRequest ==
  ASSUME ClientsInv, Pending
  PROVE  /\ link \in Link /\ Head(link.requests) \in Req
         /\ ~ link.late => /\ call.at = "wait" /\ link.requests = <<call.request>>
                           /\ link.replies = <<>> /\ link.part \in {0, partition}
                           /\ Head(link.requests) = call.request
<1>1. link \in Link /\ link.requests \in Seq(Req) /\ link.requests # <<>> /\ link.done = "none" /\ link.open
  BY LinkFields DEF ClientsInv, LinkInv, Pending
<1>2. Head(link.requests) \in Req
  BY <1>1
<1>3. ASSUME ~ link.late PROVE Asked /\ call.at = "wait"
  BY <1>1, <1>3 DEF ClientsInv, LinkInv, Quiet, Answered
<1>4. QED
  BY <1>1, <1>2, <1>3 DEF Asked, True

LEMMA SameWorld ==
  ASSUME ClientsInv, UNCHANGED <<value, newest>>
  PROVE  WorldInv' /\ \A p \in Points : newest[p] <= newest'[p]
<1>1. \A p \in Points : newest[p] \in Nat
  BY Stamped DEF ClientsInv
<1>2. QED
  BY <1>1 DEF ClientsInv, WorldInv

LEMMA Counts ==
  ASSUME ClientsInv
  PROVE  up \in BOOLEAN /\ calls \in Nat /\ crashes \in Nat /\ faults \in Nat /\ partition \in Partitions
  BY DEF ClientsInv, ClientInv

LEMMA ServeWriteKeeps == ASSUME ClientsInv, ServeWrite PROVE ClientsInv'
<1> DEFINE e == Head(link.requests).entry
<1>1. /\ Pending /\ Head(link.requests).op = "write" /\ Head(link.requests) \in Req /\ link \in Link
      /\ call' = call /\ UNCHANGED <<client, ghosts, writes>>
      /\ up' = up /\ calls' = calls /\ crashes' = crashes /\ faults' = faults /\ partition' = partition
  BY PendingRequest DEF ServeWrite, bounds, client
<1>2. e \in Written /\ e.point \in Points /\ e.stamp \in Stamps /\ e.stamp \in Nat
  BY <1>1, ReqFields, WrittenFields
<1>3. \/ /\ value' = [value EXCEPT ![e.point] = e.stamp]
         /\ newest' = [newest EXCEPT ![e.point] = IF newest[e.point] < e.stamp THEN e.stamp
                                                  ELSE newest[e.point]]
         /\ link' = [link EXCEPT !.done = "OK"]
      \/ /\ link' \in {[link EXCEPT !.done = "DENIED"], [link EXCEPT !.done = "ERROR"]}
         /\ UNCHANGED <<value, newest>>
  BY DEF ServeWrite
<1> HIDE DEF e
<1>4. /\ \A p \in Points : newest[p] \in Nat
      /\ WorldInv
  BY Stamped DEF ClientsInv
<1>5. PICK s \in Statuses :
        /\ link' = [link EXCEPT !.done = s]
        /\ WorldInv' /\ \A p \in Points : newest[p] <= newest'[p]
        /\ s = "OK" => e.stamp <= newest'[e.point]
  <2>1. CASE /\ value' = [value EXCEPT ![e.point] = e.stamp]
             /\ newest' = [newest EXCEPT ![e.point] = IF newest[e.point] < e.stamp THEN e.stamp
                                                      ELSE newest[e.point]]
             /\ link' = [link EXCEPT !.done = "OK"]
    <3>1. WorldInv'
      BY <1>2, <1>4, <2>1 DEF WorldInv
    <3>2. /\ \A p \in Points : newest[p] <= newest'[p]
          /\ e.stamp <= newest'[e.point]
      BY <1>2, <1>4, <2>1 DEF WorldInv
    <3>3. QED
      BY <2>1, <3>1, <3>2 DEF Statuses
  <2>2. CASE /\ link' \in {[link EXCEPT !.done = "DENIED"], [link EXCEPT !.done = "ERROR"]}
             /\ UNCHANGED <<value, newest>>
    BY <2>2, SameWorld DEF Statuses
  <2>3. QED
    BY <1>3, <2>1, <2>2
<1>6. LinkIs(link', link.open, link.part, link.requests, s, link.replies, link.late)
  BY <1>1, <1>5, LinkServes DEF Statuses
<1>7. ~ link.late => call.at = "wait" /\ Asked'
  <2> SUFFICES ASSUME ~ link.late PROVE call.at = "wait" /\ Asked'
    OBVIOUS
  <2>1. /\ call.at = "wait" /\ link.requests = <<call.request>> /\ link.replies = <<>>
        /\ link.part \in {0, partition} /\ Head(link.requests) = call.request
    BY <1>1, PendingRequest
  <2>2. call.op # "select"
    BY <1>1, <2>1 DEF ClientsInv, CallInv
  <2>3. True(s)'
    BY <1>1, <1>5, <1>6, <2>1, <2>2 DEF True, LinkIs, e
  <2>4. QED
    BY <1>1, <1>6, <2>1, <2>3 DEF Asked, LinkIs
<1>8. QED
  BY <1>1, <1>5, <1>6, <1>7, Counts, DaemonKeeps DEF LinkIs

LEMMA ServeOtherKeeps == ASSUME ClientsInv, ServeOther PROVE ClientsInv'
<1> DEFINE r == Head(link.requests)
<1>1. /\ Pending /\ r \in Req /\ link \in Link
      /\ call' = call /\ UNCHANGED <<client, ghosts, writes>> /\ UNCHANGED <<value, newest>>
      /\ up' = up /\ calls' = calls /\ crashes' = crashes /\ faults' = faults /\ partition' = partition
  BY PendingRequest DEF ServeOther, bounds, client, world
<1>2. r.part \in Partitions
  BY <1>1, ReqFields
<1>3. \/ r.op = "select" /\ link' = [link EXCEPT !.part = r.part, !.done = "OK"]
      \/ r.op # "write" /\ \E s \in Statuses : (r.op = "select" => s # "OK") /\ link' = [link EXCEPT !.done = s]
  BY DEF ServeOther, Statuses
<1> HIDE DEF r
<1>4. PICK s \in Statuses, q \in Partitions :
        /\ LinkIs(link', link.open, q, link.requests, s, link.replies, link.late)
        /\ r.op # "write"
        /\ IF r.op = "select" /\ s = "OK" THEN q = r.part ELSE q = link.part
  <2>1. CASE r.op = "select" /\ link' = [link EXCEPT !.part = r.part, !.done = "OK"]
    <3>1. LinkIs(link', link.open, r.part, link.requests, "OK", link.replies, link.late)
      BY <1>1, <1>2, <2>1, LinkSelects DEF Statuses
    <3>2. QED
      BY <1>2, <2>1, <3>1 DEF Statuses
  <2>2. ASSUME r.op # "write", NEW s \in Statuses, r.op = "select" => s # "OK",
               link' = [link EXCEPT !.done = s]
        PROVE  \E q \in Partitions :
                 /\ LinkIs(link', link.open, q, link.requests, s, link.replies, link.late)
                 /\ IF r.op = "select" /\ s = "OK" THEN q = r.part ELSE q = link.part
    BY <1>1, <2>2, LinkServes, LinkFields
  <2>3. QED
    BY <1>3, <2>1, <2>2
<1>5. ~ link.late => call.at = "wait" /\ Asked'
  <2> SUFFICES ASSUME ~ link.late PROVE call.at = "wait" /\ Asked'
    OBVIOUS
  <2>1. /\ call.at = "wait" /\ link.requests = <<call.request>> /\ link.replies = <<>>
        /\ link.part \in {0, partition} /\ r = call.request
    BY <1>1, PendingRequest DEF r
  <2>2. call.op = "select" <=> r.op = "select"
    BY <1>4, <2>1, NoRequestType DEF ClientsInv, CallInv
  <2>3. True(s)'
    BY <1>1, <1>4, <2>1, <2>2 DEF True, LinkIs
  <2>4. QED
    BY <1>1, <1>4, <2>1, <2>3 DEF Asked, LinkIs
<1>6. QED
  BY <1>1, <1>4, <1>5, SameWorld, Counts, DaemonKeeps DEF LinkIs

(* A status waits to be sent only for a request. *)
Served == link.done # "none" => link.requests # <<>>

LEMMA ReplyKeeps == ASSUME ClientsInv, Served, Reply PROVE ClientsInv'
<1>1. /\ link \in Link /\ LinkInv /\ link.open /\ link.done # "none"
      /\ call' = call /\ UNCHANGED <<client, ghosts, writes>> /\ UNCHANGED <<value, newest>>
      /\ newest' = newest
      /\ up' = up /\ calls' = calls /\ crashes' = crashes /\ faults' = faults /\ partition' = partition
      /\ link' = [link EXCEPT !.requests = Tail(link.requests), !.done = "none",
                              !.replies = IF link.late THEN <<>> ELSE Append(link.replies, link.done)]
  BY DEF ClientsInv, LinkInv, Reply, bounds, client, world
<1>2. /\ link.requests \in Seq(Req) /\ link.replies \in Seq(Statuses) /\ link.done \in Statuses
  BY <1>1, LinkFields
<1>3. CASE link.late
  <2>1. link' = [link EXCEPT !.requests = Tail(link.requests), !.done = "none", !.replies = <<>>]
    BY <1>1, <1>3
  <2>2. Tail(link.requests) \in Seq(Req) /\ <<>> \in Seq(Statuses)
    <3>1. link.requests # <<>>
      BY <1>1 DEF Served
    <3>2. QED
      BY <1>2, <3>1, HeadTailProperties
  <2>3. LinkIs(link', link.open, link.part, Tail(link.requests), "none", <<>>, link.late)
    <3>1. link \in Link
      BY <1>1
    <3>2. \A r \in Seq(Req), t \in Seq(Statuses) :
            LinkIs([link EXCEPT !.requests = r, !.done = "none", !.replies = t],
                   link.open, link.part, r, "none", t, link.late)
      BY <3>1, LinkReplies
    <3>3. LinkIs([link EXCEPT !.requests = Tail(link.requests), !.done = "none", !.replies = <<>>],
                 link.open, link.part, Tail(link.requests), "none", <<>>, link.late)
      BY <2>2, <3>2
    <3>4. QED
      BY <2>1, <3>3
  <2>4. QED
    BY <1>1, <1>3, <2>3, SameWorld, Counts, DaemonKeeps DEF LinkIs
<1>4. CASE ~ link.late
  <2>1. Asked /\ call.at = "wait"
    BY <1>1, <1>4 DEF LinkInv, Quiet, Answered
  <2>2. link.requests = <<call.request>> /\ link.replies = <<>> /\ True(link.done)
    BY <2>1 DEF Asked
  <2>3. Tail(link.requests) = <<>> /\ Append(link.replies, link.done) = <<link.done>>
        /\ <<>> \in Seq(Req) /\ <<link.done>> \in Seq(Statuses)
    BY <1>2, <2>2
  <2>4. LinkIs(link', link.open, link.part, <<>>, "none", <<link.done>>, link.late)
    BY <1>1, <1>4, <2>3, LinkReplies
  <2>5. Answered'
    <3> DEFINE s == link.done
    <3>1. True(s)
      BY <2>2
    <3>2. link'.requests = <<>> /\ link'.done = "none" /\ link'.replies = <<s>>
          /\ link'.open = link.open /\ link'.part = link.part
      BY <2>4 DEF LinkIs
    <3>3. s \in Statuses
      BY <1>2
    <3> HIDE DEF s
    <3>4. QED
      BY <1>1, <3>1, <3>2, <3>3 DEF Answered, True
  <2>6. QED
    BY <1>1, <2>1, <2>4, <2>5, SameWorld, Counts, DaemonKeeps DEF LinkIs
<1>5. QED
  BY <1>3, <1>4

(* What the daemon's failures leave of a status that is on its way. *)
LEMMA TrueKeeps ==
  ASSUME NEW s, True(s), call'.request = call.request, call'.op = call.op, newest' = newest,
         partition' = partition, link'.part = link.part, link'.open => link.open
  PROVE  True(s)'
  BY DEF True

LEMMA FailWriteKeeps == ASSUME ClientsInv, FailWrite PROVE ClientsInv'
<1>1. /\ Pending /\ Head(link.requests).op = "write" /\ link \in Link /\ call \in Call
      /\ call' = [call EXCEPT !.calm = FALSE] /\ UNCHANGED <<client, ghosts, writes>>
      /\ UNCHANGED <<value, newest>> /\ newest' = newest
      /\ up' = up /\ calls' = calls /\ crashes' = crashes /\ faults' = faults + 1
      /\ partition' = partition /\ link' = [link EXCEPT !.done = "ERROR"]
  BY PendingRequest DEF FailWrite, ClientsInv, CallInv, client, world
<1>2. call'.request = call.request /\ call'.op = call.op
  <2>1. \A b \in BOOLEAN : /\ [call EXCEPT !.calm = b].op = call.op
                           /\ [call EXCEPT !.calm = b].request = call.request
    BY <1>1, CallStormy
  <2>2. QED
    BY <1>1, <2>1
<1>3. LinkIs(link', link.open, link.part, link.requests, "ERROR", link.replies, link.late)
  BY <1>1, LinkServes DEF Statuses
<1>4. ~ link.late => call.at = "wait" /\ Asked'
  <2> SUFFICES ASSUME ~ link.late PROVE call.at = "wait" /\ Asked'
    OBVIOUS
  <2>1. /\ call.at = "wait" /\ link.requests = <<call.request>> /\ link.replies = <<>>
        /\ link.part \in {0, partition}
    BY <1>1, PendingRequest
  <2>2. True("ERROR")'
    BY <1>1, <1>3, <2>1 DEF True, LinkIs
  <2>3. QED
    BY <1>2, <1>3, <2>1, <2>2 DEF Asked, LinkIs
<1>5. faults' \in Nat
  BY <1>1, Counts
<1>6. QED
  BY <1>1, <1>3, <1>4, <1>5, SameWorld, Counts, DaemonKeeps DEF LinkIs

(* The connection is closed by the daemon. *)
LEMMA ClosedKeeps ==
  ASSUME ClientsInv, link' = [link EXCEPT !.open = FALSE],
         call' = [call EXCEPT !.calm = FALSE],
         UNCHANGED <<client, value, newest, ghosts, writes>>,
         up' \in BOOLEAN, {calls', crashes', faults'} \subseteq Nat
  PROVE  ClientsInv'
<1>1. link \in Link /\ LinkInv /\ call \in Call /\ partition' = partition /\ newest' = newest
  BY DEF ClientsInv, LinkInv, CallInv, client, world
<1>2. call'.request = call.request /\ call'.op = call.op
  <2>1. \A b \in BOOLEAN : /\ [call EXCEPT !.calm = b].op = call.op
                           /\ [call EXCEPT !.calm = b].request = call.request
    BY <1>1, CallStormy
  <2>2. QED
    BY <2>1
<1>3. LinkIs(link', FALSE, link.part, link.requests, link.done, link.replies, link.late)
  <2>1. \A b \in BOOLEAN : LinkIs([link EXCEPT !.open = b], b, link.part, link.requests,
                                  link.done, link.replies, link.late)
    BY <1>1, LinkOpens
  <2>2. LinkIs([link EXCEPT !.open = FALSE], FALSE, link.part, link.requests,
               link.done, link.replies, link.late)
    BY <2>1
  <2>3. QED
    BY <2>2
<1>4. \A s : True(s) => True(s)'
  BY <1>1, <1>2, <1>3, TrueKeeps DEF LinkIs
<1>5. Asked => Asked'
  <2>1. SUFFICES ASSUME Asked PROVE Asked'
    OBVIOUS
  <2>2. PICK s : s = link.done
    OBVIOUS
  <2>3. link'.done = s /\ True(s)
    BY <1>3, <2>1, <2>2 DEF Asked, LinkIs
  <2>4. True(s)'
    BY <1>4, <2>3
  <2>5. True(link.done)'
    BY <2>3, <2>4 DEF True
  <2>6. link'.requests = <<call'.request>> /\ link'.replies = <<>>
    BY <1>2, <1>3, <2>1 DEF Asked, LinkIs
  <2>7. QED
    BY <2>5, <2>6 DEF Asked
<1>6. Answered => Answered'
  <2>1. SUFFICES ASSUME Answered PROVE Answered'
    OBVIOUS
  <2>2. PICK s \in Statuses : link.replies = <<s>> /\ True(s)
    BY <2>1 DEF Answered
  <2>3. True(s)'
    BY <1>4, <2>2
  <2>4. QED
    BY <1>3, <2>1, <2>2, <2>3 DEF Answered, LinkIs
<1>7. ~ link.late => IF call.at = "wait" THEN Asked' \/ Answered' ELSE ~ link'.open
  BY <1>1, <1>3, <1>5, <1>6 DEF LinkInv, LinkIs
<1>8. QED
  BY <1>1, <1>3, <1>7, SameWorld, DaemonKeeps DEF LinkIs

LEMMA TurnAwayKeeps == ASSUME ClientsInv, TurnAway PROVE ClientsInv'
<1>1. /\ link' = [link EXCEPT !.open = FALSE] /\ call' = [call EXCEPT !.calm = FALSE]
      /\ UNCHANGED <<client, value, newest, ghosts, writes>>
      /\ up' = up /\ calls' = calls /\ crashes' = crashes /\ faults' = faults + 1
  BY DEF TurnAway, world
<1>2. up' \in BOOLEAN /\ {calls', crashes', faults'} \subseteq Nat
  BY <1>1, Counts
<1>3. QED
  BY <1>1, <1>2, ClosedKeeps

(* What holds the daemon up is not seen by the client. *)
LEMMA StallKeeps == ASSUME ClientsInv, Stall \/ Resume PROVE ClientsInv'
<1>1. /\ link' = link /\ call' = call /\ UNCHANGED <<client, ghosts, writes>>
      /\ UNCHANGED <<value, newest>> /\ newest' = newest /\ partition' = partition
      /\ up' = up /\ calls' = calls /\ crashes' = crashes /\ faults' \in {faults, faults + 1}
      /\ link \in Link /\ LinkInv
  BY DEF Stall, Resume, client, bounds, ClientsInv, LinkInv
<1>2. up' \in BOOLEAN /\ {calls', crashes', faults'} \subseteq Nat
  BY <1>1, Counts
<1>3. ~ link.late => IF call.at = "wait" THEN Asked' \/ Answered'
                     ELSE link'.open => Quiet' /\ link'.part \in {0, partition}
  BY <1>1 DEF LinkInv, Asked, Answered, Quiet, True
<1>4. QED
  BY <1>1, <1>2, <1>3, SameWorld, DaemonKeeps

LEMMA CrashKeeps == ASSUME ClientsInv, Crash PROVE ClientsInv'
<1>1. /\ link' = [link EXCEPT !.open = FALSE] /\ call' = [call EXCEPT !.calm = FALSE]
      /\ UNCHANGED <<client, value, newest, ghosts, writes>>
      /\ up' = FALSE /\ calls' = calls /\ crashes' = crashes + 1 /\ faults' = faults
  BY DEF Crash
<1>2. up' \in BOOLEAN
  BY <1>1
<1>3. {calls', crashes', faults'} \subseteq Nat
  BY <1>1, Counts
<1>4. QED
  BY <1>1, <1>2, <1>3, ClosedKeeps

LEMMA StartKeeps == ASSUME ClientsInv, Start PROVE ClientsInv'
<1>1. /\ link' = link /\ call' = call /\ UNCHANGED <<client, ghosts, writes>> /\ UNCHANGED <<value, newest>>
      /\ up' = TRUE /\ calls' = calls /\ crashes' = crashes /\ faults' = faults
      /\ partition' = partition /\ newest' = newest /\ link \in Link /\ LinkInv
  BY DEF Start, client, world, bounds, ClientsInv, LinkInv
<1>2. up' \in BOOLEAN /\ {calls', crashes', faults'} \subseteq Nat
  BY <1>1, Counts
<1>3. ~ link.late => IF call.at = "wait" THEN Asked' \/ Answered'
                     ELSE link'.open => Quiet' /\ link'.part \in {0, partition}
  BY <1>1 DEF LinkInv, Asked, Answered, Quiet, True
<1>4. QED
  BY <1>1, <1>2, <1>3, SameWorld, DaemonKeeps

-----------------------------------------------------------------------------
(* The theorems. *)

LEMMA ServedKeeps == ASSUME ClientsInv, Served, [Next]_vars PROVE Served'
<1>1. link \in Link /\ link.requests \in Seq(Req)
  BY LinkFields DEF ClientsInv, LinkInv
<1>2. CASE link' = link
  BY <1>2 DEF Served
<1>3. ASSUME NEW b \in BOOLEAN, link' = [link EXCEPT !.open = b] PROVE Served'
  BY <1>1, <1>3, LinkOpens DEF Served, LinkIs
<1>4. ASSUME NEW d \in Statuses, link.requests # <<>>, link' = [link EXCEPT !.done = d] PROVE Served'
  BY <1>1, <1>4, LinkServes DEF Served, LinkIs
<1>5. CASE link' \in {NoLink, NewLink}
  BY <1>5, LinkStart DEF Served, NoLink
<1>6. CASE Send
  <2>1. link' = link \/ link' = [link EXCEPT !.requests = Append(link.requests, call.request)]
    BY <1>6 DEF Send
  <2>2. Append(link.requests, call.request) \in Seq(Req) /\ Append(link.requests, call.request) # <<>>
    BY <1>1, CallFields DEF ClientsInv, CallInv
  <2>3. ASSUME NEW r \in Seq(Req), r # <<>>, link' = [link EXCEPT !.requests = r] PROVE Served'
    <3>1. LinkIs(link', link.open, link.part, r, link.done, link.replies, link.late)
      BY <1>1, <2>3, LinkAsks
    <3>2. QED
      BY <2>3, <3>1 DEF Served, LinkIs
  <2>4. QED
    BY <1>2, <2>1, <2>2, <2>3
<1>7. CASE Receive
  <2>1. PICK over \in BOOLEAN : link' = [link EXCEPT !.replies = Tail(link.replies), !.late = over]
    BY <1>7 DEF Receive
  <2>2. Tail(link.replies) \in Seq(Statuses)
    <3>1. link.replies \in Seq(Statuses) /\ link.replies # <<>>
      BY <1>1, <1>7, LinkFields DEF Receive
    <3>2. QED
      BY <3>1, HeadTailProperties
  <2>3. LinkIs(link', link.open, link.part, link.requests, link.done, Tail(link.replies), over)
    <3>1. \A r \in Seq(Statuses) : LinkIs([link EXCEPT !.replies = r, !.late = over],
             link.open, link.part, link.requests, link.done, r, over)
      BY <1>1, LinkReads
    <3>2. QED
      BY <2>1, <2>2, <3>1
  <2>4. QED
    BY <2>3 DEF Served, LinkIs
<1>8. CASE ServeOther
  <2>1. Head(link.requests) \in Req /\ link.requests # <<>>
    BY <1>8, PendingRequest DEF ServeOther, Pending
  <2>2. \/ link' = [link EXCEPT !.part = Head(link.requests).part, !.done = "OK"]
        \/ \E d \in Statuses : link' = [link EXCEPT !.done = d]
    BY <1>8 DEF ServeOther, Statuses
  <2>3. ASSUME link' = [link EXCEPT !.part = Head(link.requests).part, !.done = "OK"] PROVE Served'
    <3>1. Head(link.requests).part \in Partitions /\ "OK" \in Statuses
      BY <2>1, ReqFields DEF Statuses
    <3>2. LinkIs(link', link.open, Head(link.requests).part, link.requests, "OK",
                 link.replies, link.late)
      <4>1. \A q \in Partitions : LinkIs([link EXCEPT !.part = q, !.done = "OK"], link.open, q,
                 link.requests, "OK", link.replies, link.late)
        BY <1>1, <3>1, LinkSelects
      <4>2. QED
        BY <2>3, <3>1, <4>1
    <3>3. QED
      BY <2>1, <3>2 DEF Served, LinkIs
  <2>4. QED
    BY <1>4, <2>1, <2>2, <2>3
<1>9. CASE Reply
  <2>1. link' = [link EXCEPT !.requests = Tail(link.requests), !.done = "none",
                             !.replies = IF link.late THEN <<>> ELSE Append(link.replies, link.done)]
    BY <1>9 DEF Reply
  <2>2. link'.done = "none"
    BY <1>1, <2>1 DEF Link
  <2>3. QED
    BY <2>2 DEF Served
<1>10. CASE Reopen \/ Connect
  BY <1>5, <1>10 DEF Reopen, Connect
<1>11. CASE ServeWrite \/ FailWrite
  BY <1>4, <1>11 DEF ServeWrite, FailWrite, Pending, Statuses
<1>12. CASE TurnAway \/ Crash
  BY <1>3, <1>12 DEF TurnAway, Crash
<1>13. CASE \/ \E p \in Points : WriteAsync(p) \/ WriteSync(p)
            \/ Flush \/ ControlCalls \/ (\E mode \in BOOLEAN : SetAsync(mode))
            \/ ReceiveLate \/ ReceiveEnd \/ Stall \/ Resume \/ Start \/ UNCHANGED vars
  BY <1>2, <1>13 DEF WriteAsync, WriteSync, Flush, ControlCalls, Control, SetAsync,
                     ReceiveLate, ReceiveEnd, Stall, Resume, Start, vars
<1>14. QED
  BY <1>6, <1>7, <1>8, <1>9, <1>10, <1>11, <1>12, <1>13 DEF Next, Daemon

LEMMA ClientStart == ASSUME Init PROVE ClientsInv /\ Served
<1>1. 0 \in Stamps /\ 0 \in Partitions /\ {0} \subseteq Nat
  BY Numbers, PolicyValues DEF Stamps
<1>2. up \in BOOLEAN
  BY PolicyValues DEF Init, PolicyLoads
<1>3. /\ queue = <<>> /\ async = TRUE /\ connected = FALSE /\ partition = 0 /\ call = Idle
      /\ link = NoLink /\ value = [p \in Points |-> 0] /\ newest = value /\ kept = value
      /\ mistaken = value /\ overtaken = {} /\ clash = FALSE /\ writes = 0 /\ calls = 0 /\ crashes = 0 /\ faults = 0
  BY DEF Init
<1>4. WorldInv
  BY <1>1, <1>3 DEF WorldInv
<1>5. async \in BOOLEAN /\ connected \in BOOLEAN
  BY <1>3
<1>6. ClientInv
  BY <1>1, <1>2, <1>3, <1>5 DEF ClientInv
<1>7. BacklogInv
  <2>1. clash \in BOOLEAN
    BY <1>3
  <2>2. QED
    BY <1>1, <1>3, <2>1 DEF BacklogInv
<1>8. CallInv
  BY <1>3, IdleType DEF CallInv
<1>9. LinkInv /\ Served
  BY <1>3, IdleType, LinkStart DEF LinkInv, Served, NoLink
<1>10. QueueInv
  <2>1. InHand = NoEntry
    BY <1>3, IdleCall
  <2>2. Sound(queue, InHand)
    BY <1>3, <2>1, Numbers DEF Sound, Once
  <2>3. \A p \in Points : Kept(p)
    BY <1>3 DEF Kept, Settled
  <2>4. QED
    BY <2>2, <2>3 DEF QueueInv
<1>11. QED
  BY <1>4, <1>6, <1>7, <1>8, <1>9, <1>10 DEF ClientsInv

LEMMA StutterKeeps == ASSUME ClientsInv, UNCHANGED vars PROVE ClientsInv'
<1>1. /\ queue' = queue /\ async' = async /\ connected' = connected /\ partition' = partition
      /\ call' = call /\ link' = link /\ up' = up /\ value' = value /\ newest' = newest
      /\ kept' = kept /\ mistaken' = mistaken /\ overtaken' = overtaken /\ clash' = clash
      /\ writes' = writes /\ calls' = calls /\ crashes' = crashes /\ faults' = faults
  BY DEF vars, client, world, ghosts, bounds
<1>2. WorldInv' /\ ClientInv' /\ BacklogInv'
  BY <1>1 DEF ClientsInv, WorldInv, ClientInv, BacklogInv
<1>3. CallInv' /\ LinkInv'
  BY <1>1 DEF ClientsInv, CallInv, LinkInv, Asked, Answered, Quiet, True
<1>4. QueueInv'
  BY <1>1 DEF ClientsInv, QueueInv, Sound, Kept, Settled, InHand
<1>5. QED
  BY <1>2, <1>3, <1>4 DEF ClientsInv

LEMMA ClientStep == ASSUME ClientsInv, Served, [Next]_vars PROVE ClientsInv'
<1>1. CASE \E p \in Points : WriteAsync(p) \/ WriteSync(p)
  BY <1>1, WriteAsyncKeeps, WriteSyncKeeps
<1>2. CASE Flush \/ Reopen \/ \E mode \in BOOLEAN : SetAsync(mode)
  BY <1>2, FlushKeeps, ReopenKeeps, SetAsyncKeeps
<1>3. CASE ControlCalls
  <2>1. 0 \in Partitions
    BY PolicyValues
  <2>2. QED
    BY <1>3, <2>1, ControlKeeps DEF ControlCalls
<1>4. CASE Connect \/ Send \/ Receive \/ ReceiveLate \/ ReceiveEnd
  BY <1>4, ConnectKeeps, SendKeeps, ReceiveKeeps, ReceiveLateKeeps, ReceiveEndKeeps
<1>5. CASE Daemon
  BY <1>5, ServeWriteKeeps, ServeOtherKeeps, ReplyKeeps, FailWriteKeeps, TurnAwayKeeps,
     StallKeeps, CrashKeeps, StartKeeps DEF Daemon
<1>6. CASE UNCHANGED vars
  BY <1>6, StutterKeeps
<1>7. QED
  BY <1>1, <1>2, <1>3, <1>4, <1>5, <1>6 DEF Next

LEMMA StalledKeeps ==
  ASSUME up \in BOOLEAN, stalled \in BOOLEAN, [Next]_vars
  PROVE  stalled' \in BOOLEAN
<1>1. CASE Crash \/ Stall \/ Resume
  BY <1>1 DEF Crash, Stall, Resume
<1>2. CASE ~ (Crash \/ Stall \/ Resume)
  <2>1. stalled' = stalled
    BY <1>2 DEF Next, Daemon, ControlCalls, WriteAsync, WriteSync, Flush, Control, SetAsync, Reopen,
                Connect, Send, Receive, ReceiveLate, ReceiveEnd, ServeWrite, ServeOther, Reply,
                FailWrite, TurnAway, Start, vars, world
  <2>2. QED
    BY <2>1
<1>3. QED
  BY <1>1, <1>2

\* In every reachable state of the client and the daemon the queue, the call, the
\* connection and the database are as ClientsInv says (client.c, irtcli_flush).
THEOREM ClientAlways == Spec => [](ClientsInv /\ Served)
<1>1. Init => ClientsInv /\ Served
  BY ClientStart
<1>2. ClientsInv /\ Served /\ [Next]_vars => (ClientsInv /\ Served)'
  BY ClientStep, ServedKeeps
<1>3. QED
  BY <1>1, <1>2, PTL DEF Spec

\* The variables keep their types: a request on the wire and an entry in the queue are
\* of the forms the client builds (client.c, q_push and request).
THEOREM ClientTypes == Spec => []TypeOK
<1>1. ClientsInv /\ stalled \in BOOLEAN => TypeOK
  <2>1. SUFFICES ASSUME ClientsInv, stalled \in BOOLEAN PROVE TypeOK
    OBVIOUS
  <2>2. WorldInv /\ ClientInv /\ BacklogInv /\ call \in Call /\ link \in Link
    BY <2>1 DEF ClientsInv, CallInv, LinkInv
  <2>3. Req \subseteq Request /\ Written \subseteq Entry
    BY DEF Req, Request, Ops, Written
  <2>4. queue \in Seq(Entry) /\ link.requests \in Seq(Request)
    BY <2>2, <2>3, LinkFields DEF BacklogInv
  <2>5. call \in [op : {"idle", "flush", "sync", "select", "list", "ask"},
                  at : {"idle", "connect", "send", "wait"}, request : Request,
                  try : {1, 2}, calm : BOOLEAN]
    BY <2>2, <2>3 DEF Call
  <2>6. link \in [open : BOOLEAN, part : Partitions, requests : Seq(Request),
                  done : Statuses \cup {"none"}, replies : Seq(Statuses), late : BOOLEAN]
    BY <2>2, <2>4 DEF Link
  <2>7. {async, connected, up, stalled} \subseteq BOOLEAN /\ clash \in BOOLEAN
    BY <2>1, <2>2 DEF ClientInv, BacklogInv
  <2>8. /\ partition \in Partitions /\ overtaken \subseteq Points
        /\ {calls, crashes, faults} \subseteq Nat /\ writes \in Stamps
        /\ {value, newest, kept, mistaken} \subseteq [Points -> Stamps]
    BY <2>2 DEF ClientInv, BacklogInv, WorldInv
  <2>9. QED
    BY <2>4, <2>5, <2>6, <2>7, <2>8 DEF TypeOK
<1>2. Init => stalled \in BOOLEAN
  BY DEF Init
<1>3. ClientsInv /\ stalled \in BOOLEAN /\ [Next]_vars => (stalled \in BOOLEAN)'
  BY StalledKeeps DEF ClientsInv, ClientInv
<1>4. QED
  BY <1>1, <1>2, <1>3, ClientAlways, PTL DEF Spec

\* For any capacity and any number of failures the queue has room for the entry a
\* flush holds, and no point is twice in the queue and the hand: irtcli_flush can
\* put its entry back in front without a check (client.c, q_push and irtcli_flush).
THEOREM ClientQueueSound == Spec => []QueueSound
<1>1. ClientsInv => QueueSound
  <2>1. SUFFICES ASSUME ClientsInv, ~ clash PROVE QueueSound
    BY DEF QueueSound
  <2>2. Sound(queue, InHand) /\ queue \in Seq(Written) /\ CallInv
    BY <2>1 DEF ClientsInv, QueueInv, BacklogInv
  <2>3. Len(queue) \in Nat /\ DOMAIN queue = 1 .. Len(queue)
    BY <2>2, LenProperties
  <2>4. CASE InHand = NoEntry
    BY <2>2, <2>3, <2>4, Numbers DEF QueueSound, Sound, Once
  <2>5. CASE InHand # NoEntry
    <3>1. InHand \in Written
      BY <2>2, <2>5, Hand
    <3> DEFINE q == <<InHand>> \o queue
    <3>2. Len(q) <= Cap /\ Once(q)
      BY <2>2, <2>3, <2>5, <3>1, ConsKeeps, Numbers DEF Sound
    <3> HIDE DEF q
    <3>3. QueueSound <=> (clash \/ (Len(q) <= Cap /\ \A i, j \in DOMAIN q : q[i].point = q[j].point => i = j))
      BY <2>5 DEF QueueSound, q
    <3>4. QED
      BY <3>2, <3>3 DEF Once
  <2>6. QED
    BY <2>4, <2>5
<1>2. QED
  BY <1>1, ClientAlways, PTL

\* For any number of points, crashes, lost replies and retries, a write the client
\* answered for is in the database or still in its queue (or a later one of its
\* point is), unless an alert callback took its slot, or the OK it was let go for was
\* read on a connection out of step (client.c, irtcli_flush and irtcli_list_in).
THEOREM ClientNothingDropped == Spec => []NothingDropped
<1>1. ClientsInv => NothingDropped
  <2>1. SUFFICES ASSUME ClientsInv, ~ clash, NEW p \in Points
                 PROVE  \/ kept[p] <= newest[p] \/ kept[p] <= mistaken[p]
                        \/ \E e \in Entries : e.point = p /\ kept[p] <= e.stamp
    BY DEF NothingDropped
  <2>2. Kept(p)
    BY <2>1 DEF ClientsInv, QueueInv
  <2>3. ASSUME NEW e, InQueue(queue, e) \/ e = InHand, e # NoEntry PROVE e \in Entries
    BY <2>3 DEF Entries, InQueue
  <2>4. QED
    BY <2>2, <2>3 DEF Kept, Settled
<1>2. QED
  BY <1>1, ClientAlways, PTL

\* For any sequence of calls, refusals and reconnects, a connection in step is in the
\* partition the client believes it selected, or in partition 0 (client.c, irtcli_select
\* and irtcli_connect; rtdbd.c, op_select).
THEOREM ClientPartitionKnown == Spec => []PartitionKnown
<1>1. ClientsInv => PartitionKnown
  <2>1. SUFFICES ASSUME LinkInv, call \in Call, link.open, ~ link.late PROVE PartitionKnown
    BY DEF ClientsInv, CallInv, PartitionKnown
  <2>2. CASE call.at # "wait"
    BY <2>1, <2>2 DEF LinkInv, PartitionKnown
  <2>3. CASE call.at = "wait"
    <3>1. \E s : True(s)
      BY <2>1, <2>3 DEF LinkInv, Asked, Answered
    <3>2. QED
      BY <2>1, <2>3, <3>1 DEF True, PartitionKnown
  <2>4. QED
    BY <2>2, <2>3
<1>2. QED
  BY <1>1, ClientAlways, PTL

-----------------------------------------------------------------------------
(* One flush replays the queue.  While a call is calm the daemon has stayed  *)
(* up, and the connection that the second try made is still open: nothing    *)
(* but a reply that is not OK makes a flush stop before its queue is empty.  *)
CalmInv == call.calm => up /\ (call.try = 2 /\ call.at # "connect" => link.open)

LEMMA CalmFields ==
  ASSUME NEW c \in Call
  PROVE  /\ \A at \in {"connect", "send", "wait"} :
              [c EXCEPT !.at = at].calm = c.calm /\ [c EXCEPT !.at = at].try = c.try
         /\ [c EXCEPT !.at = "connect", !.try = 2].calm = c.calm
         /\ \A r \in Req : LET d == [c EXCEPT !.at = "send", !.try = 1, !.request = r]
                           IN  d.calm = c.calm /\ d.try = 1
         /\ \A b \in BOOLEAN : [c EXCEPT !.calm = b].calm = b
  BY DEF Call

LEMMA CalmIdle == ASSUME call' = Idle PROVE CalmInv'
<1>1. Idle.calm = FALSE
  BY DEF Idle
<1>2. QED
  BY <1>1 DEF CalmInv

LEMMA CalmBegin ==
  ASSUME ClientsInv, NEW op, NEW r, NEW at, call' = Begin(op, r, at), up' = up
  PROVE  CalmInv'
<1>1. call'.try = 1 /\ call'.calm = up
  BY DEF Begin
<1>2. QED
  BY <1>1 DEF CalmInv

LEMMA CalmSame ==
  ASSUME CalmInv, call' = call, up' = up \/ up', link'.open = link.open
  PROVE  CalmInv'
  BY DEF CalmInv

LEMMA CalmBroken ==
  ASSUME ClientsInv, CalmInv, Broken, up' = up
  PROVE  CalmInv'
<1>1. call \in Call
  BY DEF ClientsInv, CallInv
<1>2. CASE call' = Idle
  BY <1>2, CalmIdle
<1>3. CASE call' = [call EXCEPT !.at = "connect", !.try = 2]
  BY <1>1, <1>3, CallRetries, CalmFields DEF CalmInv
<1>4. QED
  BY <1>2, <1>3 DEF Broken, GiveUp, Return

(* The next entry is submitted for the first time. *)
LEMMA CalmTakes ==
  ASSUME ClientsInv, CalmInv, TakeNext, queue # <<>>, up' = up
  PROVE  CalmInv'
<1>1. call \in Call /\ WriteOf(Head(queue)) \in Req
  BY TakeKeeps, WriteOfType DEF ClientsInv, CallInv, BacklogInv
<1>2. call'.calm = call.calm /\ call'.try = 1
  BY <1>1, CalmFields DEF TakeNext
<1>3. QED
  BY <1>2 DEF CalmInv

LEMMA CalmBelieves ==
  ASSUME ClientsInv, CalmInv, NEW s, Believe(s), up' = up
  PROVE  CalmInv'
<1>1. CASE call' = Idle
  BY <1>1, CalmIdle
<1>2. CASE TakeNext /\ queue # <<>>
  BY <1>2, CalmTakes
<1>3. QED
  BY <1>1, <1>2 DEF Believe, GiveUp, Return

LEMMA CalmKeeps == ASSUME ClientsInv, CalmInv, [Next]_vars PROVE CalmInv'
<1>1. call \in Call /\ link \in Link /\ CallInv
  BY DEF ClientsInv, CallInv, LinkInv
<1>2. CASE \/ \E p \in Points : WriteAsync(p)
           \/ \E mode \in BOOLEAN : SetAsync(mode)
           \/ UNCHANGED vars
  BY <1>2, CalmSame DEF WriteAsync, SetAsync, vars
<1>3. CASE Reopen
  BY <1>3, CalmIdle DEF Reopen, Ready
<1>4. CASE Flush \/ ControlCalls \/ \E p \in Points : WriteSync(p)
  BY <1>4, CalmBegin DEF Flush, ControlCalls, Control, WriteSync
<1>5. CASE Connect
  <2>1. CASE up /\ call.request = NoRequest
    <3>1. TakeNext /\ queue # <<>>
      BY <1>1, <1>5, <2>1, NoRequestType DEF Connect, CallInv
    <3>2. QED
      BY <1>5, <3>1, CalmTakes DEF Connect
  <2>2. CASE up /\ call.request # NoRequest
    <3>1. call' = [call EXCEPT !.at = "send"] /\ link' = NewLink /\ up' = up
      BY <1>5, <2>2 DEF Connect
    <3>2. call'.calm = call.calm
      BY <1>1, <3>1, CalmFields
    <3>3. NewLink.open
      <4>1. \A b \in BOOLEAN : [NoLink EXCEPT !.open = b].open = b
        BY LinkStart, LinkOpens DEF LinkIs
      <4>2. QED
        BY <4>1 DEF NewLink
    <3>4. QED
      BY <3>1, <3>2, <3>3 DEF CalmInv
  <2>3. CASE ~ up
    BY <1>5, <2>3, CalmIdle DEF Connect, GiveUp, Return
  <2>4. QED
    BY <2>1, <2>2, <2>3
<1>6. CASE Send
  <2>1. CASE link.open
    <3>1. /\ call' = [call EXCEPT !.at = "wait"] /\ up' = up
          /\ link' = [link EXCEPT !.requests = Append(link.requests, call.request)]
      BY <1>6, <2>1 DEF Send
    <3>2. call'.calm = call.calm
      BY <1>1, <3>1, CalmFields
    <3>3. link'.open = link.open
      BY <1>1, <3>1 DEF Link
    <3>4. QED
      BY <2>1, <3>1, <3>2, <3>3 DEF CalmInv
  <2>2. CASE ~ link.open
    BY <1>6, <2>2, CalmBroken DEF Send
  <2>3. QED
    BY <2>1, <2>2
<1>7. CASE Receive
  BY <1>7, CalmBelieves DEF Receive
<1>8. CASE ReceiveLate
  BY <1>8, CalmBelieves DEF ReceiveLate
<1>9. CASE ReceiveEnd
  BY <1>9, CalmBroken DEF ReceiveEnd
<1>10. CASE ServeWrite \/ ServeOther \/ Reply
  <2>1. call' = call /\ up' = up
    BY <1>10 DEF ServeWrite, ServeOther, Reply
  <2>2. link'.open = link.open
    <3>1. CASE ServeWrite
      BY <1>1, <3>1 DEF ServeWrite, Link
    <3>2. CASE ServeOther
      BY <1>1, <3>2 DEF ServeOther, Link
    <3>3. CASE Reply
      BY <1>1, <3>3 DEF Reply, Link
    <3>4. QED
      BY <1>10, <3>1, <3>2, <3>3
  <2>3. QED
    BY <2>1, <2>2, CalmSame
<1>11. CASE FailWrite \/ TurnAway \/ Crash
  <2>1. call' = [call EXCEPT !.calm = FALSE]
    BY <1>11 DEF FailWrite, TurnAway, Crash
  <2>2. call'.calm = FALSE
    BY <1>1, <2>1, CalmFields
  <2>3. QED
    BY <2>2 DEF CalmInv
<1>12. CASE Stall \/ Resume \/ Start
  BY <1>12, CalmSame DEF Stall, Resume, Start
<1>13. QED
  BY <1>2, <1>3, <1>4, <1>5, <1>6, <1>7, <1>8, <1>9, <1>10, <1>11, <1>12 DEF Next, Daemon

(* A failed send or receive of a calm call is its first: it goes on. *)
LEMMA CalmGoesOn ==
  ASSUME ClientsInv, CalmInv, Broken, call.calm, call.op = "flush",
         call.at \in {"send", "wait"}, ~ link.open
  PROVE  call' # Idle
<1>1. call \in Call /\ call.try = 1
  BY CallFields DEF ClientsInv, CallInv, CalmInv
<1>2. call'.at = "connect"
  BY <1>1, CallRetries DEF Broken
<1>3. QED
  BY <1>2, IdleType

LEMMA ReplaysStep ==
  ASSUME ClientsInv, CalmInv, [Next]_vars, call.op = "flush", call.calm, call' = Idle
  PROVE  queue' = <<>> \/ Refused
<1>1. call \in Call /\ CallInv /\ call # Idle /\ up /\ queue \in Seq(Written)
  BY IdleType DEF ClientsInv, CallInv, CalmInv, BacklogInv
<1>2. ~ TakeNext
  <2>1. SUFFICES ASSUME TakeNext PROVE FALSE
    OBVIOUS
  <2>2. call'.at = "send"
    BY <1>1, <2>1 DEF TakeNext, Call
  <2>3. QED
    BY <2>2, IdleType
<1>3. \A at \in {"connect", "send", "wait"} : call' # [call EXCEPT !.at = at]
  <2>1. TAKE at \in {"connect", "send", "wait"}
  <2>2. [call EXCEPT !.at = at].at = at
    BY <1>1, CallGoes
  <2>3. Idle.at = "idle"
    BY IdleType
  <2>4. ASSUME call' = [call EXCEPT !.at = at] PROVE FALSE
    <3>1. [call EXCEPT !.at = at] # Idle
      BY <2>2, <2>3
    <3>2. QED
      BY <2>4, <3>1
  <2>5. QED
    BY <2>4
<1>4. CASE Connect
  BY <1>1, <1>2, <1>3, <1>4 DEF Connect
<1>5. CASE Send
  BY <1>3, <1>5, CalmGoesOn DEF Send
<1>6. CASE ReceiveEnd
  BY <1>6, CalmGoesOn DEF ReceiveEnd
<1>7. CASE Receive
  BY <1>2, <1>7 DEF Receive, Believe, Refused
<1>8. CASE ReceiveLate
  BY <1>8 DEF ReceiveLate, Refused
<1>9. CASE call' = call
  BY <1>1, <1>9
<1>10. CASE FailWrite \/ TurnAway \/ Crash
  <2>1. call' = [call EXCEPT !.calm = FALSE]
    BY <1>10 DEF FailWrite, TurnAway, Crash
  <2>2. \A b \in BOOLEAN : [call EXCEPT !.calm = b].op = call.op
    BY <1>1, CallStormy
  <2>3. QED
    BY <2>1, <2>2, IdleType
<1>11. CASE Ready
  BY <1>1, <1>11 DEF Ready
<1>12. CASE \/ \E p \in Points : WriteAsync(p) \/ WriteSync(p)
            \/ Flush \/ ControlCalls \/ Reopen \/ \E mode \in BOOLEAN : SetAsync(mode)
  BY <1>11, <1>12 DEF WriteAsync, WriteSync, Flush, ControlCalls, Control, Reopen, SetAsync
<1>13. CASE ServeWrite \/ ServeOther \/ Reply \/ Stall \/ Resume \/ Start \/ UNCHANGED vars
  BY <1>9, <1>13 DEF ServeWrite, ServeOther, Reply, Stall, Resume, Start, vars
<1>14. QED
  BY <1>4, <1>5, <1>6, <1>7, <1>8, <1>10, <1>12, <1>13 DEF Next, Daemon

\* For any length of the queue, a flush over a daemon that stays up submits every
\* entry, also when it begins on the connection of before a restart: it returns with
\* entries left only for a reply that is not OK (client.c, irtcli_flush).
THEOREM ClientReplays == Spec => OneFlushReplays
<1>1. Init => CalmInv
  BY DEF Init, CalmInv, Idle
<1>2. ClientsInv /\ CalmInv /\ [Next]_vars => CalmInv'
  BY CalmKeeps
<1>3. ClientsInv /\ CalmInv /\ [Next]_vars =>
        [(call.op = "flush" /\ call.calm /\ call' = Idle) => (queue' = <<>> \/ Refused)]_vars
  BY ReplaysStep
<1>4. QED
  BY <1>1, <1>2, <1>3, ClientAlways, PTL DEF Spec, OneFlushReplays

-----------------------------------------------------------------------------
(* The database never goes back.  A request that is not answered yet, the    *)
(* entry in the hand and those of the queue are submitted in this order, and *)
(* of two writes of one point the first submitted has the lower stamp: only  *)
(* a synchronous write that overtook the queue, and an alert callback that   *)
(* wrote what the flush held, break it.                                      *)
Asks == {i \in DOMAIN link.requests : link.requests[i].op = "write"}
Fresh(e) == e.point \notin overtaken => value[e.point] <= e.stamp
Before(a, b) == a.point = b.point /\ a.point \notin overtaken => a.stamp <= b.stamp
After(e) == Fresh(e) /\ e.stamp <= writes /\ \A i \in Asks : Before(link.requests[i].entry, e)
Held == call.request.op = "write"
SentInv ==
  /\ \A p \in Points : value[p] <= writes
  /\ \A i \in Asks : Fresh(link.requests[i].entry) /\ link.requests[i].entry.stamp <= writes
  /\ \A i, j \in Asks : i < j => Before(link.requests[i].entry, link.requests[j].entry)
UpInv ==
  /\ Held => After(call.request.entry)
  /\ \A x \in Written : InQueue(queue, x) =>
       After(x) /\ (Held => Before(call.request.entry, x))
OrderInv == clash \/ (SentInv /\ UpInv)

LEMMA PushAdds ==
  ASSUME NEW q \in Seq(Written), NEW e \in Written, NEW x, InQueue(QPush(q, e), x)
  PROVE  InQueue(q, x) \/ x = e
<1>0. Len(q) \in Nat /\ DOMAIN q = 1 .. Len(q)
  BY LenProperties
<1>1. CASE Queued(q, e.point)
  <2> DEFINE r == [i \in DOMAIN q |-> IF q[i].point = e.point THEN e ELSE q[i]]
  <2>1. QPush(q, e) = r /\ DOMAIN r = DOMAIN q
        /\ \A i \in DOMAIN q : r[i] = e \/ r[i] = q[i]
    BY <1>1 DEF QPush
  <2> HIDE DEF r
  <2>2. QED
    BY <2>1 DEF InQueue
<1>2. CASE ~ Queued(q, e.point) /\ Len(q) < Cap
  <2> DEFINE r == Append(q, e)
  <2>1. QPush(q, e) = r
    BY <1>2 DEF QPush
  <2>2. DOMAIN r = 1 .. Len(q) + 1 /\ r[Len(q) + 1] = e /\ \A i \in DOMAIN q : r[i] = q[i]
    BY <1>0, AppendProperties
  <2> HIDE DEF r
  <2>3. \A i \in DOMAIN r : i \in DOMAIN q \/ i = Len(q) + 1
    BY <1>0, <2>2
  <2>4. QED
    BY <2>1, <2>2, <2>3 DEF InQueue
<1>3. CASE ~ Queued(q, e.point) /\ ~ (Len(q) < Cap)
  BY <1>3 DEF QPush
<1>4. QED
  BY <1>1, <1>2, <1>3

LEMMA ConsAdds ==
  ASSUME NEW q \in Seq(Written), NEW h \in Written, NEW x, InQueue(<<h>> \o q, x)
  PROVE  InQueue(q, x) \/ x = h
<1>1. Len(q) \in Nat /\ DOMAIN q = 1 .. Len(q)
  BY LenProperties
<1>2. <<h>> \in Seq(Written) /\ Len(<<h>>) = 1 /\ <<h>>[1] = h
  OBVIOUS
<1> DEFINE r == <<h>> \o q
<1>3. /\ r \in Seq(Written) /\ Len(r) = Len(q) + 1
      /\ \A i \in 1 .. Len(r) : r[i] = IF i <= 1 THEN <<h>>[i] ELSE q[i - 1]
  BY <1>1, <1>2, ConcatProperties
<1>4. DOMAIN r = 1 .. Len(q) + 1
  BY <1>1, <1>3, LenProperties
<1> HIDE DEF r
<1>5. \A i \in DOMAIN r : r[i] = h \/ (i - 1 \in DOMAIN q /\ r[i] = q[i - 1])
  BY <1>1, <1>2, <1>3, <1>4
<1>6. InQueue(r, x)
  BY DEF r
<1>7. QED
  BY <1>5, <1>6 DEF InQueue

LEMMA TailFewer ==
  ASSUME NEW q \in Seq(Written), q # <<>>, NEW x, InQueue(Tail(q), x)
  PROVE  InQueue(q, x)
<1>1. Len(q) \in Nat /\ DOMAIN q = 1 .. Len(q) /\ Len(q) # 0
  BY LenProperties, EmptySeq
<1> DEFINE t == Tail(q)
<1>2. t \in Seq(Written) /\ Len(t) = Len(q) - 1 /\ \A i \in 1 .. Len(t) : t[i] = q[i + 1]
  BY <1>1, HeadTailProperties
<1>3. InQueue(t, x)
  OBVIOUS
<1> HIDE DEF t
<1>4. \A i \in DOMAIN t : i + 1 \in DOMAIN q /\ t[i] = q[i + 1]
  BY <1>1, <1>2, LenProperties
<1>5. QED
  BY <1>3, <1>4 DEF InQueue

LEMMA OrderTypes ==
  ASSUME ClientsInv
  PROVE  /\ writes \in Nat /\ overtaken \subseteq Points /\ queue \in Seq(Written)
         /\ \A p \in Points : value[p] \in Nat
         /\ link.requests \in Seq(Req) /\ DOMAIN link.requests \subseteq Nat
         /\ \A i \in Asks : i \in Nat /\ link.requests[i].entry \in Written
         /\ Held => call.request.entry \in Written
         /\ \A x : InQueue(queue, x) => x \in Written
<1>1. /\ writes \in Nat /\ overtaken \subseteq Points /\ queue \in Seq(Written)
      /\ \A p \in Points : value[p] \in Nat
  BY Numbers DEF ClientsInv, WorldInv, ClientInv, BacklogInv, Stamps
<1>2. link.requests \in Seq(Req)
  BY LinkFields DEF ClientsInv, LinkInv
<1>3. /\ DOMAIN link.requests = 1 .. Len(link.requests)
      /\ \A i \in DOMAIN link.requests : link.requests[i] \in Req
  BY <1>2, LenProperties, ElementOfSeq
<1>4. DOMAIN link.requests \subseteq Nat
  BY <1>3
<1>5. \A i \in Asks : i \in Nat /\ link.requests[i].entry \in Written
  BY <1>3, <1>4, ReqFields DEF Asks
<1>6. Held => call.request.entry \in Written
  BY CallFields, ReqFields DEF ClientsInv, CallInv, Held
<1>7. \A x : InQueue(queue, x) => x \in Written
  BY <1>1, LenProperties, ElementOfSeq DEF InQueue
<1>8. QED
  BY <1>1, <1>2, <1>4, <1>5, <1>6, <1>7

LEMMA NextTypes ==
  ASSUME ClientsInv'
  PROVE  /\ writes' \in Nat /\ \A p \in Points : value'[p] \in Nat
         /\ DOMAIN link'.requests \subseteq Nat
<1>1. writes' \in Nat /\ \A p \in Points : value'[p] \in Nat
  BY Numbers DEF ClientsInv, WorldInv, BacklogInv, Stamps
<1>2. link'.requests \in Seq(Req)
  BY DEF ClientsInv, LinkInv, Link
<1>3. DOMAIN link'.requests = 1 .. Len(link'.requests)
  BY <1>2, LenProperties
<1>4. QED
  BY <1>1, <1>3

(* What stays in order: the requests that are left, and what comes after.    *)
Aged == SentInv' /\ \A x \in Written : After(x) => After(x)'

LEMMA Fewer ==
  ASSUME ClientsInv, ClientsInv', SentInv, NEW d \in Nat,
         \A i \in DOMAIN link'.requests :
           i + d \in DOMAIN link.requests /\ link'.requests[i] = link.requests[i + d],
         value' = value, overtaken \subseteq overtaken', writes <= writes'
  PROVE  Aged
<1>1. /\ writes \in Nat /\ writes' \in Nat /\ \A p \in Points : value[p] \in Nat
      /\ \A i \in Asks : i \in Nat /\ link.requests[i].entry \in Written
  BY OrderTypes, NextTypes
<1>2. DOMAIN link'.requests \subseteq Nat
  BY NextTypes
<1>3. \A i \in Asks' : i \in Nat /\ i + d \in Asks /\ link'.requests[i] = link.requests[i + d]
  BY <1>2 DEF Asks
<1>4. ASSUME NEW x \in Written, Fresh(x) PROVE Fresh(x)'
  BY <1>4 DEF Fresh
<1>5. ASSUME NEW x \in Written, NEW y \in Written, Before(x, y) PROVE Before(x, y)'
  BY <1>5 DEF Before
<1>6. \A p \in Points : value'[p] <= writes'
  BY <1>1 DEF SentInv
<1>7. ASSUME NEW i \in Asks'
      PROVE  Fresh(link.requests[i].entry)' /\ link'.requests[i].entry.stamp <= writes'
  <2>1. /\ link'.requests[i].entry \in Written /\ Fresh(link'.requests[i].entry)
        /\ link'.requests[i].entry.stamp <= writes
    BY <1>1, <1>3 DEF SentInv
  <2>2. link'.requests[i].entry.stamp \in Nat
    BY <2>1, WrittenFields
  <2>3. PICK e \in Written : e = link'.requests[i].entry
    BY <2>1
  <2>4. Fresh(e)'
    BY <1>4, <2>1, <2>3
  <2>5. QED
    BY <1>1, <2>1, <2>2, <2>3, <2>4
<1>8. ASSUME NEW i \in Asks', NEW j \in Asks', i < j
      PROVE  Before(link.requests[i].entry, link.requests[j].entry)'
  <2>1. i + d < j + d /\ i + d \in Asks /\ j + d \in Asks
    BY <1>3, <1>8
  <2>2. Before(link.requests[i + d].entry, link.requests[j + d].entry)
    BY <2>1 DEF SentInv
  <2>3. PICK x \in Written, y \in Written : x = link'.requests[i].entry /\ y = link'.requests[j].entry
    BY <1>1, <1>3
  <2>4. Before(x, y)'
    BY <1>3, <1>5, <2>2, <2>3
  <2>5. QED
    BY <2>3, <2>4 DEF Before
<1>9. SentInv'
  BY <1>6, <1>7, <1>8 DEF SentInv, Fresh, Before
<1>10. ASSUME NEW x \in Written, After(x) PROVE After(x)'
  <2>1. Fresh(x)' /\ x.stamp \in Nat /\ x.stamp <= writes'
    BY <1>1, <1>4, <1>10, WrittenFields DEF After
  <2>2. ASSUME NEW i \in Asks' PROVE Before(link.requests[i].entry, x)'
    <3>1. PICK y \in Written : y = link.requests[i + d].entry /\ y = link'.requests[i].entry
      BY <1>1, <1>3
    <3>2. Before(y, x)
      BY <1>3, <1>10, <3>1 DEF After
    <3>3. Before(y, x)'
      BY <1>5, <3>2
    <3>4. QED
      BY <3>1, <3>3 DEF Before
  <2>3. QED
    BY <2>1, <2>2 DEF After, Before
<1>11. QED
  BY <1>9, <1>10 DEF Aged

LEMMA SameSent ==
  ASSUME ClientsInv, ClientsInv', SentInv, link'.requests = link.requests,
         value' = value, overtaken \subseteq overtaken', writes <= writes'
  PROVE  Aged
<1>1. DOMAIN link.requests \subseteq Nat
  BY OrderTypes
<1>2. \A i \in DOMAIN link'.requests :
        i + 0 \in DOMAIN link.requests /\ link'.requests[i] = link.requests[i + 0]
  BY <1>1
<1>3. QED
  BY <1>2, Fewer

LEMMA NoneSent ==
  ASSUME ClientsInv, ClientsInv', SentInv, link'.requests = <<>>,
         value' = value, overtaken \subseteq overtaken', writes <= writes'
  PROVE  Aged
<1>1. \A i \in DOMAIN link'.requests :
        i + 0 \in DOMAIN link.requests /\ link'.requests[i] = link.requests[i + 0]
  OBVIOUS
<1>2. QED
  BY <1>1, Fewer

(* A write made now comes after everything. *)
LEMMA NewAfter ==
  ASSUME ClientsInv, ClientsInv', Aged, NEW n \in Written, n.stamp = writes'
  PROVE  /\ After(n)'
         /\ \A x \in Written : After(x) => Before(x, n)'
<1>1. writes' \in Nat /\ \A p \in Points : value'[p] \in Nat
  BY NextTypes
<1>2. n.point \in Points /\ SentInv'
  BY WrittenFields DEF Aged
<1>3. Fresh(n)'
  BY <1>1, <1>2 DEF Fresh, SentInv
<1>4. \A i \in Asks' : Before(link.requests[i].entry, n)'
  BY <1>2 DEF SentInv, Before
<1>5. ASSUME NEW x \in Written, After(x) PROVE Before(x, n)'
  <2>1. After(x)'
    BY <1>5 DEF Aged
  <2>2. QED
    BY <2>1 DEF After, Before
<1>6. QED
  BY <1>1, <1>3, <1>4, <1>5 DEF After, Before

(* The queue keeps its entries, takes new ones, or takes the hand's back.    *)
LEMMA UpSame ==
  ASSUME ClientsInv, ClientsInv', Aged, UpInv, overtaken \subseteq overtaken',
         Held' => Held /\ call'.request.entry = call.request.entry,
         \A x \in Written : InQueue(queue', x) =>
           \/ InQueue(queue, x)
           \/ Held /\ ~ Held' /\ x = call.request.entry
           \/ x.stamp = writes'
  PROVE  UpInv'
<1>1. ASSUME Held' PROVE After(call.request.entry)'
  <2>1. PICK h \in Written : h = call.request.entry /\ h = call'.request.entry /\ After(h)
    BY <1>1, OrderTypes DEF UpInv
  <2>2. After(h)'
    BY <2>1 DEF Aged
  <2>3. QED
    BY <2>1, <2>2 DEF After, Fresh, Before
<1>2. ASSUME NEW x \in Written, InQueue(queue', x)
      PROVE  After(x)' /\ (Held' => Before(call.request.entry, x)')
  <2>1. CASE InQueue(queue, x)
    <3>1. After(x)'
      BY <2>1 DEF UpInv, Aged
    <3>2. ASSUME Held' PROVE Before(call.request.entry, x)'
      BY <2>1, <3>2 DEF UpInv, Before
    <3>3. QED
      BY <3>1, <3>2
  <2>2. CASE Held /\ ~ Held' /\ x = call.request.entry
    BY <2>2 DEF UpInv, Aged
  <2>3. CASE x.stamp = writes'
    <3>1. After(x)'
      BY <2>3, NewAfter
    <3>2. ASSUME Held' PROVE Before(call.request.entry, x)'
      <4>1. PICK h \in Written : h = call.request.entry /\ h = call'.request.entry /\ After(h)
        BY <3>2, OrderTypes DEF UpInv
      <4>2. Before(h, x)'
        BY <2>3, <4>1, NewAfter
      <4>3. QED
        BY <4>1, <4>2 DEF Before
    <3>3. QED
      BY <3>1, <3>2
  <2>4. QED
    BY <1>2, <2>1, <2>2, <2>3
<1>3. QED
  BY <1>1, <1>2 DEF UpInv, After, Fresh, Before, Held
(* What a step does to the queue and the hand. *)

LEMMA OrderUp ==
  ASSUME ClientsInv, ClientsInv', Aged, UpInv, overtaken' = overtaken,
         queue' = queue, Held' => Held /\ call'.request.entry = call.request.entry
  PROVE  SentInv' /\ UpInv'
  BY UpSame DEF Aged

LEMMA GiveUpAges == ASSUME ClientsInv, GiveUp PROVE writes <= writes'
<1>1. writes \in Nat
  BY OrderTypes
<1>2. writes' = writes \/ writes' = writes + 1
  <2>1. CASE InHand # NoEntry
    BY <2>1 DEF GiveUp, PutBack
  <2>2. CASE InHand = NoEntry
    BY <2>2 DEF GiveUp, backlog
  <2>3. QED
    BY <2>1, <2>2
<1>3. QED
  BY <1>1, <1>2

LEMMA GiveUpOrder ==
  ASSUME ClientsInv, ClientsInv', Aged, UpInv, overtaken' = overtaken, GiveUp
  PROVE  SentInv' /\ UpInv'
<1>1. ~ Held'
  BY IdleType, NoRequestType DEF GiveUp, Return, Held
<1>2. CASE InHand # NoEntry
  <2>1. CallInv /\ queue \in Seq(Written) /\ BacklogInv
    BY DEF ClientsInv, BacklogInv
  <2>2. Held /\ InHand = call.request.entry /\ InHand \in Written
    BY <1>2, <2>1, Hand DEF Held
  <2>3. PICK n \in AlertWrites :
          /\ queue' = <<IF TakesSlot(n) THEN n ELSE InHand>> \o
                      (IF n = NoEntry THEN queue ELSE QPush(queue, n))
          /\ writes' = IF n = NoEntry THEN writes ELSE writes + 1
    BY <1>2 DEF GiveUp, PutBack
  <2>4. CASE n = NoEntry
    <3>1. queue' = <<InHand>> \o queue
      BY <2>3, <2>4 DEF TakesSlot
    <3>2. \A x \in Written : InQueue(queue', x) => InQueue(queue, x) \/ x = InHand
      BY <2>1, <2>2, <3>1, ConsAdds
    <3>3. QED
      BY <1>1, <2>2, <3>2, UpSame DEF Aged
  <2>5. CASE n # NoEntry
    <3>1. n \in Written /\ n.stamp = writes'
      <4>1. PICK p \in AlertPoints : n = NewEntry(p) /\ writes < MaxWrites
        BY <2>5 DEF AlertWrites
      <4>2. p \in Points /\ n.stamp = writes + 1
        BY <4>1, ClientValues DEF NewEntry
      <4>3. QED
        BY <2>1, <2>3, <2>5, <4>1, <4>2, NewEntryType
    <3> DEFINE q == QPush(queue, n)
    <3>2. q \in Seq(Written) /\ \A x \in Written : InQueue(q, x) => InQueue(queue, x) \/ x = n
      BY <2>1, <3>1, PushKeeps, PushAdds
    <3>3. \E h \in {n, InHand} : queue' = <<h>> \o q
      BY <2>3, <2>5
    <3> HIDE DEF q
    <3>4. \A x \in Written : InQueue(queue', x) => InQueue(q, x) \/ x = InHand \/ x = n
      BY <2>2, <3>1, <3>2, <3>3, ConsAdds
    <3>5. QED
      BY <1>1, <2>2, <3>1, <3>2, <3>4, UpSame DEF Aged
  <2>6. QED
    BY <2>4, <2>5
<1>3. CASE InHand = NoEntry
  BY <1>1, <1>3, OrderUp DEF GiveUp, backlog
<1>4. QED
  BY <1>2, <1>3

(* What is taken into the hand is not in the rest of the queue. *)
LEMMA TakenOrder ==
  ASSUME ClientsInv, ClientsInv', Aged, UpInv, ~ clash, overtaken' = overtaken, queue # <<>>,
         call'.request = WriteOf(Head(queue)), queue' = Tail(queue)
  PROVE  SentInv' /\ UpInv'
<1>1. queue \in Seq(Written) /\ QueueInv /\ Len(queue) \in Nat /\ DOMAIN queue = 1 .. Len(queue)
      /\ Len(queue) # 0 /\ Head(queue) = queue[1]
  BY LenProperties, EmptySeq DEF ClientsInv, BacklogInv
<1>2. PICK h : h = Head(queue)
  OBVIOUS
<1>3. h \in Written /\ Sound(queue', h) /\ InQueue(queue, h) /\ h # NoEntry
  <2>1. Sound(queue, InHand)
    BY <1>1 DEF QueueInv
  <2>2. Sound(queue, NoEntry)
    BY <1>1, <2>1, Numbers DEF Sound
  <2>3. h \in Written /\ Sound(queue', h)
    BY <1>1, <1>2, <2>2, TakeKeeps
  <2>4. InQueue(queue, h)
    BY <1>1, <1>2 DEF InQueue
  <2>5. QED
    BY <2>3, <2>4, WrittenFields
<1>4. call'.request.entry = h
  BY <1>2, <1>3, WriteOfType
<1>5. After(h)'
  BY <1>3 DEF UpInv, Aged
<1>6. ASSUME NEW x \in Written, InQueue(queue', x) PROVE After(x)' /\ Before(h, x)'
  <2>1. After(x)'
    BY <1>1, <1>6, TailFewer DEF UpInv, Aged
  <2>2. h.point # x.point
    BY <1>3, <1>6 DEF Sound, Queued, InQueue
  <2>3. QED
    BY <2>1, <2>2 DEF Before
<1>7. UpInv'
  BY <1>4, <1>5, <1>6 DEF UpInv, After, Fresh, Before
<1>8. QED
  BY <1>7 DEF Aged

LEMMA BrokenOrder ==
  ASSUME ClientsInv, ClientsInv', Aged, UpInv, overtaken' = overtaken, Broken
  PROVE  SentInv' /\ UpInv'
<1>1. CASE GiveUp
  BY <1>1, GiveUpOrder
<1>2. CASE call' = [call EXCEPT !.at = "connect", !.try = 2] /\ UNCHANGED backlog
  <2>1. call'.request = call.request
    BY <1>2, CallRetries DEF ClientsInv, CallInv
  <2>2. QED
    BY <1>2, <2>1, OrderUp DEF Held, backlog
<1>3. QED
  BY <1>1, <1>2 DEF Broken

LEMMA TakeNextOrder ==
  ASSUME ClientsInv, ClientsInv', Aged, UpInv, ~ clash, overtaken' = overtaken,
         queue # <<>>, TakeNext
  PROVE  SentInv' /\ UpInv'
<1>1. call \in Call /\ WriteOf(Head(queue)) \in Req
  BY TakeKeeps, WriteOfType DEF ClientsInv, CallInv, BacklogInv
<1>2. call'.request = WriteOf(Head(queue)) /\ queue' = Tail(queue)
  BY <1>1, CallTakes DEF TakeNext
<1>3. QED
  BY <1>2, TakenOrder

LEMMA BelieveOrder ==
  ASSUME ClientsInv, ClientsInv', Aged, UpInv, ~ clash, overtaken' = overtaken,
         NEW s, Believe(s)
  PROVE  SentInv' /\ UpInv'
<1>1. CASE GiveUp
  BY <1>1, GiveUpOrder
<1>2. CASE TakeNext /\ queue # <<>>
  BY <1>2, TakeNextOrder
<1>3. CASE Return /\ queue' = queue
  <2>1. ~ Held'
    BY <1>3, IdleType, NoRequestType DEF Return, Held
  <2>2. QED
    BY <1>3, <2>1, OrderUp
<1>4. QED
  BY <1>1, <1>2, <1>3 DEF Believe

-----------------------------------------------------------------------------
(* The steps. *)

LEMMA WriteAsyncOrder ==
  ASSUME ClientsInv, ClientsInv', SentInv, UpInv, NEW p \in Points, WriteAsync(p)
  PROVE  SentInv' /\ UpInv'
<1>1. writes \in Nat /\ queue \in Seq(Written) /\ BacklogInv
  BY OrderTypes DEF ClientsInv
<1>2. NewEntry(p) \in Written /\ NewEntry(p).stamp = writes'
  BY <1>1, NewEntryType DEF WriteAsync, NewEntry
<1>3. Aged
  BY <1>1, SameSent DEF WriteAsync, world
<1>4. \A x \in Written : InQueue(queue', x) => InQueue(queue, x) \/ x = NewEntry(p)
  BY <1>1, <1>2, PushAdds DEF WriteAsync
<1>5. QED
  BY <1>2, <1>3, <1>4, UpSame DEF WriteAsync, Aged, Held

LEMMA WriteSyncOrder ==
  ASSUME ClientsInv, ClientsInv', SentInv, UpInv, NEW p \in Points, WriteSync(p)
  PROVE  SentInv' /\ UpInv'
<1>0. PICK n : n = NewEntry(p)
  OBVIOUS
<1>1. writes \in Nat /\ queue \in Seq(Written) /\ BacklogInv /\ queue' = queue
  BY OrderTypes DEF ClientsInv, WriteSync, client
<1>2. n \in Written /\ n.stamp = writes' /\ n.point = p
  BY <1>0, <1>1, NewEntryType DEF WriteSync, NewEntry
<1>3. Aged
  BY <1>1, SameSent DEF WriteSync, world
<1>4. call'.request.entry = n
  BY <1>0, <1>2, WriteOfType DEF WriteSync, Begin
<1>5. After(n)'
  BY <1>2, <1>3, NewAfter
<1>6. ASSUME NEW x \in Written, InQueue(queue', x) PROVE After(x)' /\ Before(n, x)'
  <2>1. After(x)'
    BY <1>1, <1>3, <1>6 DEF UpInv, Aged
  <2>2. x.point = p => p \in overtaken'
    BY <1>1, <1>6 DEF WriteSync, InQueue, Queued
  <2>3. QED
    BY <1>2, <2>1, <2>2 DEF Before
<1>7. UpInv'
  BY <1>4, <1>5, <1>6 DEF UpInv, After, Fresh, Before
<1>8. QED
  BY <1>3, <1>7 DEF Aged

LEMMA FlushOrder ==
  ASSUME ClientsInv, ClientsInv', SentInv, UpInv, ~ clash, Flush
  PROVE  SentInv' /\ UpInv'
<1>1. Aged /\ overtaken' = overtaken
  BY OrderTypes, SameSent DEF Flush, world, bounds, ghosts
<1>2. CASE connected
  <2>1. call'.request = WriteOf(Head(queue)) /\ queue' = Tail(queue) /\ queue # <<>>
    BY <1>2 DEF Flush, Begin
  <2>2. QED
    BY <1>1, <2>1, TakenOrder
<1>3. CASE ~ connected
  <2>1. queue' = queue /\ ~ Held'
    BY <1>3, NoRequestType DEF Flush, Begin, Held
  <2>2. QED
    BY <1>1, <2>1, OrderUp
<1>4. QED
  BY <1>2, <1>3

LEMMA ControlOrder ==
  ASSUME ClientsInv, ClientsInv', SentInv, UpInv, ControlCalls \/ Reopen
  PROVE  SentInv' /\ UpInv'
<1>1. CASE ControlCalls
  <2>1. PICK op, q : op \in {"select", "list", "ask"} /\ Control(op, q)
    BY <1>1 DEF ControlCalls
  <2>2. Aged /\ overtaken' = overtaken /\ queue' = queue
    BY <2>1, OrderTypes, SameSent DEF Control, client, world, ghosts
  <2>3. ~ Held'
    BY <2>1 DEF Control, Begin, Held
  <2>4. QED
    BY <2>2, <2>3, OrderUp
<1>2. CASE Reopen
  <2>1. link'.requests = <<>>
    BY <1>2, LinkStart DEF Reopen, NoLink
  <2>2. Aged /\ overtaken' = overtaken
    BY <1>2, <2>1, OrderTypes, NoneSent DEF Reopen, world
  <2>3. \A x : ~ InQueue(queue', x)
    BY <1>2 DEF Reopen, InQueue
  <2>4. QED
    BY <1>2, <2>2, <2>3, UpSame DEF Reopen, Held, Aged
<1>3. QED
  BY <1>1, <1>2

LEMMA ConnectOrder ==
  ASSUME ClientsInv, ClientsInv', SentInv, UpInv, ~ clash, Connect
  PROVE  SentInv' /\ UpInv'
<1>1. call \in Call /\ CallInv
  BY DEF ClientsInv, CallInv
<1>2. overtaken' = overtaken /\ value' = value
  BY DEF Connect, world
<1>3. CASE up
  <2>1. link'.requests = <<>> /\ writes' = writes
    BY <1>3, LinkStart DEF Connect
  <2>2. Aged
    BY <1>2, <2>1, OrderTypes, NoneSent
  <2>3. CASE call.request = NoRequest
    <3>1. TakeNext /\ queue # <<>>
      BY <1>1, <1>3, <2>3, NoRequestType DEF Connect, CallInv
    <3>2. QED
      BY <1>2, <2>2, <3>1, TakeNextOrder
  <2>4. CASE call.request # NoRequest
    <3>1. call' = [call EXCEPT !.at = "send"] /\ queue' = queue
      BY <1>3, <2>4 DEF Connect
    <3>2. call'.request = call.request
      BY <1>1, <3>1, CallGoes
    <3>3. QED
      BY <1>2, <2>2, <3>1, <3>2, OrderUp DEF Held
  <2>5. QED
    BY <2>3, <2>4
<1>4. CASE ~ up
  <2>1. link'.requests = <<>> /\ GiveUp
    BY <1>4, LinkStart DEF Connect, NoLink
  <2>2. writes <= writes'
    BY <2>1, GiveUpAges
  <2>3. Aged
    BY <1>2, <2>1, <2>2, NoneSent
  <2>4. QED
    BY <1>2, <2>1, <2>3, GiveUpOrder
<1>5. QED
  BY <1>3, <1>4

LEMMA BrokenAges == ASSUME ClientsInv, Broken PROVE writes <= writes'
  BY GiveUpAges, OrderTypes DEF Broken, backlog

LEMMA BelieveAges == ASSUME ClientsInv, NEW s, Believe(s) PROVE writes <= writes'
  BY GiveUpAges, OrderTypes DEF Believe

(* A request sent comes before the entries of the queue. *)
LEMMA SendOrder ==
  ASSUME ClientsInv, ClientsInv', SentInv, UpInv, Send
  PROVE  SentInv' /\ UpInv'
<1>1. overtaken' = overtaken /\ value' = value
  BY DEF Send, world
<1>2. CASE ~ link.open
  <2>1. Broken /\ link' = link
    BY <1>2 DEF Send
  <2>2. writes <= writes'
    BY <2>1, BrokenAges
  <2>3. Aged
    BY <1>1, <2>1, <2>2, SameSent
  <2>4. QED
    BY <1>1, <2>1, <2>3, BrokenOrder
<1>3. CASE link.open
  <2>1. /\ call \in Call /\ call.request \in Req /\ link \in Link /\ link.requests \in Seq(Req)
        /\ Len(link.requests) \in Nat /\ DOMAIN link.requests = 1 .. Len(link.requests)
    BY CallFields, LinkFields, LenProperties DEF ClientsInv, CallInv, LinkInv
  <2>2. /\ link' = [link EXCEPT !.requests = Append(link.requests, call.request)]
        /\ call' = [call EXCEPT !.at = "wait"] /\ queue' = queue /\ writes' = writes
    BY <1>3 DEF Send, backlog
  <2> DEFINE r == Append(link.requests, call.request)
             l == Len(link.requests)
  <2>3. /\ r \in Seq(Req) /\ DOMAIN r = 1 .. l + 1 /\ r[l + 1] = call.request
        /\ \A i \in 1 .. l : r[i] = link.requests[i]
    BY <2>1, AppendProperties
  <2>4. link'.requests = r
    BY <2>1, <2>2, <2>3, LinkAsks DEF LinkIs
  <2>5. call'.request = call.request
    BY <2>1, <2>2, CallGoes
  <2> HIDE DEF r
  <2>6. PICK h : h = call.request.entry /\ (Held => h \in Written)
    BY OrderTypes
  <2>7. \A i \in Asks' : \/ i \in Asks /\ link'.requests[i] = link.requests[i] /\ i <= l
                         \/ Held /\ i = l + 1 /\ link'.requests[i] = call.request
    BY <2>1, <2>3, <2>4 DEF Asks, Held
  <2>8. ASSUME NEW x, Fresh(x) PROVE Fresh(x)'
    BY <1>1, <2>8 DEF Fresh
  <2>9. ASSUME NEW x, NEW y, Before(x, y) PROVE Before(x, y)'
    BY <1>1, <2>9 DEF Before
  <2>10. ASSUME NEW i \in Asks'
         PROVE  Fresh(link.requests[i].entry)' /\ link'.requests[i].entry.stamp <= writes'
    <3>1. PICK e : e = link'.requests[i].entry
      OBVIOUS
    <3>2. Fresh(e) /\ e.stamp <= writes
      BY <2>7, <3>1 DEF SentInv, UpInv, After
    <3>3. QED
      BY <2>2, <2>8, <3>1, <3>2 DEF Fresh
  <2>11. ASSUME NEW i \in Asks', NEW j \in Asks', i < j
         PROVE  Before(link.requests[i].entry, link.requests[j].entry)'
    <3>1. PICK x, y : x = link'.requests[i].entry /\ y = link'.requests[j].entry
      OBVIOUS
    <3>2. i \in Asks /\ link'.requests[i] = link.requests[i]
      BY <2>1, <2>7, <2>11 DEF Asks
    <3>3. Before(x, y)
      BY <2>7, <2>11, <3>1, <3>2 DEF SentInv, UpInv, After
    <3>4. QED
      BY <2>9, <3>1, <3>3 DEF Before
  <2>12. SentInv'
    <3>1. \A p \in Points : value'[p] <= writes'
      BY <1>1, <2>2 DEF SentInv
    <3>2. QED
      BY <2>10, <2>11, <3>1 DEF SentInv
  <2>13. ASSUME NEW x, After(x), Held => Before(h, x) PROVE After(x)'
    <3>1. ASSUME NEW i \in Asks' PROVE Before(link.requests[i].entry, x)'
      <4>1. PICK y : y = link'.requests[i].entry
        OBVIOUS
      <4>2. Before(y, x)
        BY <2>6, <2>7, <2>13, <4>1 DEF After
      <4>3. QED
        BY <2>9, <4>1, <4>2 DEF Before
    <3>2. QED
      BY <2>2, <2>8, <2>13, <3>1 DEF After
  <2>14. ASSUME Held PROVE After(h)'
    <3>1. Before(h, h)
      BY <2>6, <2>14, WrittenFields DEF Before
    <3>2. QED
      BY <2>6, <2>13, <2>14, <3>1 DEF UpInv
  <2>15. ASSUME NEW x \in Written, InQueue(queue', x)
         PROVE  After(x)' /\ (Held => Before(h, x)')
    <3>1. After(x) /\ (Held => Before(h, x))
      BY <2>2, <2>6, <2>15 DEF UpInv
    <3>2. QED
      BY <2>9, <2>13, <3>1
  <2>16. UpInv'
    BY <2>5, <2>6, <2>14, <2>15 DEF UpInv, Held, After, Fresh, Before
  <2>17. QED
    BY <2>12, <2>16
<1>4. QED
  BY <1>2, <1>3

LEMMA ReceiveOrder ==
  ASSUME ClientsInv, ClientsInv', SentInv, UpInv, ~ clash, Receive \/ ReceiveLate \/ ReceiveEnd
  PROVE  SentInv' /\ UpInv'
<1>1. overtaken' = overtaken /\ value' = value /\ link'.requests = link.requests
  <2>1. overtaken' = overtaken /\ value' = value
    BY DEF Receive, ReceiveLate, ReceiveEnd, world
  <2>2. link \in Link
    BY DEF ClientsInv, LinkInv
  <2>3. link'.requests = link.requests
    BY <2>2 DEF Receive, ReceiveLate, ReceiveEnd, Link
  <2>4. QED
    BY <2>1, <2>3
<1>2. CASE Broken
  BY <1>1, <1>2, BrokenAges, SameSent, BrokenOrder
<1>3. ASSUME NEW s, Believe(s) PROVE SentInv' /\ UpInv'
  BY <1>1, <1>3, BelieveAges, SameSent, BelieveOrder
<1>4. QED
  BY <1>2, <1>3 DEF Receive, ReceiveLate, ReceiveEnd

LEMMA ReplyOrder ==
  ASSUME ClientsInv, ClientsInv', SentInv, UpInv, Served, Reply
  PROVE  SentInv' /\ UpInv'
<1>1. /\ link \in Link /\ link.requests \in Seq(Req) /\ Len(link.requests) \in Nat
      /\ DOMAIN link.requests = 1 .. Len(link.requests) /\ link.requests # <<>>
      /\ Len(link.requests) # 0 /\ link.replies \in Seq(Statuses) /\ link.done \in Statuses
  BY LinkFields, LenProperties, EmptySeq DEF ClientsInv, LinkInv, Served, Reply
<1> DEFINE t == Tail(link.requests)
<1>2. /\ t \in Seq(Req) /\ Len(t) = Len(link.requests) - 1
      /\ \A i \in 1 .. Len(t) : t[i] = link.requests[i + 1]
  BY <1>1, HeadTailProperties
<1>3. link'.requests = t
  <2>0. Append(link.replies, link.done) \in Seq(Statuses) /\ <<>> \in Seq(Statuses)
    BY <1>1, AppendProperties
  <2>1. PICK s \in Seq(Statuses) : s = IF link.late THEN <<>> ELSE Append(link.replies, link.done)
    BY <2>0
  <2>2. link' = [link EXCEPT !.requests = t, !.done = "none", !.replies = s]
    BY <2>1 DEF Reply
  <2> HIDE DEF t
  <2>3. LinkIs(link', link.open, link.part, t, "none", s, link.late)
    BY <1>1, <1>2, <2>2, LinkReplies
  <2>4. QED
    BY <2>3 DEF LinkIs
<1> HIDE DEF t
<1>4. \A i \in DOMAIN link'.requests :
        i + 1 \in DOMAIN link.requests /\ link'.requests[i] = link.requests[i + 1]
  BY <1>1, <1>2, <1>3, LenProperties
<1>5. /\ value' = value /\ overtaken' = overtaken /\ writes' = writes /\ writes \in Nat
      /\ queue' = queue /\ call' = call
  BY OrderTypes DEF Reply, client, world, ghosts, bounds
<1>6. Aged
  BY <1>4, <1>5, Fewer
<1>7. QED
  BY <1>5, <1>6, OrderUp DEF Held

(* The first request is the oldest: what it stores is passed by nothing that *)
(* comes after it.                                                           *)
LEMMA ServeWriteOrder ==
  ASSUME ClientsInv, ClientsInv', SentInv, UpInv, ServeWrite
  PROVE  /\ SentInv' /\ UpInv'
         /\ \A p \in Points : value'[p] < value[p] => p \in overtaken
<1>1. /\ link \in Link /\ link.requests \in Seq(Req) /\ Len(link.requests) \in Nat
      /\ DOMAIN link.requests = 1 .. Len(link.requests) /\ Len(link.requests) # 0
      /\ Head(link.requests) = link.requests[1]
  BY LinkFields, LenProperties, EmptySeq DEF ClientsInv, LinkInv, ServeWrite, Pending
<1>2. PICK e : e = Head(link.requests).entry
  OBVIOUS
<1>3. /\ 1 \in Asks /\ e = link.requests[1].entry /\ e \in Written /\ Fresh(e) /\ e.stamp <= writes
      /\ e.stamp \in Nat /\ e.point \in Points
  <2>1. 1 \in Asks
    BY <1>1 DEF ServeWrite, Asks
  <2>2. QED
    BY <1>1, <1>2, <2>1, OrderTypes, WrittenFields DEF SentInv
<1>4. /\ overtaken' = overtaken /\ writes' = writes /\ writes \in Nat
      /\ queue' = queue /\ call' = call
  BY OrderTypes DEF ServeWrite, client, ghosts, bounds
<1>5. link'.requests = link.requests
  <2>1. PICK d \in Statuses : link' = [link EXCEPT !.done = d]
    BY DEF ServeWrite, Statuses
  <2>2. QED
    BY <1>1, <2>1, LinkServes DEF LinkIs
<1>6. CASE value' = value
  <2>1. Aged
    BY <1>4, <1>5, <1>6, SameSent
  <2>2. \A p \in Points : ~ (value'[p] < value[p])
    BY <1>6, OrderTypes
  <2>3. QED
    BY <1>4, <2>1, <2>2, OrderUp DEF Held
<1>7. CASE value' = [value EXCEPT ![e.point] = e.stamp]
  <2>1. /\ value \in [Points -> Stamps] /\ \A p \in Points : value[p] \in Nat
    BY OrderTypes DEF ClientsInv, WorldInv
  <2>2. /\ value'[e.point] = e.stamp
        /\ \A p \in Points : p # e.point => value'[p] = value[p]
    BY <1>3, <1>7, <2>1
  <2>3. ASSUME NEW x \in Written, Fresh(x), Before(e, x) PROVE Fresh(x)'
    <3>1. CASE x.point = e.point
      BY <1>4, <2>2, <2>3, <3>1 DEF Fresh, Before
    <3>2. CASE x.point # e.point
      BY <1>4, <2>2, <2>3, <3>2, WrittenFields DEF Fresh
    <3>3. QED
      BY <3>1, <3>2
  <2>4. ASSUME NEW x, NEW y, Before(x, y) PROVE Before(x, y)'
    BY <1>4, <2>4 DEF Before
  <2>5. Asks' = Asks /\ \A i \in Asks : i \in Nat /\ i >= 1 /\ link.requests[i].entry \in Written
    BY <1>1, <1>5, OrderTypes DEF Asks
  <2>6. ASSUME NEW i \in Asks'
        PROVE  Fresh(link.requests[i].entry)' /\ link'.requests[i].entry.stamp <= writes'
    <3>1. PICK x \in Written : x = link.requests[i].entry
      BY <2>5, <2>6
    <3>2. Fresh(x) /\ x.stamp <= writes
      BY <2>5, <3>1 DEF SentInv
    <3>3. Before(e, x)
      <4>1. CASE i = 1
        BY <1>3, <3>1, <4>1 DEF Before
      <4>2. CASE i # 1
        BY <1>3, <2>5, <3>1, <4>2 DEF SentInv
      <4>3. QED
        BY <4>1, <4>2
    <3>4. Fresh(x)'
      BY <2>3, <3>2, <3>3
    <3>5. QED
      BY <1>4, <1>5, <3>1, <3>2, <3>4 DEF Fresh
  <2>7. ASSUME NEW i \in Asks', NEW j \in Asks', i < j
        PROVE  Before(link.requests[i].entry, link.requests[j].entry)'
    <3>1. PICK x, y : x = link.requests[i].entry /\ y = link.requests[j].entry
      OBVIOUS
    <3>2. Before(x, y)
      BY <2>5, <2>7, <3>1 DEF SentInv
    <3>3. QED
      BY <1>5, <2>4, <3>1, <3>2 DEF Before
  <2>8. SentInv'
    <3>1. \A p \in Points : value'[p] <= writes'
      BY <1>3, <1>4, <2>2 DEF SentInv
    <3>2. QED
      BY <2>6, <2>7, <3>1 DEF SentInv
  <2>9. ASSUME NEW x \in Written, After(x) PROVE After(x)'
    <3>1. Before(e, x)
      BY <1>3, <2>9 DEF After
    <3>2. Fresh(x)'
      BY <2>3, <2>9, <3>1 DEF After
    <3>3. ASSUME NEW i \in Asks' PROVE Before(link.requests[i].entry, x)'
      <4>1. PICK y : y = link.requests[i].entry
        OBVIOUS
      <4>2. Before(y, x)
        BY <2>5, <2>9, <4>1 DEF After
      <4>3. QED
        BY <1>5, <2>4, <4>1, <4>2 DEF Before
    <3>4. QED
      BY <1>4, <2>9, <3>2, <3>3 DEF After
  <2>10. UpInv' /\ SentInv'
    BY <1>4, <2>8, <2>9, OrderUp DEF Aged, Held
  <2>11. ASSUME NEW p \in Points, value'[p] < value[p] PROVE p \in overtaken
    <3>1. p = e.point
      BY <2>1, <2>2, <2>11
    <3>2. QED
      BY <1>3, <2>1, <2>2, <2>11, <3>1 DEF Fresh
  <2>12. QED
    BY <2>10, <2>11
<1>8. QED
  BY <1>2, <1>6, <1>7 DEF ServeWrite, world

LEMMA QuietOrder ==
  ASSUME ClientsInv, ClientsInv', SentInv, UpInv,
         \/ \E mode \in BOOLEAN : SetAsync(mode)
         \/ ServeOther \/ FailWrite \/ TurnAway \/ Stall \/ Resume \/ Crash \/ Start \/ UNCHANGED vars
  PROVE  SentInv' /\ UpInv'
<1>1. /\ value' = value /\ overtaken' = overtaken /\ writes' = writes /\ queue' = queue
  BY DEF SetAsync, ServeOther, FailWrite, TurnAway, Stall, Resume, Crash, Start, vars, client, world, ghosts, bounds
<1>2. link \in Link /\ call \in Call /\ writes \in Nat
  BY OrderTypes DEF ClientsInv, LinkInv, CallInv
<1>3. link'.requests = link.requests
  BY <1>2 DEF SetAsync, ServeOther, FailWrite, TurnAway, Stall, Resume, Crash, Start, vars, Link
<1>4. call'.request = call.request
  <2>1. call' = call \/ call' = [call EXCEPT !.calm = FALSE]
    BY DEF SetAsync, ServeOther, FailWrite, TurnAway, Stall, Resume, Crash, Start, vars
  <2>2. \A b \in BOOLEAN : [call EXCEPT !.calm = b].request = call.request
    BY <1>2, CallStormy
  <2>3. QED
    BY <2>1, <2>2
<1>5. Aged
  BY <1>1, <1>2, <1>3, SameSent
<1>6. QED
  BY <1>1, <1>4, <1>5, OrderUp DEF Held

LEMMA ClashStays == ASSUME clash, [Next]_vars PROVE clash'
<1>1. GiveUp => clash'
  BY DEF GiveUp, PutBack, backlog
<1>2. Broken => clash'
  BY <1>1 DEF Broken, backlog
<1>3. \A s : Believe(s) => clash'
  BY <1>1 DEF Believe
<1>4. CASE Connect \/ Send \/ Receive \/ ReceiveLate \/ ReceiveEnd
  BY <1>1, <1>2, <1>3, <1>4 DEF Connect, Send, Receive, ReceiveLate, ReceiveEnd, backlog
<1>5. CASE \/ \E p \in Points : WriteAsync(p) \/ WriteSync(p)
           \/ Flush \/ ControlCalls \/ Reopen \/ \E mode \in BOOLEAN : SetAsync(mode)
           \/ UNCHANGED vars
  BY <1>5 DEF WriteAsync, WriteSync, Flush, ControlCalls, Control, Reopen, SetAsync, vars, ghosts
<1>6. CASE Daemon
  BY <1>6 DEF Daemon, ServeWrite, ServeOther, Reply, FailWrite, TurnAway, Stall, Resume, Crash, Start, ghosts
<1>7. QED
  BY <1>4, <1>5, <1>6 DEF Next

LEMMA OrderKeeps ==
  ASSUME ClientsInv, ClientsInv', Served, OrderInv, [Next]_vars
  PROVE  OrderInv'
<1>1. SUFFICES ASSUME ~ clash' PROVE SentInv' /\ UpInv'
  BY DEF OrderInv
<1>2. ~ clash /\ SentInv /\ UpInv
  BY <1>1, ClashStays DEF OrderInv
<1>3. ASSUME NEW p \in Points, WriteAsync(p) \/ WriteSync(p) PROVE SentInv' /\ UpInv'
  BY <1>2, <1>3, WriteAsyncOrder, WriteSyncOrder
<1>4. CASE Flush \/ ControlCalls \/ Reopen \/ Connect \/ Send
  BY <1>2, <1>4, FlushOrder, ControlOrder, ConnectOrder, SendOrder
<1>5. CASE Receive \/ ReceiveLate \/ ReceiveEnd
  BY <1>2, <1>5, ReceiveOrder
<1>6. CASE ServeWrite \/ Reply
  BY <1>2, <1>6, ServeWriteOrder, ReplyOrder
<1>7. CASE \/ \E mode \in BOOLEAN : SetAsync(mode)
           \/ ServeOther \/ FailWrite \/ TurnAway \/ Stall \/ Resume \/ Crash \/ Start \/ UNCHANGED vars
  BY <1>2, <1>7, QuietOrder
<1>8. QED
  BY <1>3, <1>4, <1>5, <1>6, <1>7 DEF Next, Daemon

LEMMA NeverBackStep ==
  ASSUME ClientsInv, ClientsInv', OrderInv, [Next]_vars,
         NEW p \in Points, value'[p] < value[p]
  PROVE  clash \/ p \in overtaken
<1>1. CASE ServeWrite
  BY <1>1, ServeWriteOrder DEF OrderInv
<1>2. CASE ~ ServeWrite
  <2>1. value' = value
    BY <1>2 DEF Next, WriteAsync, WriteSync, Flush, ControlCalls, Control, Reopen, SetAsync,
         Connect, Send, Receive, ReceiveLate, ReceiveEnd, Daemon, ServeOther, Reply, FailWrite,
         TurnAway, Stall, Resume, Crash, Start, vars, world
  <2>2. QED
    BY <2>1, OrderTypes
<1>3. QED
  BY <1>1, <1>2

LEMMA OrderStart == ASSUME Init PROVE OrderInv
<1>1. SentInv
  BY LinkStart DEF Init, SentInv, Asks, NoLink
<1>2. ~ Held /\ \A x : ~ InQueue(queue, x)
  BY NoRequestType, IdleType DEF Init, Held, InQueue
<1>3. QED
  BY <1>1, <1>2 DEF OrderInv, UpInv

\* For any length of the queue, whatever dies and however often an entry is submitted
\* again, replaying the queue never puts an older value over a newer one, but for a
\* point that a synchronous write overtook and for what an alert callback wrote into
\* the place of the entry in hand (client.c, irtcli_flush and q_push).
THEOREM ClientNeverBack == Spec => NeverBack
<1>1. Init => OrderInv
  BY OrderStart
<1>2. ClientsInv /\ ClientsInv' /\ Served /\ OrderInv /\ [Next]_vars => OrderInv'
  BY OrderKeeps
<1>3. ClientsInv /\ ClientsInv' /\ OrderInv /\ [Next]_vars =>
        [\A p \in Points : value'[p] < value[p] => clash \/ p \in overtaken]_vars
  BY NeverBackStep
<1>4. QED
  BY <1>1, <1>2, <1>3, ClientAlways, PTL DEF Spec, NeverBack

=============================================================================
