------------------------- MODULE NotifyDaemon_proofs ------------------------
(***************************************************************************)
(* Proofs about the notification queues, for any number of connections,    *)
(* points and values and any sizes of queue, frame and socket buffer.      *)
(***************************************************************************)
EXTENDS NotifyDaemon, SequenceTheorems, TLAPS

(* The reply in progress belongs to a connection, the write it announces to  *)
(* a point.  Inductive together with TypeOK.                                 *)
JobOK ==
  job = NoJob \/ (job.conn \in Conns /\ (job.after = "announce" => job.point \in Points))
TypeInv == TypeOK /\ JobOK

(* TypeOK in the parts that steps change together. *)
Jobs == [conn : Nat, after : {"none", "keep", "close", "announce"}, point : Nat]
Frames == [at : Nat, done : 0 .. FrameLen - 1]
PeersOK ==
  /\ mode \in {"serving", "draining", "stopped"}
  /\ peer \in [Conns -> {"none", "up", "gone"}] /\ asked \in [Conns -> BOOLEAN]
  /\ asks \in Nat /\ room \in [Conns -> 0 .. BufCap]
GateOK ==
  /\ part \in [Conns -> Partitions] /\ subs \in [Conns -> SUBSET Points]
  /\ rbe \in [Conns -> Slots]
QueuesOK ==
  /\ outq \in [Conns -> Seq(Nat)] /\ \A c \in Conns : Len(outq[c]) <= Cap
  /\ sent \in [Conns -> 0 .. FrameLen - 1] /\ stream \in [Conns -> Frames]
CountsOK == passed \in [Conns -> Nat] /\ delivered \in [Conns -> Nat] /\ dropped \in [Conns -> Nat]
StoreOK == value \in [Points -> Nat] /\ writes \in Nat
ToldOK ==
  /\ due \in [Conns -> SUBSET Points]
  /\ told \in [Conns -> [Points -> Notes]] /\ lost \in [Conns -> SUBSET Points]
  /\ silent \subseteq Points

LEMMA TypeParts ==
  TypeOK <=> PeersOK /\ GateOK /\ QueuesOK /\ CountsOK /\ StoreOK /\ ToldOK /\ job \in Jobs
  BY Zenon DEF TypeOK, PeersOK, GateOK, QueuesOK, CountsOK, StoreOK, ToldOK, Jobs, Frames

LEMMA TypePartsNext ==
  TypeOK' <=> PeersOK' /\ GateOK' /\ QueuesOK' /\ CountsOK' /\ StoreOK' /\ ToldOK' /\ job' \in Jobs
  BY Zenon DEF TypeOK, PeersOK, GateOK, QueuesOK, CountsOK, StoreOK, ToldOK, Jobs, Frames

-----------------------------------------------------------------------------
(* The gate keeps the shape of its slots. *)

Slot == [id : Nat, valid : BOOLEAN, last : Nat]

LEMMA SlotUpdate ==
  ASSUME NEW s \in Slots, NEW i, NEW r \in Slot
  PROVE  [s EXCEPT ![i] = r] \in Slots
  BY DEF Slots, Slot

LEMMA RbeAfterType ==
  ASSUME NEW s \in Slots, NEW p \in Nat, NEW v \in Nat
  PROVE  RbeAfter(s, p, v) \in Slots
<1>1. [id |-> p, valid |-> TRUE, last |-> v] \in Slot
  BY DEF Slot
<1>2. QED
  BY <1>1, SlotUpdate DEF RbeAfter

LEMMA RbeClearType ==
  ASSUME NEW s \in Slots, NEW p
  PROVE  RbeClear(s, p) \in Slots
<1> DEFINE i == First({j \in DOMAIN s : s[j].id = p})
<1>1. CASE i \in 1 .. SubMax
  <2>1. [id |-> 0, valid |-> FALSE, last |-> s[i].last] \in Slot
    BY <1>1 DEF Slots, Slot
  <2>2. QED
    BY <2>1, SlotUpdate DEF RbeClear
<1>2. CASE i \notin 1 .. SubMax
  <2>1. [s EXCEPT ![i] = [id |-> 0, valid |-> FALSE, last |-> @.last]] = s
    BY <1>2 DEF Slots
  <2>2. QED
    BY <2>1 DEF RbeClear
<1>3. QED
  BY <1>1, <1>2

LEMMA EmptySlots == [i \in 1 .. SubMax |-> EmptySlot] \in Slots
  BY DEF Slots, EmptySlot

-----------------------------------------------------------------------------
(* The bounded queue. *)

(* A push keeps the bound, counts what it evicts, and leaves the head alone  *)
(* when a part of it is on the stream.                                       *)
LEMMA PushFacts ==
  ASSUME NEW q \in Seq(Nat), Len(q) <= Cap, NEW started \in Nat, NEW n \in Nat
  PROVE  /\ Push(q, started, n) \in Seq(Nat)
         /\ Len(Push(q, started, n)) <= Cap
         /\ Len(q) + 1 = Len(Push(q, started, n)) + Loses(q)
         /\ Loses(q) \in Nat
         /\ started > 0 /\ q # <<>> =>
              Push(q, started, n) # <<>> /\ Head(Push(q, started, n)) = Head(q)
<1>1. Cap \in Nat /\ Cap > 0
  BY NotifyBounds
<1>2. CASE Full(q) /\ started > 0
  BY <1>1, <1>2 DEF Push, Refuses, Full, Loses
<1>3. CASE Full(q) /\ ~(started > 0)
  <2>1. q # <<>>
    BY <1>1, <1>3 DEF Full
  <2>2. Tail(q) \in Seq(Nat) /\ Len(Tail(q)) = Len(q) - 1
    BY <2>1, HeadTailProperties
  <2>3. Push(q, started, n) = Append(Tail(q), n)
    BY <1>3 DEF Push, Refuses
  <2>4. QED
    BY <1>1, <1>3, <2>2, <2>3, AppendProperties DEF Full, Loses
<1>4. CASE ~Full(q)
  <2>1. Push(q, started, n) = Append(q, n)
    BY <1>4 DEF Push, Refuses
  <2>2. Append(q, n) \in Seq(Nat) /\ Len(Append(q, n)) = Len(q) + 1
    BY AppendProperties
  <2>3. q # <<>> => Append(q, n) # <<>> /\ Head(Append(q, n)) = Head(q)
    BY AppendProperties, HeadTailProperties
  <2>4. Len(q) < Cap
    BY <1>1, <1>4 DEF Full
  <2>5. Loses(q) = 0
    BY <1>4 DEF Loses
  <2>6. QED
    BY <1>1, <2>1, <2>2, <2>3, <2>4, <2>5, LenProperties
<1>5. QED
  BY <1>2, <1>3, <1>4

(* Whole frames and the rest of a run of units that the queue can supply. *)
LEMMA Division ==
  ASSUME NEW f \in Nat \ {0}, NEW u \in Nat, NEW n \in Nat, u <= f * n
  PROVE  /\ u \div f \in 0 .. n
         /\ u % f \in 0 .. f - 1
         /\ u % f # 0 => u \div f < n
<1> DEFINE d == u \div f
           m == u % f
<1>1. d \in Nat /\ m \in 0 .. f - 1
  BY SMT
<1>2. u = d * f + m
  BY SMT
<1> HIDE DEF d, m
<1>3. ~(d >= n + 1) /\ (d >= n => m = 0)
  BY <1>1, <1>2, SMT
<1>4. QED
  BY <1>1, <1>3 DEF d, m

-----------------------------------------------------------------------------
(* Types. *)

LEMMA Numbers ==
  /\ Conns \subseteq Nat /\ Points \subseteq Nat /\ Values \subseteq Nat
  /\ Partitions \subseteq Nat /\ 0 \in Partitions
  /\ FrameLen \in Nat /\ FrameLen > 0 /\ BufCap \in Nat /\ BufCap > 0
  /\ Cap \in Nat /\ Cap > 0
  BY NotifyBounds

LEMMA Markers ==
  /\ NoFrame \in [at : Nat, done : 0 .. FrameLen - 1] /\ 0 \in 0 .. FrameLen - 1
  /\ <<>> \in Seq(Nat) /\ Len(<<>>) <= Cap
  BY Numbers DEF NoFrame

LEMMA TypeInitially == Init => TypeInv
<1> SUFFICES ASSUME Init PROVE TypeInv
  OBVIOUS
<1>1. rbe \in [Conns -> Slots]
  BY EmptySlots DEF Init
<1>2. outq \in [Conns -> Seq(Nat)] /\ \A c \in Conns : Len(outq[c]) <= Cap
  BY Markers DEF Init
<1>3. stream \in [Conns -> [at : Nat, done : 0 .. FrameLen - 1]]
  BY Markers DEF Init
<1>4. job \in [conn : Nat, after : {"none", "keep", "close", "announce"}, point : Nat]
  BY DEF Init, NoJob
<1>5. /\ mode \in {"serving", "draining", "stopped"}
      /\ peer \in [Conns -> {"none", "up", "gone"}] /\ asked \in [Conns -> BOOLEAN]
      /\ asks \in Nat /\ room \in [Conns -> 0 .. BufCap]
      /\ part \in [Conns -> Partitions] /\ subs \in [Conns -> SUBSET Points]
      /\ sent \in [Conns -> 0 .. FrameLen - 1]
  BY Numbers, Markers DEF Init
<1>6. /\ value \in [Points -> Nat] /\ writes \in Nat
      /\ passed \in [Conns -> Nat] /\ delivered \in [Conns -> Nat]
      /\ dropped \in [Conns -> Nat] /\ due \in [Conns -> SUBSET Points]
      /\ told \in [Conns -> [Points -> Notes]] /\ lost \in [Conns -> SUBSET Points]
      /\ silent \subseteq Points
  BY DEF Init, Nothing, Notes
<1>7. JobOK
  BY DEF Init, JobOK
<1>8. QED
  BY <1>1, <1>2, <1>3, <1>4, <1>5, <1>6, <1>7 DEF TypeOK, TypeInv

(* What conn_init leaves in a slot. *)
LEMMA ConnInitType ==
  ASSUME TypeOK, NEW c \in Conns, ConnInit(c)
  PROVE  /\ part' \in [Conns -> Partitions] /\ subs' \in [Conns -> SUBSET Points]
         /\ due' \in [Conns -> SUBSET Points] /\ rbe' \in [Conns -> Slots]
         /\ outq' \in [Conns -> Seq(Nat)] /\ \A d \in Conns : Len(outq'[d]) <= Cap
         /\ sent' \in [Conns -> 0 .. FrameLen - 1]
         /\ stream' \in [Conns -> [at : Nat, done : 0 .. FrameLen - 1]]
<1>1. part' \in [Conns -> Partitions] /\ subs' \in [Conns -> SUBSET Points]
      /\ due' \in [Conns -> SUBSET Points]
  BY Numbers DEF ConnInit, TypeOK
<1>2. rbe' \in [Conns -> Slots]
  BY EmptySlots DEF ConnInit, TypeOK
<1>3. outq' \in [Conns -> Seq(Nat)] /\ \A d \in Conns : Len(outq'[d]) <= Cap
  BY Markers DEF ConnInit, TypeOK
<1>4. /\ sent' \in [Conns -> 0 .. FrameLen - 1]
      /\ stream' \in [Conns -> [at : Nat, done : 0 .. FrameLen - 1]]
  BY Markers DEF ConnInit, TypeOK
<1>5. QED
  BY <1>1, <1>2, <1>3, <1>4

LEMMA DiscardCounted ==
  ASSUME TypeOK, NEW c \in Conns
  PROVE  Discarded(c) \in Nat
<1>1. outq[c] \in Seq(Nat)
  BY TypeParts DEF QueuesOK
<1>2. QED
  BY <1>1, LenProperties DEF Discarded

LEMMA CloseType ==
  ASSUME TypeInv, NEW c \in Conns, Close(c), job' \in {job, NoJob},
         silent' \subseteq Points, UNCHANGED <<mode, value, writes>>
  PROVE  TypeInv'
<1>1. TypeOK /\ JobOK /\ ConnInit(c)
  BY DEF TypeInv, Close
<1>2. dropped' \in [Conns -> Nat]
  <2>1. dropped \in [Conns -> Nat] /\ Discarded(c) \in Nat
    BY <1>1, TypeParts, DiscardCounted DEF CountsOK
  <2>2. dropped' = [dropped EXCEPT ![c] = @ + Discarded(c)]
    BY DEF Close
  <2>3. QED
    BY <2>1, <2>2
<1>3. /\ peer' \in [Conns -> {"none", "up", "gone"}] /\ asked' \in [Conns -> BOOLEAN]
      /\ asks' \in Nat /\ room' \in [Conns -> 0 .. BufCap]
      /\ told' \in [Conns -> [Points -> Notes]] /\ lost' \in [Conns -> SUBSET Points]
      /\ passed' \in [Conns -> Nat] /\ delivered' \in [Conns -> Nat]
  BY <1>1 DEF Close, TypeOK
<1>4. /\ job' \in [conn : Nat, after : {"none", "keep", "close", "announce"}, point : Nat]
      /\ JobOK'
  <2>1. CASE job' = job
    BY <1>1, <2>1 DEF JobOK, TypeOK
  <2>2. CASE job' = NoJob
    BY <2>2 DEF NoJob, JobOK
  <2>3. QED
    BY <2>1, <2>2
<1>5. /\ mode' \in {"serving", "draining", "stopped"}
      /\ value' \in [Points -> Nat] /\ writes' \in Nat
  BY <1>1 DEF TypeOK
<1>6. /\ GateOK' /\ QueuesOK' /\ due' \in [Conns -> SUBSET Points]
  BY <1>1, ConnInitType DEF GateOK, QueuesOK, Frames
<1>7. PeersOK' /\ CountsOK' /\ StoreOK'
  BY <1>2, <1>3, <1>5 DEF PeersOK, CountsOK, StoreOK
<1>8. ToldOK' /\ job' \in Jobs
  BY <1>3, <1>4, <1>6 DEF ToldOK, Jobs
<1>9. QED
  BY <1>4, <1>6, <1>7, <1>8, TypePartsNext DEF TypeInv

(* outq_flush. *)
LEMMA FlushedType ==
  ASSUME TypeOK, NEW c \in Conns, NEW k \in 1 .. room[c],
         sent[c] + k <= FrameLen * Len(outq[c]), Flushed(c, k)
  PROVE  /\ outq' \in [Conns -> Seq(Nat)] /\ \A d \in Conns : Len(outq'[d]) <= Cap
         /\ sent' \in [Conns -> 0 .. FrameLen - 1] /\ delivered' \in [Conns -> Nat]
         /\ stream' \in [Conns -> [at : Nat, done : 0 .. FrameLen - 1]]
<1> DEFINE whole == (sent[c] + k) \div FrameLen
           rest == (sent[c] + k) % FrameLen
           q == outq[c]
<1>1. /\ q \in Seq(Nat) /\ Len(q) \in Nat /\ Len(q) <= Cap
      /\ sent[c] + k \in Nat
  <2>1. QueuesOK /\ PeersOK
    BY TypeParts
  <2>2. q \in Seq(Nat) /\ Len(q) <= Cap /\ sent[c] \in Nat
    BY <2>1, Numbers DEF QueuesOK
  <2>3. k \in Nat
    BY <2>1, Numbers DEF PeersOK
  <2>4. QED
    BY <2>2, <2>3, LenProperties
<1>2. /\ whole \in 0 .. Len(q) /\ rest \in 0 .. FrameLen - 1
      /\ rest # 0 => whole < Len(q)
  <2>1. FrameLen \in Nat \ {0} /\ sent[c] + k <= FrameLen * Len(q)
    BY Numbers
  <2>2. QED
    BY <1>1, <2>1, Division, Zenon
<1>3. /\ outq' = [outq EXCEPT ![c] = SubSeq(q, whole + 1, Len(q))]
      /\ sent' = [sent EXCEPT ![c] = rest]
      /\ delivered' = [delivered EXCEPT ![c] = delivered[c] + whole]
      /\ stream' = [stream EXCEPT ![c] =
           IF rest = 0 THEN NoFrame
           ELSE [at |-> IF whole = 0 /\ sent[c] > 0 THEN stream[c].at ELSE q[whole + 1],
                 done |-> rest]]
  BY DEF Flushed, TypeOK
<1> HIDE DEF whole, rest
<1>4. SubSeq(q, whole + 1, Len(q)) \in Seq(Nat)
      /\ Len(SubSeq(q, whole + 1, Len(q))) = Len(q) - whole
  <2>1. \A i \in whole + 1 .. Len(q) : q[i] \in Nat
    BY <1>1, <1>2, ElementOfSeq
  <2>2. QED
    BY <2>1, <1>1, <1>2, SubSeqProperties
<1>5. outq' \in [Conns -> Seq(Nat)] /\ \A d \in Conns : Len(outq'[d]) <= Cap
  <2>1. outq' \in [Conns -> Seq(Nat)]
    BY <1>3, <1>4 DEF TypeOK
  <2>2. \A d \in Conns : outq'[d] = IF d = c THEN SubSeq(q, whole + 1, Len(q)) ELSE outq[d]
    BY <1>3 DEF TypeOK
  <2>3. Len(q) - whole <= Cap
    BY <1>1, <1>2, Numbers
  <2>4. \A d \in Conns : Len(outq[d]) <= Cap
    BY DEF TypeOK
  <2>5. QED
    BY <1>4, <2>1, <2>2, <2>3, <2>4
<1>6. stream[c].at \in Nat /\ (rest # 0 => q[whole + 1] \in Nat)
  <2>1. stream[c] \in Frames
    BY TypeParts DEF QueuesOK
  <2>2. stream[c].at \in Nat
    BY <2>1 DEF Frames
  <2>3. ASSUME rest # 0 PROVE whole + 1 \in 1 .. Len(q)
    BY <1>1, <1>2, <2>3
  <2>4. QED
    BY <1>1, <2>2, <2>3, ElementOfSeq
<1>7. /\ sent' \in [Conns -> 0 .. FrameLen - 1]
      /\ delivered' \in [Conns -> Nat]
  <2>1. sent \in [Conns -> 0 .. FrameLen - 1] /\ delivered \in [Conns -> Nat]
    BY TypeParts DEF QueuesOK, CountsOK
  <2>2. whole \in Nat /\ delivered[c] + whole \in Nat
    BY <1>1, <1>2, <2>1
  <2>3. QED
    BY <1>2, <1>3, <2>1, <2>2
<1>8. (IF rest = 0 THEN NoFrame
       ELSE [at |-> IF whole = 0 /\ sent[c] > 0 THEN stream[c].at ELSE q[whole + 1],
             done |-> rest]) \in [at : Nat, done : 0 .. FrameLen - 1]
  BY <1>2, <1>6, Markers
<1>9. stream' \in [Conns -> [at : Nat, done : 0 .. FrameLen - 1]]
  BY <1>3, <1>8 DEF TypeOK
<1>10. QED
  BY <1>5, <1>7, <1>9

(* notify_broadcast. *)
LEMMA BroadcastType ==
  ASSUME TypeOK, NEW p \in Points, Broadcast(p)
  PROVE  /\ rbe' \in [Conns -> Slots]
         /\ outq' \in [Conns -> Seq(Nat)] /\ \A d \in Conns : Len(outq'[d]) <= Cap
         /\ dropped' \in [Conns -> Nat] /\ passed' \in [Conns -> Nat]
         /\ due' \in [Conns -> SUBSET Points]
         /\ told' \in [Conns -> [Points -> Notes]] /\ lost' \in [Conns -> SUBSET Points]
         /\ silent' \subseteq Points
<1>0. QueuesOK /\ CountsOK /\ GateOK /\ ToldOK /\ StoreOK
  BY TypeParts
<1>1. p \in Nat /\ value[p] \in Nat
  BY <1>0, Numbers DEF StoreOK
<1>2. rbe' \in [Conns -> Slots]
  <2>1. \A d \in Conns : RbeAfter(rbe[d], p, value[p]) \in Slots /\ rbe[d] \in Slots
    BY <1>0, <1>1, RbeAfterType DEF GateOK
  <2>2. QED
    BY <2>1 DEF Broadcast
<1>3. \A d \in Conns : /\ Push(outq[d], sent[d], writes) \in Seq(Nat)
                       /\ Len(Push(outq[d], sent[d], writes)) <= Cap
                       /\ Loses(outq[d]) \in Nat
  <2>1. \A d \in Conns : /\ outq[d] \in Seq(Nat) /\ Len(outq[d]) <= Cap
                         /\ sent[d] \in Nat /\ writes \in Nat
    BY <1>0, Numbers DEF QueuesOK, StoreOK
  <2>2. QED
    BY <2>1, PushFacts
<1>4. outq' \in [Conns -> Seq(Nat)] /\ \A d \in Conns : Len(outq'[d]) <= Cap
  <2>1. \A d \in Conns : outq[d] \in Seq(Nat) /\ Len(outq[d]) <= Cap
    BY <1>0 DEF QueuesOK
  <2>2. \A d \in Conns : outq'[d] \in {outq[d], Push(outq[d], sent[d], writes)}
    BY DEF Broadcast
  <2>3. \A d \in Conns : outq'[d] \in Seq(Nat) /\ Len(outq'[d]) <= Cap
    BY <1>3, <2>1, <2>2
  <2>4. outq' = [d \in Conns |-> outq'[d]]
    BY DEF Broadcast
  <2>5. QED
    BY <2>3, <2>4
<1>5. dropped' \in [Conns -> Nat] /\ passed' \in [Conns -> Nat]
  <2>1. \A d \in Conns : /\ dropped[d] \in Nat /\ dropped[d] + Loses(outq[d]) \in Nat
                         /\ passed[d] \in Nat /\ passed[d] + 1 \in Nat
    BY <1>0, <1>3 DEF CountsOK
  <2>2. QED
    BY <2>1 DEF Broadcast
<1>6. /\ due' \in [Conns -> SUBSET Points]
      /\ told' \in [Conns -> [Points -> Notes]] /\ lost' \in [Conns -> SUBSET Points]
  <2>1. due' \in [Conns -> SUBSET Points]
    BY <1>0, <1>1 DEF Broadcast, ToldOK
  <2>2. told' \in [Conns -> [Points -> Notes]]
    <3>1. [write |-> writes, value |-> value[p]] \in Notes
      BY <1>0, <1>1 DEF Notes, StoreOK
    <3>2. \A d \in Conns :
             /\ told[d] \in [Points -> Notes]
             /\ [told[d] EXCEPT ![p] = [write |-> writes, value |-> value[p]]] \in [Points -> Notes]
      BY <1>0, <3>1 DEF ToldOK
    <3>3. QED
      BY <3>2 DEF Broadcast
  <2>3. lost' \in [Conns -> SUBSET Points]
    <3>1. \A d \in Conns : lost[d] \subseteq Points /\ Evicted(d) \subseteq Points
      BY <1>0 DEF ToldOK, Evicted
    <3>2. QED
      BY <3>1 DEF Broadcast
  <2>4. QED
    BY <2>1, <2>2, <2>3
<1>7. silent' \subseteq Points
  BY <1>0 DEF Broadcast, ToldOK
<1>8. QED
  BY <1>2, <1>4, <1>5, <1>6, <1>7

(* The steps of the peers. *)
LEMMA PeerType ==
  ASSUME TypeInv, NEW c \in Conns, Ask(c) \/ Receive(c) \/ Leave(c)
  PROVE  TypeInv'
<1>1. /\ PeersOK /\ GateOK /\ QueuesOK /\ CountsOK /\ StoreOK /\ ToldOK /\ job \in Jobs /\ JobOK
  BY TypeParts DEF TypeInv
<1>2. UNCHANGED <<part, gate, queue, store, job>>
  BY DEF Ask, Receive, Leave
<1>3. PeersOK'
  <2>1. CASE Ask(c)
    BY <1>1, <2>1 DEF Ask, PeersOK
  <2>2. CASE Receive(c)
    <3>1. room[c] + 1 \in 0 .. BufCap
      BY <1>1, <2>2, Numbers DEF Receive, PeersOK
    <3>2. QED
      BY <1>1, <2>2, <3>1 DEF Receive, PeersOK
  <2>3. CASE Leave(c)
    BY <1>1, <2>3 DEF Leave, PeersOK
  <2>4. QED
    BY <2>1, <2>2, <2>3
<1>4. GateOK' /\ QueuesOK' /\ CountsOK' /\ StoreOK' /\ ToldOK' /\ job' \in Jobs /\ JobOK'
  BY <1>1, <1>2 DEF GateOK, QueuesOK, CountsOK, StoreOK, ToldOK, JobOK, gate, queue, store
<1>5. QED
  BY <1>3, <1>4, TypePartsNext DEF TypeInv

LEMMA AcceptType == ASSUME TypeInv, NEW c \in Conns, Accept(c) PROVE TypeInv'
<1>1. TypeOK /\ JobOK /\ ConnInit(c)
  BY DEF Accept, TypeInv
<1>2. /\ PeersOK /\ GateOK /\ QueuesOK /\ CountsOK /\ StoreOK /\ ToldOK /\ job \in Jobs
  BY <1>1, TypeParts
<1>3. PeersOK'
  <2>1. BufCap \in 0 .. BufCap
    BY Numbers
  <2>2. QED
    BY <1>2, <2>1 DEF Accept, PeersOK
<1>4. CountsOK' /\ told' \in [Conns -> [Points -> Notes]] /\ lost' \in [Conns -> SUBSET Points]
  BY <1>2 DEF Accept, CountsOK, ToldOK
<1>5. StoreOK' /\ silent' \subseteq Points /\ job' = job
  BY <1>2 DEF Accept, store, StoreOK, ToldOK
<1>6. GateOK' /\ QueuesOK' /\ due' \in [Conns -> SUBSET Points]
  BY <1>1, ConnInitType DEF GateOK, QueuesOK, Frames
<1>7. ToldOK' /\ job' \in Jobs /\ JobOK'
  BY <1>1, <1>2, <1>4, <1>5, <1>6 DEF ToldOK, JobOK
<1>8. QED
  BY <1>3, <1>4, <1>5, <1>6, <1>7, TypePartsNext DEF TypeInv

LEMMA HangUpType ==
  ASSUME TypeInv, NEW c \in Conns, HangUp(c) \/ WrongVersion(c)
  PROVE  TypeInv'
  BY CloseType DEF HangUp, WrongVersion, store, TypeInv, TypeOK

LEMMA FlushType == ASSUME TypeInv, NEW c \in Conns, Flush(c) PROVE TypeInv'
<1>1. /\ PeersOK /\ GateOK /\ QueuesOK /\ CountsOK /\ StoreOK /\ ToldOK /\ job \in Jobs
      /\ TypeOK /\ JobOK
  BY TypeParts DEF TypeInv
<1>2. /\ mode' = mode /\ job' = job /\ UNCHANGED <<value, writes, silent>>
  BY DEF Flush, store
<1>3. StoreOK' /\ silent' \subseteq Points /\ job' \in Jobs /\ JobOK'
  BY <1>1, <1>2 DEF StoreOK, ToldOK, JobOK
<1>4. ASSUME NEW k \in 1 .. room[c], sent[c] + k <= FrameLen * Len(outq[c]), Flushed(c, k),
             room' = [room EXCEPT ![c] = @ - k], UNCHANGED <<peer, asked, asks, part, gate>>
      PROVE  TypeInv'
  <2>1. PeersOK'
    <3>1. room[c] \in 0 .. BufCap /\ BufCap \in Nat
      BY <1>1, Numbers DEF PeersOK
    <3>2. room[c] - k \in 0 .. BufCap
      BY <3>1
    <3>3. QED
      BY <1>1, <1>2, <1>4, <3>2 DEF PeersOK
  <2>2. GateOK' /\ ToldOK'
    BY <1>1, <1>3, <1>4 DEF gate, GateOK, ToldOK
  <2>3. QueuesOK' /\ delivered' \in [Conns -> Nat]
    BY <1>1, <1>4, FlushedType DEF QueuesOK, Frames
  <2>4. CountsOK'
    BY <1>1, <1>4, <2>3 DEF CountsOK, Flushed
  <2>5. QED
    BY <1>3, <2>1, <2>2, <2>3, <2>4, TypePartsNext DEF TypeInv
<1>5. CASE Close(c)
  <2>1. job' \in {job, NoJob}
    BY <1>2
  <2>2. QED
    BY <1>2, <1>3, <1>5, <2>1, CloseType, Zenon
<1>6. ASSUME dropped' = [dropped EXCEPT ![c] = @ + Discarded(c)],
             outq' = [outq EXCEPT ![c] = <<>>], sent' = [sent EXCEPT ![c] = 0],
             stream' = [stream EXCEPT ![c] = NoFrame],
             UNCHANGED <<sockets, part, gate, passed, delivered>>
      PROVE  TypeInv'
  <2>1. PeersOK'
    BY <1>1, <1>2, <1>6 DEF PeersOK, sockets
  <2>2. GateOK' /\ ToldOK'
    BY <1>1, <1>3, <1>6 DEF gate, GateOK, ToldOK
  <2>3. CountsOK'
    <3>1. dropped[c] + Discarded(c) \in Nat
      BY <1>1, DiscardCounted DEF CountsOK
    <3>2. QED
      BY <1>1, <1>6, <3>1 DEF CountsOK
  <2>4. QueuesOK'
    <3>1. NoFrame \in Frames /\ 0 \in 0 .. FrameLen - 1 /\ <<>> \in Seq(Nat) /\ Len(<<>>) <= Cap
      BY Markers DEF Frames
    <3>2. outq' \in [Conns -> Seq(Nat)] /\ \A d \in Conns : outq'[d] \in {outq[d], <<>>}
      BY <1>1, <1>6, <3>1 DEF QueuesOK
    <3>3. \A d \in Conns : Len(outq'[d]) <= Cap
      <4>1. \A d \in Conns : Len(outq[d]) <= Cap
        BY <1>1 DEF QueuesOK
      <4>2. QED
        BY <3>1, <3>2, <4>1
    <3>4. sent' \in [Conns -> 0 .. FrameLen - 1] /\ stream' \in [Conns -> Frames]
      BY <1>1, <1>6, <3>1 DEF QueuesOK
    <3>5. QED
      BY <3>2, <3>3, <3>4 DEF QueuesOK
  <2>5. QED
    BY <1>3, <2>1, <2>2, <2>3, <2>4, TypePartsNext DEF TypeInv
<1>7. QED
  BY <1>4, <1>5, <1>6 DEF Flush

(* A request leaves a reply to send, and the queues as they were. *)
LEMMA HandleType ==
  ASSUME TypeInv, NEW c \in Conns, NEW after \in {"keep", "close", "announce"},
         NEW p \in Nat, after = "announce" => p \in Points, Handle(c, after, p)
  PROVE  job' \in Jobs /\ JobOK' /\ PeersOK' /\ QueuesOK' /\ CountsOK'
<1>1. PeersOK /\ QueuesOK /\ CountsOK
  BY TypeParts DEF TypeInv
<1>2. job' \in Jobs
  BY Numbers DEF Handle, Jobs
<1>3. JobOK'
  BY DEF Handle, JobOK
<1>4. PeersOK'
  BY <1>1 DEF Handle, PeersOK
<1>5. QueuesOK' /\ CountsOK'
  BY <1>1 DEF Handle, QueuesOK, CountsOK, queue
<1>6. QED
  BY <1>2, <1>3, <1>4, <1>5

LEMMA RequestType == ASSUME TypeInv, NEW c \in Conns, Request(c) PROVE TypeInv'
<1>0. GateOK /\ StoreOK /\ ToldOK
  BY TypeParts DEF TypeInv
<1>1. CASE Query(c) \/ BadRequest(c) \/ WriteRefused(c)
  <2>1. PICK after \in {"keep", "close"} : Handle(c, after, 0)
    BY <1>1 DEF Query, BadRequest, WriteRefused
  <2>2. UNCHANGED <<part, gate, store>>
    BY <1>1 DEF Query, BadRequest, WriteRefused
  <2>3. after \in {"keep", "close", "announce"} /\ after # "announce"
    OBVIOUS
  <2>4. GateOK' /\ StoreOK' /\ ToldOK'
    BY <1>0, <2>2 DEF GateOK, StoreOK, ToldOK, gate, store
  <2>5. job' \in Jobs /\ JobOK' /\ PeersOK' /\ QueuesOK' /\ CountsOK'
    <3>1. 0 \in Nat /\ (after = "announce" => 0 \in Points)
      BY <2>3
    <3>2. QED
      BY <2>1, <2>3, <3>1, HandleType, Zenon
  <2>6. QED
    BY <2>4, <2>5, TypePartsNext DEF TypeInv
<1>2. ASSUME NEW q \in Partitions, Select(c, q) PROVE TypeInv'
  <2>1. Handle(c, "keep", 0) /\ UNCHANGED <<gate, store>>
    BY <1>2 DEF Select
  <2>2. GateOK' /\ StoreOK' /\ ToldOK'
    BY <1>0, <1>2 DEF Select, GateOK, StoreOK, ToldOK, gate, store
  <2>3. QED
    BY <2>1, <2>2, HandleType, TypePartsNext DEF TypeInv
<1>3. ASSUME NEW p \in Points, Subscribe(c, p) PROVE TypeInv'
  <2>1. Handle(c, "keep", 0) /\ UNCHANGED <<rbe, told, lost, part, store>>
    BY <1>3 DEF Subscribe
  <2>2. /\ subs' \in {subs, [subs EXCEPT ![c] = @ \cup {p}]}
        /\ due' \in {due, [due EXCEPT ![c] = @ \cup {p}]}
    BY <1>3 DEF Subscribe
  <2>3. subs' \in [Conns -> SUBSET Points] /\ due' \in [Conns -> SUBSET Points]
    <3>1. subs \in [Conns -> SUBSET Points] /\ due \in [Conns -> SUBSET Points]
      BY <1>0 DEF GateOK, ToldOK
    <3>2. [subs EXCEPT ![c] = @ \cup {p}] \in [Conns -> SUBSET Points]
      BY <3>1
    <3>3. [due EXCEPT ![c] = @ \cup {p}] \in [Conns -> SUBSET Points]
      BY <3>1
    <3>4. QED
      BY <2>2, <3>1, <3>2, <3>3, Zenon
  <2>4. GateOK' /\ StoreOK' /\ ToldOK'
    <3>1. GateOK'
      BY <1>0, <2>1, <2>3, Zenon DEF GateOK
    <3>2. StoreOK' /\ silent' = silent
      BY <1>0, <2>1 DEF StoreOK, store
    <3>3. QED
      BY <1>0, <2>1, <2>3, <3>1, <3>2, Zenon DEF ToldOK
  <2>5. QED
    BY <2>1, <2>4, HandleType, TypePartsNext DEF TypeInv
<1>4. ASSUME NEW p \in Points, Unsubscribe(c, p) PROVE TypeInv'
  <2>1. Handle(c, "keep", 0) /\ UNCHANGED <<told, lost, part, store>>
    BY <1>4 DEF Unsubscribe
  <2>2. subs' \in [Conns -> SUBSET Points] /\ due' \in [Conns -> SUBSET Points]
    BY <1>0, <1>4 DEF Unsubscribe, GateOK, ToldOK
  <2>3. rbe' \in [Conns -> Slots]
    <3>1. RbeClear(rbe[c], p) \in Slots
      BY <1>0, RbeClearType DEF GateOK
    <3>2. QED
      BY <1>0, <1>4, <3>1 DEF Unsubscribe, GateOK
  <2>4. GateOK' /\ StoreOK' /\ ToldOK'
    BY <1>0, <2>1, <2>2, <2>3 DEF GateOK, StoreOK, ToldOK, store
  <2>5. QED
    BY <2>1, <2>4, HandleType, TypePartsNext DEF TypeInv
<1>5. ASSUME NEW p \in Points, NEW v \in Values, Write(c, p, v) PROVE TypeInv'
  <2>1. Handle(c, "announce", p) /\ UNCHANGED <<part, gate>> /\ p \in Nat
    BY <1>5, Numbers DEF Write
  <2>2. StoreOK' /\ silent' \subseteq Points
    BY <1>0, <1>5, Numbers DEF Write, StoreOK, ToldOK
  <2>3. GateOK' /\ ToldOK'
    BY <1>0, <2>1, <2>2 DEF GateOK, ToldOK, gate
  <2>4. QED
    BY <2>1, <2>2, <2>3, HandleType, TypePartsNext DEF TypeInv
<1>6. QED
  BY <1>1, <1>2, <1>3, <1>4, <1>5 DEF Request

LEMMA ReplyType == ASSUME TypeInv, Reply PROVE TypeInv'
<1> DEFINE c == job.conn
<1>1. /\ c \in Conns /\ (job.after = "announce" => job.point \in Points)
      /\ job' = NoJob /\ UNCHANGED <<mode, value, writes>> /\ TypeOK
  BY DEF Reply, TypeInv, JobOK
<1>2. /\ PeersOK /\ GateOK /\ QueuesOK /\ CountsOK /\ StoreOK /\ ToldOK
  BY <1>1, TypeParts
<1>3. job' \in Jobs /\ JobOK' /\ StoreOK'
  BY <1>1, <1>2 DEF NoJob, Jobs, JobOK, StoreOK
<1>4. ASSUME room[c] > 0, room' = [room EXCEPT ![c] = @ - 1], UNCHANGED <<peer, asked, asks>>
      PROVE  PeersOK'
  <2>1. room[c] \in 0 .. BufCap /\ BufCap \in Nat
    BY <1>1, <1>2, Numbers DEF PeersOK
  <2>2. room[c] - 1 \in 0 .. BufCap
    BY <1>4, <2>1
  <2>3. QED
    BY <1>1, <1>2, <1>4, <2>2 DEF PeersOK
<1>5. CASE room[c] > 0 /\ room' = [room EXCEPT ![c] = @ - 1]
           /\ UNCHANGED <<peer, asked, asks, part, gate, queue, silent>>
  <2>1. GateOK' /\ QueuesOK' /\ CountsOK' /\ ToldOK'
    BY <1>2, <1>5 DEF GateOK, QueuesOK, CountsOK, ToldOK, gate, queue
  <2>2. QED
    BY <1>3, <1>4, <1>5, <2>1, TypePartsNext DEF TypeInv
<1>6. CASE room[c] > 0 /\ room' = [room EXCEPT ![c] = @ - 1] /\ job.after = "announce"
           /\ Broadcast(job.point) /\ UNCHANGED <<peer, asked, asks, part>>
  <2>1. UNCHANGED <<subs, sent, stream, delivered>>
    BY <1>6 DEF Broadcast
  <2>2. job.point \in Points
    BY <1>1, <1>6
  <2>3. GateOK' /\ QueuesOK' /\ CountsOK' /\ ToldOK'
    BY <1>1, <1>2, <1>6, <2>1, <2>2, BroadcastType DEF GateOK, QueuesOK, CountsOK, ToldOK
  <2>4. QED
    BY <1>3, <1>4, <1>6, <2>3, TypePartsNext DEF TypeInv
<1>7. CASE Close(c) /\ silent' \subseteq Points
  BY <1>1, <1>7, CloseType
<1>8. silent \subseteq Points
  BY <1>2 DEF ToldOK
<1>9. job.after = "announce" => silent \cup {job.point} \subseteq Points
  BY <1>1, <1>8
<1>10. QED
  BY <1>1, <1>5, <1>6, <1>7, <1>8, <1>9 DEF Reply

LEMMA FinishType == ASSUME TypeInv, Finish PROVE TypeInv'
<1>1. /\ PeersOK /\ GateOK /\ CountsOK /\ StoreOK /\ ToldOK /\ job \in Jobs /\ JobOK
  BY TypeParts DEF TypeInv
<1>2. CountsOK'
  <2>1. \A c \in Conns : Discarded(c) \in Nat /\ dropped[c] \in Nat
    BY <1>1, DiscardCounted DEF CountsOK, TypeInv
  <2>2. QED
    BY <1>1, <2>1 DEF Finish, CountsOK
<1>3. QueuesOK'
  BY Markers DEF Finish, QueuesOK, Frames
<1>4. PeersOK' /\ GateOK' /\ StoreOK' /\ ToldOK'
  BY <1>1 DEF Finish, PeersOK, GateOK, StoreOK, ToldOK, gate, store
<1>5. job' \in Jobs /\ JobOK'
  BY <1>1 DEF Finish, JobOK
<1>6. QED
  BY <1>2, <1>3, <1>4, <1>5, TypePartsNext DEF TypeInv

LEMMA NextType == ASSUME TypeInv, [Next]_vars PROVE TypeInv'
<1>1. CASE UNCHANGED vars
  <2>1. JobOK'
    BY <1>1 DEF vars, TypeInv, JobOK
  <2>2. TypeOK'
    BY <1>1 DEF vars, sockets, gate, queue, store, TypeInv, TypeOK
  <2>3. QED
    BY <2>1, <2>2 DEF TypeInv
<1>2. ASSUME NEW c \in Conns, Ask(c) \/ Receive(c) \/ Leave(c) PROVE TypeInv'
  BY <1>2, PeerType
<1>3. ASSUME NEW c \in Conns, Accept(c) PROVE TypeInv'
  BY <1>3, AcceptType
<1>4. ASSUME NEW c \in Conns, HangUp(c) \/ WrongVersion(c) PROVE TypeInv'
  BY <1>4, HangUpType
<1>5. ASSUME NEW c \in Conns, Flush(c) PROVE TypeInv'
  BY <1>5, FlushType
<1>6. ASSUME NEW c \in Conns, Request(c) PROVE TypeInv'
  BY <1>6, RequestType
<1>7. CASE Reply
  BY <1>7, ReplyType
<1>8. CASE Stop
  BY <1>8 DEF Stop, TypeInv, TypeOK, JobOK, sockets, gate, queue, store
<1>9. CASE Finish
  BY <1>9, FinishType
<1>10. QED
  BY <1>1, <1>2, <1>3, <1>4, <1>5, <1>6, <1>7, <1>8, <1>9 DEF Next

LEMMA TypeStays == Spec => []TypeInv
<1>1. TypeInv /\ [Next]_vars => TypeInv'
  BY NextType
<1>2. QED
  BY <1>1, TypeInitially, PTL DEF Spec

\* The state of the worker keeps its shape: no queue grows beyond RTDBD_OUTQ_CAP,
\* and outq_sent stays below the length of a frame.
THEOREM TypeCorrect == Spec => []TypeOK
<1>1. TypeInv => TypeOK
  BY DEF TypeInv
<1>2. QED
  BY <1>1, TypeStays, PTL

=============================================================================
