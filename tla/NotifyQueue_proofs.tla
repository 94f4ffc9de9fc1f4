------------------------- MODULE NotifyQueue_proofs -------------------------
(***************************************************************************)
(* Proofs about what the worker does to the queue of one connection: every *)
(* action leaves it alone, throws it away, pushes a notification or sends  *)
(* units of it.  The invariants follow from these four.                    *)
(***************************************************************************)
EXTENDS NotifyDaemon_proofs

Kept(d) ==
  /\ outq'[d] = outq[d] /\ sent'[d] = sent[d] /\ stream'[d] = stream[d]
  /\ passed'[d] = passed[d] /\ delivered'[d] = delivered[d] /\ dropped'[d] = dropped[d]
Thrown(d) ==
  /\ outq'[d] = <<>> /\ sent'[d] = 0 /\ stream'[d] = NoFrame
  /\ passed'[d] = passed[d] /\ delivered'[d] = delivered[d]
  /\ dropped'[d] = dropped[d] + Len(outq[d])
Queued(d) ==
  /\ peer[d] # "none" /\ job.after = "announce" /\ job' = NoJob
  /\ outq'[d] = Push(outq[d], sent[d], writes)
  /\ sent'[d] = sent[d] /\ stream'[d] = stream[d] /\ delivered'[d] = delivered[d]
  /\ passed'[d] = passed[d] + 1 /\ dropped'[d] = dropped[d] + Loses(outq[d])
SentOn(d) ==
  \E whole \in 0 .. Len(outq[d]), rest \in 0 .. FrameLen - 1 :
    /\ rest # 0 => whole < Len(outq[d])
    /\ outq'[d] = SubSeq(outq[d], whole + 1, Len(outq[d])) /\ sent'[d] = rest
    /\ stream'[d] = IF rest = 0 THEN NoFrame
                    ELSE [at |-> IF whole = 0 /\ sent[d] > 0 THEN stream[d].at
                                 ELSE outq[d][whole + 1],
                          done |-> rest]
    /\ delivered'[d] = delivered[d] + whole
    /\ passed'[d] = passed[d] /\ dropped'[d] = dropped[d]
QueueStep(d) == Kept(d) \/ Thrown(d) \/ Queued(d) \/ SentOn(d)

(* Writes are numbered when stored and announced by the reply. *)
Numbered ==
  \/ writes' = writes /\ (job' = job \/ job'.after # "announce")
  \/ writes' = writes + 1 /\ (\A d \in Conns : Kept(d))

-----------------------------------------------------------------------------
(* What each action does to the queues. *)

LEMMA CloseQueue ==
  ASSUME TypeOK, NEW c \in Conns, Close(c)
  PROVE  \A d \in Conns : Kept(d) \/ Thrown(d)
  BY DEF Close, ConnInit, Discarded, TypeOK, Kept, Thrown

LEMMA AcceptQueue ==
  ASSUME TypeOK, NEW c \in Conns, outq[c] = <<>>, Accept(c)
  PROVE  \A d \in Conns : Kept(d) \/ Thrown(d)
<1>1. dropped[c] \in Nat /\ Len(outq[c]) = 0
  BY DEF TypeOK
<1>2. Thrown(c)
  BY <1>1 DEF Accept, ConnInit, TypeOK, Thrown
<1>3. \A d \in Conns \ {c} : Kept(d)
  BY DEF Accept, ConnInit, TypeOK, Kept
<1>4. QED
  BY <1>2, <1>3

LEMMA FlushedQueue ==
  ASSUME TypeOK, NEW c \in Conns, NEW k \in 1 .. room[c],
         sent[c] + k <= FrameLen * Len(outq[c]), Flushed(c, k)
  PROVE  \A d \in Conns : Kept(d) \/ SentOn(d)
<1> DEFINE whole == (sent[c] + k) \div FrameLen
           rest == (sent[c] + k) % FrameLen
<1>1. whole \in 0 .. Len(outq[c]) /\ rest \in 0 .. FrameLen - 1
      /\ (rest # 0 => whole < Len(outq[c]))
  <2>1. FrameLen \in Nat \ {0} /\ Len(outq[c]) \in Nat /\ sent[c] + k \in Nat
    BY Numbers, LenProperties DEF TypeOK
  <2>2. QED
    BY <2>1, Division, Zenon
<1>2. /\ outq' = [outq EXCEPT ![c] = SubSeq(outq[c], whole + 1, Len(outq[c]))]
      /\ sent' = [sent EXCEPT ![c] = rest]
      /\ delivered' = [delivered EXCEPT ![c] = delivered[c] + whole]
      /\ stream' = [stream EXCEPT ![c] =
           IF rest = 0 THEN NoFrame
           ELSE [at |-> IF whole = 0 /\ sent[c] > 0 THEN stream[c].at ELSE outq[c][whole + 1],
                 done |-> rest]]
      /\ UNCHANGED <<passed, dropped>>
  BY DEF Flushed, TypeOK
<1> HIDE DEF whole, rest
<1>3. \A d \in Conns \ {c} : Kept(d)
  BY <1>2 DEF TypeOK, Kept
<1>4. SentOn(c)
  <2>1. /\ outq'[c] = SubSeq(outq[c], whole + 1, Len(outq[c])) /\ sent'[c] = rest
        /\ delivered'[c] = delivered[c] + whole
        /\ stream'[c] = IF rest = 0 THEN NoFrame
             ELSE [at |-> IF whole = 0 /\ sent[c] > 0 THEN stream[c].at
                          ELSE outq[c][whole + 1],
                   done |-> rest]
        /\ passed'[c] = passed[c] /\ dropped'[c] = dropped[c]
    BY <1>2 DEF TypeOK
  <2>2. QED
    BY <1>1, <2>1, Zenon DEF SentOn
<1>5. QED
  BY <1>3, <1>4

LEMMA FlushQueue ==
  ASSUME TypeOK, NEW c \in Conns, Flush(c)
  PROVE  \A d \in Conns : Kept(d) \/ Thrown(d) \/ SentOn(d)
<1>1. CASE Close(c)
  BY <1>1, CloseQueue
<1>2. CASE \E k \in 1 .. room[c] : sent[c] + k <= FrameLen * Len(outq[c]) /\ Flushed(c, k)
  BY <1>2, FlushedQueue
<1>3. CASE /\ dropped' = [dropped EXCEPT ![c] = @ + Discarded(c)]
           /\ outq' = [outq EXCEPT ![c] = <<>>] /\ sent' = [sent EXCEPT ![c] = 0]
           /\ stream' = [stream EXCEPT ![c] = NoFrame]
           /\ UNCHANGED <<passed, delivered>>
  BY <1>3 DEF Discarded, TypeOK, Kept, Thrown
<1>4. QED
  BY <1>1, <1>2, <1>3, Zenon DEF Flush

LEMMA BroadcastQueue ==
  ASSUME TypeOK, NEW p \in Points, Broadcast(p), job.after = "announce", job' = NoJob
  PROVE  \A d \in Conns : Kept(d) \/ Queued(d)
<1> SUFFICES ASSUME NEW d \in Conns PROVE Kept(d) \/ Queued(d)
  OBVIOUS
<1>1. CASE Passes(d, p)
  BY <1>1 DEF Broadcast, Passes, Hears, Queued
<1>2. CASE ~Passes(d, p)
  BY <1>2 DEF Broadcast, Kept
<1>3. QED
  BY <1>1, <1>2

LEMMA ReplyQueue == ASSUME TypeInv, Reply PROVE \A d \in Conns : QueueStep(d)
<1>1. /\ job.conn \in Conns /\ (job.after = "announce" => job.point \in Points)
      /\ job' = NoJob /\ TypeOK
  BY DEF Reply, TypeInv, JobOK
<1>2. CASE UNCHANGED queue
  BY <1>2 DEF queue, QueueStep, Kept
<1>3. CASE job.after = "announce" /\ Broadcast(job.point)
  BY <1>1, <1>3, BroadcastQueue DEF QueueStep
<1>4. CASE Close(job.conn)
  BY <1>1, <1>4, CloseQueue DEF QueueStep
<1>5. QED
  BY <1>2, <1>3, <1>4 DEF Reply

(* A free slot has an empty queue, so a connection taken by Accept loses     *)
(* nothing.                                                                  *)
FreeEmpty == \A d \in Conns : peer[d] = "none" => outq[d] = <<>>

LEMMA StepOfQueue ==
  ASSUME TypeInv, FreeEmpty, [Next]_vars
  PROVE  \A d \in Conns : QueueStep(d)
<1>0. TypeOK
  BY DEF TypeInv
<1>1. ASSUME UNCHANGED queue PROVE \A d \in Conns : QueueStep(d)
  BY <1>1 DEF queue, QueueStep, Kept
<1>2. ASSUME NEW c \in Conns, Ask(c) \/ Receive(c) \/ Leave(c) PROVE UNCHANGED queue
  BY <1>2 DEF Ask, Receive, Leave
<1>3. ASSUME NEW c \in Conns, Accept(c) PROVE \A d \in Conns : QueueStep(d)
  <2>1. outq[c] = <<>>
    BY <1>3 DEF Accept, FreeEmpty
  <2>2. QED
    BY <1>0, <1>3, <2>1, AcceptQueue DEF QueueStep
<1>4. ASSUME NEW c \in Conns, HangUp(c) \/ WrongVersion(c)
      PROVE  \A d \in Conns : QueueStep(d)
  BY <1>0, <1>4, CloseQueue DEF HangUp, WrongVersion, QueueStep
<1>5. ASSUME NEW c \in Conns, Flush(c) PROVE \A d \in Conns : QueueStep(d)
  BY <1>0, <1>5, FlushQueue DEF QueueStep
<1>6. ASSUME NEW c \in Conns, Request(c) PROVE UNCHANGED queue
  BY <1>6 DEF Request, Query, BadRequest, WriteRefused, Select, Subscribe, Unsubscribe, Write,
              Handle
<1>7. CASE Reply
  BY <1>7, ReplyQueue
<1>8. CASE Stop
  BY <1>1, <1>8 DEF Stop
<1>9. CASE Finish
  BY <1>9 DEF Finish, QueueStep, Thrown, Discarded
<1>10. CASE UNCHANGED vars
  BY <1>1, <1>10 DEF vars
<1>11. QED
  BY <1>1, <1>2, <1>3, <1>4, <1>5, <1>6, <1>7, <1>8, <1>9, <1>10 DEF Next

LEMMA EmptyStays == ASSUME TypeInv, FreeEmpty, [Next]_vars PROVE FreeEmpty'
<1> SUFFICES ASSUME NEW d \in Conns, peer'[d] = "none" PROVE outq'[d] = <<>>
  BY DEF FreeEmpty
<1>1. QueueStep(d)
  BY StepOfQueue
<1>2. CASE peer[d] = "none" /\ (Kept(d) \/ Thrown(d))
  BY <1>2 DEF FreeEmpty, Kept, Thrown
<1>3. CASE peer[d] = "none" /\ SentOn(d)
  BY <1>3 DEF FreeEmpty, SentOn
<1>4. CASE peer[d] # "none"
  <2>1. ASSUME NEW c \in Conns, Close(c) PROVE outq'[d] = <<>>
    BY <1>4, <2>1 DEF Close, ConnInit, TypeInv, TypeOK
  <2>2. CASE Finish
    BY <2>2 DEF Finish
  <2>3. CASE UNCHANGED peer
    BY <1>4, <2>3
  <2>4. ASSUME NEW c \in Conns, Ask(c) \/ Receive(c) \/ Leave(c) \/ Accept(c)
        PROVE  outq'[d] = <<>>
    BY <1>4, <2>4 DEF Ask, Receive, Leave, Accept, TypeInv, TypeOK
  <2>5. ASSUME NEW c \in Conns, HangUp(c) \/ WrongVersion(c) PROVE outq'[d] = <<>>
    BY <2>1, <2>5 DEF HangUp, WrongVersion
  <2>6. ASSUME NEW c \in Conns, Flush(c) PROVE outq'[d] = <<>>
    BY <2>1, <2>3, <2>6 DEF Flush, sockets
  <2>7. ASSUME NEW c \in Conns, Request(c) PROVE UNCHANGED peer
    BY <2>7 DEF Request, Query, BadRequest, WriteRefused, Select, Subscribe, Unsubscribe,
                Write, Handle
  <2>8. CASE Reply
    <3>1. job.conn \in Conns
      BY <2>8 DEF Reply, TypeInv, JobOK
    <3>2. CASE Close(job.conn)
      BY <2>1, <3>1, <3>2
    <3>3. QED
      BY <2>3, <2>8, <3>2 DEF Reply
  <2>9. CASE Stop \/ UNCHANGED vars
    BY <2>3, <2>9 DEF Stop, vars, sockets
  <2>10. QED
    BY <2>2, <2>3, <2>4, <2>5, <2>6, <2>7, <2>8, <2>9 DEF Next
<1>5. QED
  BY <1>1, <1>2, <1>3, <1>4 DEF QueueStep, Queued

-----------------------------------------------------------------------------
(* What the four steps preserve. *)

Whole(d) ==
  \/ sent[d] = 0 /\ stream[d] = NoFrame
  \/ sent[d] > 0 /\ outq[d] # <<>> /\ stream[d] = [at |-> Head(outq[d]), done |-> sent[d]]
Accounted(d) == passed[d] = delivered[d] + Len(outq[d]) + dropped[d]

LEMMA QueueFacts ==
  ASSUME TypeOK, NEW d \in Conns
  PROVE  /\ outq[d] \in Seq(Nat) /\ Len(outq[d]) \in Nat /\ Len(outq[d]) <= Cap
         /\ sent[d] \in Nat /\ writes \in Nat /\ FrameLen \in Nat
         /\ passed[d] \in Nat /\ delivered[d] \in Nat /\ dropped[d] \in Nat
         /\ \A i \in 1 .. Len(outq[d]) : outq[d][i] \in Nat
<1>1. QueuesOK /\ CountsOK /\ StoreOK
  BY TypeParts
<1>2. outq[d] \in Seq(Nat) /\ Len(outq[d]) <= Cap /\ sent[d] \in 0 .. FrameLen - 1
  BY <1>1 DEF QueuesOK
<1>3. FrameLen \in Nat /\ sent[d] \in Nat
  BY <1>2, Numbers
<1>4. writes \in Nat /\ passed[d] \in Nat /\ delivered[d] \in Nat /\ dropped[d] \in Nat
  BY <1>1 DEF CountsOK, StoreOK
<1>5. Len(outq[d]) \in Nat /\ \A i \in 1 .. Len(outq[d]) : outq[d][i] \in Nat
  BY <1>2, LenProperties, ElementOfSeq
<1>6. QED
  BY <1>2, <1>3, <1>4, <1>5

(* The rest of a queue behind its first frames. *)
LEMMA Remaining ==
  ASSUME NEW q \in Seq(Nat), NEW w \in 0 .. Len(q)
  PROVE  /\ SubSeq(q, w + 1, Len(q)) \in Seq(Nat)
         /\ Len(SubSeq(q, w + 1, Len(q))) = Len(q) - w
         /\ \A i \in 1 .. Len(q) - w : SubSeq(q, w + 1, Len(q))[i] = q[w + i]
         /\ w < Len(q) => /\ SubSeq(q, w + 1, Len(q)) # <<>>
                          /\ Head(SubSeq(q, w + 1, Len(q))) = q[w + 1]
<1>1. Len(q) \in Nat /\ \A i \in 1 .. Len(q) : q[i] \in Nat
  BY LenProperties, ElementOfSeq
<1>2. /\ SubSeq(q, w + 1, Len(q)) \in Seq(Nat)
      /\ Len(SubSeq(q, w + 1, Len(q))) = Len(q) - w
  BY <1>1, SubSeqProperties
<1>3. \A i \in 1 .. Len(q) - w : SubSeq(q, w + 1, Len(q))[i] = q[w + i]
  BY <1>1, SubSeqProperties
<1>4. ASSUME w < Len(q)
      PROVE  /\ SubSeq(q, w + 1, Len(q)) # <<>>
             /\ Head(SubSeq(q, w + 1, Len(q))) = q[w + 1]
  <2> DEFINE r == SubSeq(q, w + 1, Len(q))
  <2>1. r \in Seq(Nat) /\ Len(r) > 0 /\ r[1] = q[w + 1]
    BY <1>1, <1>2, <1>3, <1>4
  <2> HIDE DEF r
  <2>2. r # <<>> /\ Head(r) = r[1]
    BY <2>1, HeadTailProperties
  <2>3. QED
    BY <2>1, <2>2 DEF r
<1>5. QED
  BY <1>2, <1>3, <1>4

LEMMA WholeStays == ASSUME TypeOK, NEW d \in Conns, Whole(d), QueueStep(d) PROVE Whole(d)'
<1>1. CASE Kept(d)
  BY <1>1 DEF Whole, Kept
<1>2. CASE Thrown(d)
  BY <1>2 DEF Whole, Thrown
<1>3. CASE Queued(d)
  <2>1. sent[d] > 0 /\ outq[d] # <<>> =>
          outq'[d] # <<>> /\ Head(outq'[d]) = Head(outq[d])
    <3>1. outq'[d] = Push(outq[d], sent[d], writes)
      BY <1>3 DEF Queued
    <3>2. outq[d] \in Seq(Nat) /\ Len(outq[d]) <= Cap /\ sent[d] \in Nat /\ writes \in Nat
      BY QueueFacts
    <3>3. QED
      BY <3>1, <3>2, PushFacts
  <2>2. QED
    BY <1>3, <2>1 DEF Whole, Queued
<1>4. CASE SentOn(d)
  <2>1. PICK w \in 0 .. Len(outq[d]), rest \in 0 .. FrameLen - 1 :
          /\ rest # 0 => w < Len(outq[d])
          /\ outq'[d] = SubSeq(outq[d], w + 1, Len(outq[d])) /\ sent'[d] = rest
          /\ stream'[d] = IF rest = 0 THEN NoFrame
                          ELSE [at |-> IF w = 0 /\ sent[d] > 0 THEN stream[d].at
                                       ELSE outq[d][w + 1],
                                done |-> rest]
    BY <1>4 DEF SentOn
  <2>2. CASE rest = 0
    BY <2>1, <2>2 DEF Whole
  <2>3. CASE rest # 0
    <3>1. outq'[d] # <<>> /\ Head(outq'[d]) = outq[d][w + 1]
      <4>1. outq[d] \in Seq(Nat) /\ w < Len(outq[d])
        BY <2>1, <2>3, QueueFacts
      <4>2. QED
        BY <2>1, <4>1, Remaining
    <3>2. w = 0 /\ sent[d] > 0 => stream[d].at = outq[d][w + 1]
      <4>1. sent[d] > 0 => outq[d] # <<>> /\ stream[d].at = Head(outq[d])
        <5>1. sent[d] \in Nat
          BY QueueFacts
        <5>2. QED
          BY <5>1 DEF Whole
      <4>2. outq[d] \in Seq(Nat)
        BY QueueFacts
      <4>3. outq[d] # <<>> => Head(outq[d]) = outq[d][1]
        BY <4>2, HeadTailProperties
      <4>4. QED
        BY <4>1, <4>3
    <3>3. rest > 0
      BY <2>3, QueueFacts
    <3>4. QED
      BY <2>1, <2>3, <3>1, <3>2, <3>3 DEF Whole
  <2>4. QED
    BY <2>2, <2>3
<1>5. QED
  BY <1>1, <1>2, <1>3, <1>4 DEF QueueStep

LEMMA AccountedStays ==
  ASSUME TypeOK, NEW d \in Conns, Accounted(d), QueueStep(d)
  PROVE  Accounted(d)'
<1>1. CASE Kept(d)
  BY <1>1 DEF Accounted, Kept
<1>2. CASE Thrown(d)
  BY <1>2, QueueFacts DEF Accounted, Thrown
<1>3. CASE Queued(d)
  <2> DEFINE thrown == Loses(outq[d])
             after == Len(outq'[d])
  <2>1. Len(outq[d]) + 1 = after + thrown /\ thrown \in Nat /\ after \in Nat
    BY <1>3, QueueFacts, PushFacts, LenProperties DEF Queued
  <2>2. /\ passed'[d] = passed[d] + 1 /\ delivered'[d] = delivered[d]
        /\ dropped'[d] = dropped[d] + thrown
    BY <1>3 DEF Queued
  <2> HIDE DEF thrown, after
  <2>3. passed[d] = delivered[d] + Len(outq[d]) + dropped[d]
    BY DEF Accounted
  <2>4. \A n, l, g \in Nat : n + 1 = after + thrown => (g + n + l) + 1 = g + after + (l + thrown)
    BY <2>1
  <2>5. (delivered[d] + Len(outq[d]) + dropped[d]) + 1 = delivered[d] + after + (dropped[d] + thrown)
    <3>1. delivered[d] \in Nat /\ Len(outq[d]) \in Nat /\ dropped[d] \in Nat
      BY QueueFacts
    <3>2. QED
      BY <2>1, <2>4, <3>1, Zenon
  <2>6. QED
    BY <2>2, <2>3, <2>5, Zenon DEF Accounted, after
<1>4. CASE SentOn(d)
  <2>1. PICK w \in 0 .. Len(outq[d]) :
          /\ outq'[d] = SubSeq(outq[d], w + 1, Len(outq[d]))
          /\ delivered'[d] = delivered[d] + w
          /\ passed'[d] = passed[d] /\ dropped'[d] = dropped[d]
    BY <1>4 DEF SentOn
  <2>2. Len(outq'[d]) = Len(outq[d]) - w
    BY <2>1, QueueFacts, Remaining
  <2>3. QED
    BY <2>1, <2>2, QueueFacts DEF Accounted
<1>5. QED
  BY <1>1, <1>2, <1>3, <1>4 DEF QueueStep

-----------------------------------------------------------------------------
QueueInv == TypeInv /\ FreeEmpty /\ FramesWhole /\ NothingLostSilently

LEMMA QueueInitially == Init => QueueInv
<1> SUFFICES ASSUME Init PROVE QueueInv
  OBVIOUS
<1>1. FreeEmpty /\ FramesWhole /\ NothingLostSilently
  BY DEF Init, FreeEmpty, FramesWhole, NothingLostSilently
<1>2. QED
  BY <1>1, TypeInitially DEF QueueInv

LEMMA QueueStays == Spec => []QueueInv
<1>1. QueueInv /\ [Next]_vars => QueueInv'
  <2> SUFFICES ASSUME QueueInv, [Next]_vars PROVE QueueInv'
    OBVIOUS
  <2>1. \A d \in Conns : QueueStep(d)
    BY StepOfQueue DEF QueueInv
  <2>2. \A d \in Conns : Whole(d)'
    BY <2>1, WholeStays DEF QueueInv, FramesWhole, TypeInv, Whole
  <2>3. \A d \in Conns : Accounted(d)'
    BY <2>1, AccountedStays DEF QueueInv, NothingLostSilently, TypeInv, Accounted
  <2>4. FramesWhole' /\ NothingLostSilently'
    BY <2>2, <2>3 DEF FramesWhole, NothingLostSilently, Whole, Accounted
  <2>5. QED
    BY <2>4, NextType, EmptyStays DEF QueueInv
<1>2. QED
  BY <1>1, QueueInitially, PTL DEF Spec

\* outq_push leaves the frame that outq_flush has begun at the head, whatever the
\* sizes: the pieces on a stream always belong to one notification.
THEOREM FramesStayWhole == Spec => []FramesWhole
<1>1. QueueInv => FramesWhole
  BY DEF QueueInv
<1>2. QED
  BY <1>1, QueueStays, PTL

\* Each notification that passed the gate is sent whole, waits or is counted in
\* notify_drop: the counter of conn_discard_outq and outq_push misses none.
THEOREM NothingIsLost == Spec => []NothingLostSilently
<1>1. QueueInv => NothingLostSilently
  BY DEF QueueInv
<1>2. QED
  BY <1>1, QueueStays, PTL

-----------------------------------------------------------------------------
(* Order.  The write a running handler will announce is newer than all that  *)
(* is queued.                                                                *)

InOrder(d) ==
  /\ \A i, j \in DOMAIN outq[d] : i < j => outq[d][i] < outq[d][j]
  /\ \A i \in DOMAIN outq[d] : outq[d][i] <= writes
Newer(d) == job.after = "announce" => \A i \in DOMAIN outq[d] : outq[d][i] < writes
OrderInv == \A d \in Conns : InOrder(d) /\ Newer(d)

LEMMA StepOfWrites == ASSUME TypeInv, [Next]_vars PROVE Numbered
<1>1. ASSUME writes' = writes, job' = job \/ job'.after # "announce" PROVE Numbered
  BY <1>1 DEF Numbered
<1>2. ASSUME NEW c \in Conns,
             Ask(c) \/ Receive(c) \/ Leave(c) \/ Accept(c) \/ HangUp(c) \/ WrongVersion(c)
      PROVE  Numbered
  BY <1>1, <1>2 DEF Ask, Receive, Leave, Accept, HangUp, WrongVersion, store
<1>3. ASSUME NEW c \in Conns, Flush(c) PROVE Numbered
  BY <1>1, <1>3 DEF Flush, store
<1>4. ASSUME NEW c \in Conns, NEW p \in Points, NEW v \in Values, Write(c, p, v)
      PROVE  Numbered
  BY <1>4 DEF Write, Handle, queue, Numbered, Kept
<1>5. ASSUME NEW c \in Conns, NEW after \in {"keep", "close"}, Handle(c, after, 0), UNCHANGED store
      PROVE  Numbered
  BY <1>1, <1>5 DEF Handle, store
<1>6. ASSUME NEW c \in Conns, Request(c) PROVE Numbered
  <2>1. CASE Query(c) \/ BadRequest(c) \/ WriteRefused(c) \/ \E q \in Partitions : Select(c, q)
    BY <1>5, <2>1 DEF Query, BadRequest, WriteRefused, Select
  <2>2. CASE \E p \in Points : Subscribe(c, p) \/ Unsubscribe(c, p)
    BY <1>5, <2>2 DEF Subscribe, Unsubscribe
  <2>3. QED
    BY <1>4, <1>6, <2>1, <2>2 DEF Request
<1>7. CASE Reply
  BY <1>1, <1>7 DEF Reply, NoJob
<1>8. CASE Stop \/ Finish \/ UNCHANGED vars
  BY <1>1, <1>8 DEF Stop, Finish, vars, store
<1>9. QED
  BY <1>2, <1>3, <1>6, <1>7, <1>8 DEF Next

(* Pushing a newer number keeps the order. *)
LEMMA PushInOrder ==
  ASSUME NEW q \in Seq(Nat), NEW started \in Nat, NEW n \in Nat,
         \A i, j \in DOMAIN q : i < j => q[i] < q[j],
         \A i \in DOMAIN q : q[i] < n
  PROVE  /\ \A i, j \in DOMAIN Push(q, started, n) :
              i < j => Push(q, started, n)[i] < Push(q, started, n)[j]
         /\ \A i \in DOMAIN Push(q, started, n) : Push(q, started, n)[i] <= n
<1>0. Len(q) \in Nat /\ DOMAIN q = 1 .. Len(q) /\ \A i \in 1 .. Len(q) : q[i] \in Nat
  BY LenProperties, ElementOfSeq
<1>1. CASE Refuses(q, started)
  <2>1. Push(q, started, n) = q
    BY <1>1 DEF Push
  <2>2. QED
    BY <1>0, <2>1
<1>2. ASSUME NEW r \in Seq(Nat), Push(q, started, n) = Append(r, n),
             \A i, j \in 1 .. Len(r) : i < j => r[i] < r[j], \A i \in 1 .. Len(r) : r[i] < n
      PROVE  /\ \A i, j \in DOMAIN Push(q, started, n) :
                  i < j => Push(q, started, n)[i] < Push(q, started, n)[j]
             /\ \A i \in DOMAIN Push(q, started, n) : Push(q, started, n)[i] <= n
  <2>1. Len(r) \in Nat /\ \A i \in 1 .. Len(r) : r[i] \in Nat
    BY LenProperties, ElementOfSeq
  <2>2. /\ DOMAIN Append(r, n) = 1 .. Len(r) + 1
        /\ \A i \in 1 .. Len(r) : Append(r, n)[i] = r[i]
        /\ Append(r, n)[Len(r) + 1] = n
    BY <2>1, AppendProperties, LenProperties
  <2>3. QED
    BY <1>2, <2>1, <2>2
<1>3. CASE ~Refuses(q, started) /\ Full(q)
  <2>1. Len(q) > 0
    BY <1>0, <1>3, NotifyBounds DEF Full
  <2>2. /\ Tail(q) \in Seq(Nat) /\ Len(Tail(q)) = Len(q) - 1
        /\ \A i \in 1 .. Len(Tail(q)) : Tail(q)[i] = q[i + 1]
    BY <2>1, <1>0, HeadTailProperties
  <2>3. Push(q, started, n) = Append(Tail(q), n)
    BY <1>3 DEF Push
  <2>4. /\ \A i, j \in 1 .. Len(Tail(q)) : i < j => Tail(q)[i] < Tail(q)[j]
        /\ \A i \in 1 .. Len(Tail(q)) : Tail(q)[i] < n
    <3>1. \A i, j \in 1 .. Len(q) - 1 :
             /\ i + 1 \in DOMAIN q /\ j + 1 \in DOMAIN q /\ (i < j => i + 1 < j + 1)
      BY <1>0
    <3>2. QED
      BY <2>2, <3>1
  <2>5. QED
    BY <1>2, <2>2, <2>3, <2>4
<1>4. CASE ~Refuses(q, started) /\ ~Full(q)
  <2>1. Push(q, started, n) = Append(q, n)
    BY <1>4 DEF Push
  <2>2. QED
    BY <1>0, <1>2, <2>1
<1>5. QED
  BY <1>1, <1>3, <1>4

LEMMA InOrderStays ==
  ASSUME TypeOK, NEW d \in Conns, InOrder(d), Newer(d), QueueStep(d), writes' = writes
  PROVE  InOrder(d)'
<1>0. DOMAIN outq[d] = 1 .. Len(outq[d])
  BY QueueFacts, LenProperties
<1>1. CASE Kept(d)
  BY <1>1 DEF InOrder, Kept
<1>2. CASE Thrown(d)
  BY <1>2 DEF InOrder, Thrown
<1>3. CASE Queued(d)
  <2>1. \A i \in DOMAIN outq[d] : outq[d][i] < writes
    BY <1>3 DEF Queued, Newer
  <2>2. outq'[d] = Push(outq[d], sent[d], writes)
    BY <1>3 DEF Queued
  <2>3. QED
    BY <2>1, <2>2, QueueFacts, PushInOrder DEF InOrder
<1>4. CASE SentOn(d)
  <2>1. PICK w \in 0 .. Len(outq[d]) : outq'[d] = SubSeq(outq[d], w + 1, Len(outq[d]))
    BY <1>4 DEF SentOn
  <2>2. /\ outq'[d] \in Seq(Nat) /\ Len(outq'[d]) = Len(outq[d]) - w
        /\ \A i \in 1 .. Len(outq[d]) - w : outq'[d][i] = outq[d][w + i]
    <3>1. outq[d] \in Seq(Nat)
      BY QueueFacts
    <3>2. QED
      BY <2>1, <3>1, Remaining
  <2>3. DOMAIN outq'[d] = 1 .. Len(outq[d]) - w
    BY <2>2, LenProperties
  <2>4. \A i, j \in 1 .. Len(outq[d]) - w :
           /\ w + i \in 1 .. Len(outq[d]) /\ w + j \in 1 .. Len(outq[d])
           /\ (i < j => w + i < w + j)
    BY QueueFacts
  <2>5. QED
    BY <1>0, <2>2, <2>3, <2>4 DEF InOrder
<1>5. QED
  BY <1>1, <1>2, <1>3, <1>4 DEF QueueStep

LEMMA OrderStays ==
  ASSUME TypeInv, FreeEmpty, OrderInv, [Next]_vars
  PROVE  OrderInv'
<1> SUFFICES ASSUME NEW d \in Conns PROVE InOrder(d)' /\ Newer(d)'
  BY DEF OrderInv
<1>1. TypeOK /\ QueueStep(d) /\ Numbered /\ InOrder(d) /\ Newer(d)
  BY StepOfQueue, StepOfWrites DEF TypeInv, OrderInv
<1>2. CASE writes' = writes + 1 /\ Kept(d)
  <2>1. /\ outq'[d] = outq[d] /\ writes \in Nat /\ DOMAIN outq[d] = 1 .. Len(outq[d])
        /\ \A i \in 1 .. Len(outq[d]) : outq[d][i] \in Nat
    BY <1>1, <1>2, QueueFacts, LenProperties DEF Kept
  <2>2. QED
    BY <1>1, <1>2, <2>1 DEF InOrder, Newer
<1>3. CASE writes' = writes /\ (job' = job \/ job'.after # "announce")
  <2>1. InOrder(d)'
    BY <1>1, <1>3, InOrderStays
  <2>2. ASSUME job'.after = "announce" PROVE \A i \in DOMAIN outq'[d] : outq'[d][i] < writes'
    <3>1. job' = job /\ ~Queued(d)
      BY <1>3, <2>2 DEF Queued, NoJob
    <3>2. \A i \in DOMAIN outq[d] : outq[d][i] < writes
      BY <1>1, <2>2, <3>1 DEF Newer
    <3>3. CASE Kept(d)
      BY <1>3, <3>2, <3>3 DEF Kept
    <3>4. CASE Thrown(d)
      BY <3>4 DEF Thrown
    <3>5. CASE SentOn(d)
      <4>1. PICK w \in 0 .. Len(outq[d]) : outq'[d] = SubSeq(outq[d], w + 1, Len(outq[d]))
        BY <3>5 DEF SentOn
      <4>2. /\ DOMAIN outq'[d] = 1 .. Len(outq[d]) - w
            /\ \A i \in 1 .. Len(outq[d]) - w : outq'[d][i] = outq[d][w + i]
        <5>1. outq[d] \in Seq(Nat)
          BY <1>1, QueueFacts
        <5>2. /\ outq'[d] \in Seq(Nat) /\ Len(outq'[d]) = Len(outq[d]) - w
              /\ \A i \in 1 .. Len(outq[d]) - w : outq'[d][i] = outq[d][w + i]
          BY <4>1, <5>1, Remaining
        <5>3. QED
          BY <5>2, LenProperties
      <4>3. \A i \in 1 .. Len(outq[d]) - w : w + i \in DOMAIN outq[d]
        BY <1>1, QueueFacts, LenProperties
      <4>4. QED
        BY <1>3, <3>2, <4>2, <4>3
    <3>6. QED
      BY <1>1, <3>1, <3>3, <3>4, <3>5 DEF QueueStep
  <2>3. QED
    BY <2>1, <2>2 DEF Newer
<1>4. QED
  BY <1>1, <1>2, <1>3 DEF Numbered

\* A queue holds the writes it announces in the order they were stored, each once:
\* nothing is pushed between a write and its own announcement.
THEOREM QueuesStayInOrder == Spec => []QueuesInOrder
<1>1. Init => OrderInv
  BY DEF Init, OrderInv, InOrder, Newer, NoJob
<1>2. QueueInv /\ OrderInv /\ [Next]_vars => OrderInv'
  BY OrderStays DEF QueueInv
<1>3. OrderInv => QueuesInOrder
  BY DEF OrderInv, InOrder, QueuesInOrder
<1>4. QED
  BY <1>1, <1>2, <1>3, QueueStays, PTL DEF Spec

=============================================================================
