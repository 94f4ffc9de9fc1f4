-------------------------- MODULE NotifyGate_proofs -------------------------
(***************************************************************************)
(* Proofs about report by exception: the slots of a gate belong to the     *)
(* points announced since they were subscribed, and remember what was sent *)
(* last.  rbe.c marks a free slot by the id 0, so the facts that rest on   *)
(* finding a slot by its id hold if no point has that id.                  *)
(***************************************************************************)
EXTENDS NotifyQueue_proofs, WellFoundedInduction

LEMMA FirstIn ==
  ASSUME NEW S \in SUBSET Nat, S # {}
  PROVE  First(S) \in S
<1>1. PICK m \in S : \A k \in S : <<k, m>> \notin OpToRel(<, Nat)
  BY WFMin, NatLessThanWellFounded, Zenon
<1>2. \A k \in S : ~(k < m)
  BY <1>1, Zenon DEF OpToRel
<1>3. \A k \in S : m <= k
  BY <1>2
<1>4. QED
  BY <1>3 DEF First

(* The slots of s belong to different points, all of them in S. *)
GateOf(s, S) ==
  /\ \A i \in 1 .. SubMax : IF s[i].valid THEN s[i].id \in S ELSE s[i].id = 0
  /\ \A i, j \in 1 .. SubMax : s[i].valid /\ s[j].valid /\ s[i].id = s[j].id => i = j

LEMMA GateGrows ==
  ASSUME NEW s, NEW S, NEW T, S \subseteq T, GateOf(s, S)
  PROVE  GateOf(s, T)
  BY DEF GateOf

(* The slot of a point that has one. *)
LEMMA Hit ==
  ASSUME NEW s \in Slots, NEW p, {i \in DOMAIN s : s[i].id = p} # {}
  PROVE  LET i == First({j \in DOMAIN s : s[j].id = p})
         IN  i \in 1 .. SubMax /\ s[i].id = p
<1>1. DOMAIN s = 1 .. SubMax /\ SubMax \in Nat
  BY NotifyBounds DEF Slots
<1>2. {i \in DOMAIN s : s[i].id = p} \in SUBSET Nat
  BY <1>1
<1>3. First({i \in DOMAIN s : s[i].id = p}) \in {i \in DOMAIN s : s[i].id = p}
  BY <1>2, FirstIn
<1>4. QED
  BY <1>1, <1>3

LEMMA Index ==
  ASSUME NEW s \in Slots, NEW p, RbeIndex(s, p) # 0
  PROVE  LET i == RbeIndex(s, p) IN
         /\ i \in 1 .. SubMax
         /\ \/ s[i].id = p
            \/ /\ ~s[i].valid
               /\ \A j \in 1 .. SubMax : s[j].id # p
<1> DEFINE hits == {i \in DOMAIN s : s[i].id = p}
           free == {i \in DOMAIN s : s[i].id = 0 /\ ~s[i].valid}
<1>1. DOMAIN s = 1 .. SubMax /\ SubMax \in Nat
  BY NotifyBounds DEF Slots
<1>2. CASE hits # {}
  BY <1>2, Hit DEF RbeIndex
<1>3. CASE hits = {}
  <2>1. free # {} /\ RbeIndex(s, p) = First(free)
    BY <1>3 DEF RbeIndex
  <2>2. free \in SUBSET Nat
    BY <1>1
  <2>3. First(free) \in free
    BY <2>1, <2>2, FirstIn
  <2>4. QED
    BY <1>1, <1>3, <2>1, <2>3
<1>4. QED
  BY <1>2, <1>3

(* A point without a slot is always let through. *)
LEMMA NewPointSent ==
  ASSUME NEW s \in Slots, NEW S, GateOf(s, S), NEW p, p # 0, p \notin S, NEW v
  PROVE  RbeSends(s, p, v)
  BY Index DEF RbeSends, GateOf

(* rbe_clear frees the slot of its point. *)
LEMMA Cleared ==
  ASSUME NEW s \in Slots, NEW S, GateOf(s, S), NEW p, p # 0
  PROVE  /\ GateOf(RbeClear(s, p), S \ {p})
         /\ \A i \in 1 .. SubMax : RbeClear(s, p)[i].valid => RbeClear(s, p)[i] = s[i]
<1> DEFINE hits == {i \in DOMAIN s : s[i].id = p}
           h == First(hits)
<1>0. DOMAIN s = 1 .. SubMax
  BY DEF Slots
<1>1. CASE hits = {}
  BY <1>0, <1>1 DEF RbeClear, GateOf
<1>2. CASE hits # {}
  <2>1. h \in 1 .. SubMax /\ s[h].id = p
    BY <1>2, Hit
  <2>2. RbeClear(s, p) = [s EXCEPT ![h] = [id |-> 0, valid |-> FALSE, last |-> s[h].last]]
    BY <1>2 DEF RbeClear
  <2> HIDE DEF h, hits
  <2>3. /\ RbeClear(s, p)[h] = [id |-> 0, valid |-> FALSE, last |-> s[h].last]
        /\ \A i \in 1 .. SubMax : i # h => RbeClear(s, p)[i] = s[i]
    BY <1>0, <2>1, <2>2
  <2>4. s[h].valid
    BY <2>1 DEF GateOf
  <2>5. \A i \in 1 .. SubMax : i # h /\ s[i].valid => s[i].id # p
    BY <2>1, <2>4 DEF GateOf
  <2>6. QED
    BY <2>1, <2>3, <2>5 DEF GateOf
<1>3. QED
  BY <1>1, <1>2

(* rbe_decide gives its point a slot, or has no room and changes nothing. *)
LEMMA Remembered ==
  ASSUME NEW s \in Slots, NEW S, GateOf(s, S), NEW p, p # 0, NEW v
  PROVE  /\ RbeSends(s, p, v) => GateOf(RbeAfter(s, p, v), S \cup {p})
         /\ ~RbeSends(s, p, v) => RbeAfter(s, p, v) = s
         /\ RbeSends(s, p, v) => \A i \in 1 .. SubMax : RbeAfter(s, p, v)[i].valid =>
              /\ RbeAfter(s, p, v)[i].id = p => RbeAfter(s, p, v)[i].last = v
              /\ RbeAfter(s, p, v)[i].id # p => RbeAfter(s, p, v)[i] = s[i]
<1> DEFINE h == RbeIndex(s, p)
           t == RbeAfter(s, p, v)
<1>0. DOMAIN s = 1 .. SubMax
  BY DEF Slots
<1>1. CASE h = 0 \/ ~RbeSends(s, p, v)
  <2>1. t = s
    BY <1>1 DEF RbeAfter
  <2>2. GateOf(t, S \cup {p})
    BY <2>1, GateGrows
  <2>3. h = 0 => \A i \in 1 .. SubMax : s[i].id # p
    <3>1. SUFFICES ASSUME {i \in DOMAIN s : s[i].id = p} # {} PROVE h # 0
      BY <1>0
    <3>2. First({i \in DOMAIN s : s[i].id = p}) \in 1 .. SubMax
      BY <3>1, Hit
    <3>3. QED
      BY <3>1, <3>2, NotifyBounds DEF RbeIndex
  <2>4. QED
    BY <1>1, <2>1, <2>2, <2>3
<1>2. CASE h # 0 /\ RbeSends(s, p, v)
  <2>1. h \in 1 .. SubMax
        /\ (s[h].id = p \/ (~s[h].valid /\ \A j \in 1 .. SubMax : s[j].id # p))
    BY <1>2, Index
  <2>2. t = [s EXCEPT ![h] = [id |-> p, valid |-> TRUE, last |-> v]]
    BY <1>2 DEF RbeAfter
  <2> HIDE DEF h, t
  <2>3. /\ t[h] = [id |-> p, valid |-> TRUE, last |-> v]
        /\ \A i \in 1 .. SubMax : i # h => t[i] = s[i]
    BY <1>0, <2>1, <2>2
  <2>4. \A i \in 1 .. SubMax : i # h /\ s[i].valid => s[i].id # p
    BY <2>1 DEF GateOf
  <2>5. GateOf(t, S \cup {p})
    BY <2>1, <2>3, <2>4 DEF GateOf
  <2>6. \A i \in 1 .. SubMax : t[i].valid =>
          (t[i].id = p => t[i].last = v) /\ (t[i].id # p => t[i] = s[i])
    BY <2>3, <2>4
  <2>7. QED
    <3>1. t = RbeAfter(s, p, v)
      BY DEF t
    <3>2. QED
      BY <1>2, <2>5, <2>6, <3>1
<1>3. QED
  BY <1>1, <1>2

-----------------------------------------------------------------------------
(* What a step does to the gate of a connection, its subscriptions included. *)

SentKept(c) == told'[c] = told[c] /\ lost'[c] = lost[c]
GateKept(c) == subs'[c] = subs[c] /\ rbe'[c] = rbe[c] /\ due'[c] = due[c] /\ SentKept(c)
GateReset(c) ==
  /\ subs'[c] = {} /\ due'[c] = {} /\ rbe'[c] = [i \in 1 .. SubMax |-> EmptySlot]
  /\ SentKept(c)
GateWidened(c) ==
  \E p \in Points \ subs[c] :
    /\ subs'[c] = subs[c] \cup {p} /\ due'[c] = due[c] \cup {p}
    /\ rbe'[c] = rbe[c] /\ SentKept(c)
GateNarrowed(c) ==
  \E p \in Points :
    /\ subs'[c] = subs[c] \ {p} /\ due'[c] = due[c] \ {p}
    /\ rbe'[c] = RbeClear(rbe[c], p) /\ SentKept(c)
(* The queue takes the notification, and may lose another point's, or refuses it. *)
SentOrLost(c, p) ==
  \/ /\ told'[c] = [told[c] EXCEPT ![p] = [write |-> writes, value |-> value[p]]]
     /\ lost[c] \ {p} \subseteq lost'[c]
  \/ told'[c] = told[c] /\ lost'[c] = lost[c] \cup {p}
GateTried(c, p) ==
  /\ p \in subs[c] /\ subs'[c] = subs[c] /\ rbe'[c] = RbeAfter(rbe[c], p, value[p])
  /\ IF RbeSends(rbe[c], p, value[p])
     THEN due'[c] = due[c] \ {p} /\ SentOrLost(c, p)
     ELSE due'[c] = due[c] /\ SentKept(c)

(* What the gate has to do with the write in progress. *)
Idle(c) == GateKept(c) \/ GateReset(c) \/ GateWidened(c) \/ GateNarrowed(c)
Announced(c) ==
  /\ job.after = "announce" /\ job.point \in Points /\ job' = NoJob
  /\ peer[c] # "none" /\ GateTried(c, job.point)

LEMMA ResetGate ==
  ASSUME TypeOK, NEW c \in Conns, ConnInit(c), UNCHANGED <<told, lost>>
  PROVE  \A d \in Conns : GateKept(d) \/ GateReset(d)
  BY DEF ConnInit, TypeOK, GateKept, GateReset, SentKept

LEMMA RequestGate ==
  ASSUME TypeOK, NEW c \in Conns, Request(c)
  PROVE  \A d \in Conns : Idle(d)
<1>1. ASSUME UNCHANGED gate PROVE \A d \in Conns : Idle(d)
  BY <1>1 DEF gate, Idle, GateKept, SentKept
<1>2. ASSUME NEW p \in Points, Subscribe(c, p) PROVE \A d \in Conns : Idle(d)
  <2>1. CASE UNCHANGED <<subs, due>>
    BY <1>1, <1>2, <2>1 DEF Subscribe, gate
  <2>2. CASE /\ p \notin subs[c] /\ subs' = [subs EXCEPT ![c] = @ \cup {p}]
             /\ due' = [due EXCEPT ![c] = @ \cup {p}] /\ UNCHANGED <<rbe, told, lost>>
    <3>1. GateWidened(c)
      BY <2>2 DEF GateWidened, TypeOK, SentKept
    <3>2. \A d \in Conns \ {c} : GateKept(d)
      BY <2>2 DEF GateKept, TypeOK, SentKept
    <3>3. QED
      BY <3>1, <3>2 DEF Idle
  <2>3. QED
    BY <1>2, <2>1, <2>2 DEF Subscribe
<1>3. ASSUME NEW p \in Points, Unsubscribe(c, p) PROVE \A d \in Conns : Idle(d)
  <2>1. GateNarrowed(c)
    BY <1>3 DEF Unsubscribe, GateNarrowed, TypeOK, SentKept
  <2>2. \A d \in Conns \ {c} : GateKept(d)
    BY <1>3 DEF Unsubscribe, GateKept, TypeOK, SentKept
  <2>3. QED
    BY <2>1, <2>2 DEF Idle
<1>4. CASE \/ Query(c) \/ BadRequest(c) \/ WriteRefused(c)
           \/ \E q \in Partitions : Select(c, q)
           \/ \E p \in Points, v \in Values : Write(c, p, v)
  BY <1>1, <1>4 DEF Query, BadRequest, WriteRefused, Select, Write
<1>5. QED
  BY <1>2, <1>3, <1>4 DEF Request

LEMMA BroadcastSent ==
  ASSUME TypeOK, NEW p \in Points, Broadcast(p), NEW d \in Conns, Passes(d, p)
  PROVE  SentOrLost(d, p)
  BY DEF Broadcast, SentOrLost

LEMMA HeardTried ==
  ASSUME TypeOK, NEW p \in Points, Broadcast(p), NEW d \in Conns, Hears(d, p)
  PROVE  GateTried(d, p)
<1>1. CASE Passes(d, p)
  <2>1. SentOrLost(d, p)
    BY <1>1, BroadcastSent
  <2>2. QED
    BY <1>1, <2>1 DEF Broadcast, Passes, Hears, GateTried
<1>2. CASE ~Passes(d, p)
  BY <1>2 DEF Broadcast, Passes, Hears, GateTried, SentKept
<1>3. QED
  BY <1>1, <1>2

LEMMA BroadcastGate ==
  ASSUME TypeOK, NEW p \in Points, Broadcast(p), NEW d \in Conns
  PROVE  GateKept(d) \/ (peer[d] # "none" /\ GateTried(d, p))
<1>1. CASE ~Hears(d, p)
  BY <1>1 DEF Broadcast, Passes, GateKept, SentKept
<1>2. CASE Hears(d, p)
  BY <1>2, HeardTried DEF Hears
<1>3. QED
  BY <1>1, <1>2

LEMMA ReplyGate == ASSUME TypeInv, Reply PROVE \A d \in Conns : Idle(d) \/ Announced(d)
<1>1. /\ job.conn \in Conns /\ (job.after = "announce" => job.point \in Points)
      /\ job' = NoJob /\ TypeOK
  BY DEF Reply, TypeInv, JobOK
<1>2. CASE UNCHANGED gate
  BY <1>2 DEF gate, Idle, GateKept, SentKept
<1>3. CASE job.after = "announce" /\ Broadcast(job.point)
  BY <1>1, <1>3, BroadcastGate DEF Idle, Announced
<1>4. CASE Close(job.conn)
  BY <1>1, <1>4, ResetGate DEF Close, Idle
<1>5. QED
  BY <1>2, <1>3, <1>4 DEF Reply

LEMMA StepOfGate ==
  ASSUME TypeInv, [Next]_vars
  PROVE  \A d \in Conns : Idle(d) \/ Announced(d)
<1>0. TypeOK
  BY DEF TypeInv
<1>1. ASSUME UNCHANGED gate PROVE \A d \in Conns : Idle(d)
  BY <1>1 DEF gate, Idle, GateKept, SentKept
<1>2. ASSUME NEW c \in Conns, ConnInit(c), UNCHANGED <<told, lost>> PROVE \A d \in Conns : Idle(d)
  BY <1>0, <1>2, ResetGate DEF Idle
<1>3. ASSUME NEW c \in Conns, Ask(c) \/ Receive(c) \/ Leave(c) PROVE UNCHANGED gate
  BY <1>3 DEF Ask, Receive, Leave
<1>4. ASSUME NEW c \in Conns, Accept(c) \/ HangUp(c) \/ WrongVersion(c)
      PROVE  ConnInit(c) /\ UNCHANGED <<told, lost>>
  BY <1>4 DEF Accept, HangUp, WrongVersion, Close
<1>5. ASSUME NEW c \in Conns, Flush(c) PROVE UNCHANGED gate \/ (ConnInit(c) /\ UNCHANGED <<told, lost>>)
  BY <1>5, Zenon DEF Flush, Close
<1>6. ASSUME NEW c \in Conns, Request(c) PROVE \A d \in Conns : Idle(d)
  BY <1>0, <1>6, RequestGate
<1>7. CASE Reply
  BY <1>7, ReplyGate
<1>8. CASE Stop \/ Finish \/ UNCHANGED vars
  BY <1>1, <1>8 DEF Stop, Finish, vars
<1>9. QED
  BY <1>1, <1>2, <1>3, <1>4, <1>5, <1>6, <1>7, <1>8 DEF Next

-----------------------------------------------------------------------------
(* A free slot is clean, and outside normal service no handler runs. *)

Clean(d) ==
  /\ subs[d] = {} /\ outq[d] = <<>> /\ part[d] = 0
  /\ \A i \in DOMAIN rbe[d] : rbe[d][i] = EmptySlot
CleanInv ==
  /\ FreeSlotsClean
  /\ mode # "serving" => job = NoJob

LEMMA ModeStays == ASSUME CleanInv, [Next]_vars PROVE mode' # "serving" => job' = NoJob
<1>1. ASSUME UNCHANGED mode, UNCHANGED job PROVE mode' # "serving" => job' = NoJob
  BY <1>1 DEF CleanInv
<1>2. ASSUME NEW c \in Conns,
             Ask(c) \/ Receive(c) \/ Leave(c) \/ Accept(c) \/ HangUp(c) \/ WrongVersion(c)
               \/ Flush(c)
      PROVE  UNCHANGED <<mode, job>>
  BY <1>2 DEF Ask, Receive, Leave, Accept, HangUp, WrongVersion, Flush
<1>3. ASSUME NEW c \in Conns, Request(c) PROVE mode' = "serving"
  BY <1>3 DEF Request, Query, BadRequest, WriteRefused, Select, Subscribe, Unsubscribe, Write,
              Handle, Polling
<1>4. CASE Reply \/ Stop \/ Finish
  BY <1>4 DEF Reply, Stop, Finish, Polling, CleanInv
<1>5. QED
  BY <1>1, <1>2, <1>3, <1>4 DEF Next, vars

LEMMA InitClean ==
  ASSUME TypeOK, NEW c \in Conns, ConnInit(c), NEW d \in Conns
  PROVE  IF d = c THEN Clean(d)'
         ELSE subs'[d] = subs[d] /\ outq'[d] = outq[d] /\ part'[d] = part[d] /\ rbe'[d] = rbe[d]
<1>1. CASE d = c
  BY <1>1 DEF ConnInit, TypeOK, Clean
<1>2. CASE d # c
  BY <1>2 DEF ConnInit, TypeOK
<1>3. QED
  BY <1>1, <1>2

LEMMA CleanStays == ASSUME TypeInv, CleanInv, [Next]_vars PROVE CleanInv'
<1>0. TypeOK
  BY DEF TypeInv
<1> DEFINE Same(d) == subs'[d] = subs[d] /\ outq'[d] = outq[d] /\ part'[d] = part[d]
                      /\ rbe'[d] = rbe[d]
           Goal(d) == mode' # "stopped" /\ peer'[d] = "none" => Clean(d)'
<1> SUFFICES \A d \in Conns : Goal(d)
  BY ModeStays DEF CleanInv, FreeSlotsClean, Clean
<1>1. ASSUME NEW d \in Conns, Same(d), UNCHANGED mode, peer'[d] = "none" => peer[d] = "none"
      PROVE  Goal(d)
  BY <1>1 DEF CleanInv, FreeSlotsClean, Clean
<1>2. ASSUME NEW c \in Conns, ConnInit(c), UNCHANGED mode,
             \A d \in Conns \ {c} : peer'[d] = peer[d]
      PROVE  \A d \in Conns : Goal(d)
  BY <1>0, <1>1, <1>2, InitClean
<1>3. ASSUME NEW c \in Conns, Close(c), UNCHANGED mode PROVE \A d \in Conns : Goal(d)
  BY <1>0, <1>2, <1>3 DEF Close, TypeOK
<1>4. ASSUME NEW c \in Conns, Ask(c) \/ Receive(c) \/ Leave(c)
      PROVE  \A d \in Conns : Goal(d)
  BY <1>0, <1>1, <1>4 DEF Ask, Receive, Leave, gate, queue, TypeOK
<1>5. ASSUME NEW c \in Conns, Accept(c) PROVE \A d \in Conns : Goal(d)
  BY <1>0, <1>2, <1>5 DEF Accept, TypeOK
<1>6. ASSUME NEW c \in Conns, HangUp(c) \/ WrongVersion(c) PROVE \A d \in Conns : Goal(d)
  BY <1>3, <1>6 DEF HangUp, WrongVersion
<1>7. ASSUME NEW c \in Conns, Flush(c) PROVE \A d \in Conns : Goal(d)
  <2>1. CASE Close(c)
    BY <1>3, <1>7, <2>1 DEF Flush
  <2>2. CASE peer[c] # "none" /\ UNCHANGED <<peer, part, gate, mode>>
             /\ (\A d \in Conns \ {c} : outq'[d] = outq[d])
    BY <1>1, <2>2 DEF gate
  <2>3. ASSUME NEW k \in Nat, Flushed(c, k)
        PROVE  \A d \in Conns \ {c} : outq'[d] = outq[d]
    BY <1>0, <2>3, Zenon DEF Flushed, TypeOK
  <2>4. ASSUME outq' = [outq EXCEPT ![c] = <<>>]
        PROVE  \A d \in Conns \ {c} : outq'[d] = outq[d]
    BY <1>0, <2>4 DEF TypeOK
  <2>5. UNCHANGED mode /\ \A k \in 1 .. room[c] : k \in Nat
    BY <1>0, <1>7, Numbers DEF Flush, TypeOK
  <2>6. CASE peer[c] = "up" /\ UNCHANGED <<peer, part, gate>>
             /\ (\E k \in 1 .. room[c] : Flushed(c, k))
    BY <2>2, <2>3, <2>5, <2>6, Zenon
  <2>7. CASE peer[c] = "gone" /\ UNCHANGED <<sockets, part, gate>>
             /\ outq' = [outq EXCEPT ![c] = <<>>]
    BY <2>2, <2>4, <2>5, <2>7 DEF sockets
  <2>8. QED
    BY <1>7, <2>1, <2>6, <2>7, Zenon DEF Flush
<1>8. ASSUME NEW c \in Conns, Request(c) PROVE \A d \in Conns : Goal(d)
  <2>1. /\ peer[c] # "none" /\ UNCHANGED <<mode, peer, outq>>
        /\ \A d \in Conns \ {c} : part'[d] = part[d] /\ subs'[d] = subs[d] /\ rbe'[d] = rbe[d]
    BY <1>0, <1>8 DEF Request, Query, BadRequest, WriteRefused, Select, Subscribe, Unsubscribe,
                      Write, Handle, queue, gate, TypeOK
  <2>2. QED
    BY <1>1, <2>1
<1>9. CASE Reply
  <2>1. job.conn \in Conns /\ UNCHANGED mode
    BY <1>9 DEF Reply, TypeInv, JobOK
  <2>2. CASE Close(job.conn)
    BY <1>3, <2>1, <2>2
  <2>3. CASE UNCHANGED <<peer, part, gate, queue>>
    BY <1>1, <2>1, <2>3 DEF gate, queue
  <2>4. CASE Broadcast(job.point) /\ UNCHANGED <<peer, part>>
    <3>1. ASSUME NEW d \in Conns, peer[d] = "none" PROVE Same(d)
      BY <2>4, <3>1 DEF Broadcast, Passes, Hears
    <3>2. QED
      BY <1>1, <2>1, <2>4, <3>1
  <2>5. QED
    BY <1>9, <2>2, <2>3, <2>4 DEF Reply
<1>10. CASE Stop
  BY <1>10 DEF Stop, sockets, gate, queue, Polling, CleanInv, FreeSlotsClean, Clean
<1>11. CASE Finish
  BY <1>11 DEF Finish
<1>12. CASE UNCHANGED vars
  BY <1>1, <1>12 DEF vars, sockets, gate, queue
<1>13. QED
  BY <1>4, <1>5, <1>6, <1>7, <1>8, <1>9, <1>10, <1>11, <1>12 DEF Next

LEMMA CleanInitially == Init => CleanInv
  BY DEF Init, CleanInv, FreeSlotsClean

LEMMA CleanAlways == Spec => []CleanInv
<1>1. QueueInv /\ CleanInv /\ [Next]_vars => CleanInv'
  BY CleanStays DEF QueueInv
<1>2. QED
  BY <1>1, CleanInitially, QueueStays, PTL DEF Spec

\* conn_init leaves nothing of the last peer in a slot that is free: the next one
\* starts without partition, subscriptions, gate or queued notifications.
THEOREM FreeSlotsStayClean == Spec => []FreeSlotsClean
<1>1. CleanInv => FreeSlotsClean
  BY DEF CleanInv
<1>2. QED
  BY <1>1, CleanAlways, PTL

-----------------------------------------------------------------------------
(* The gate of a connection: its slots belong to points announced since they *)
(* were subscribed, and remember the value of the notification that passed   *)
(* last: the one queued last, unless the queue refused or evicted it.        *)

Remembers(c, slot) == slot.last = told[c][slot.id].value \/ slot.id \in lost[c]
Gate(c) ==
  /\ due[c] \subseteq subs[c]
  /\ GateOf(rbe[c], subs[c] \ due[c])
  /\ \A i \in 1 .. SubMax : rbe[c][i].valid => Remembers(c, rbe[c][i])
GateInv == \A c \in Conns : Gate(c)

LEMMA GateInitially == Init => GateInv
  BY DEF Init, GateInv, Gate, GateOf, EmptySlot

LEMMA GateIdle ==
  ASSUME TypeOK, 0 \notin Points, NEW c \in Conns, Gate(c), Idle(c)
  PROVE  Gate(c)'
<1>0. rbe[c] \in Slots
  BY DEF TypeOK
<1>1. CASE GateKept(c)
  BY <1>1 DEF GateKept, Gate, GateOf, SentKept, Remembers
<1>2. CASE GateReset(c)
  BY <1>2 DEF GateReset, Gate, GateOf, EmptySlot
<1>3. CASE GateWidened(c)
  <2>1. PICK p \in Points \ subs[c] :
          /\ subs'[c] = subs[c] \cup {p} /\ due'[c] = due[c] \cup {p}
          /\ rbe'[c] = rbe[c] /\ SentKept(c)
    BY <1>3 DEF GateWidened
  <2>2. subs'[c] \ due'[c] = subs[c] \ due[c] /\ due'[c] \subseteq subs'[c]
    BY <2>1 DEF Gate
  <2>3. QED
    BY <2>1, <2>2 DEF Gate, GateOf, SentKept, Remembers
<1>4. CASE GateNarrowed(c)
  <2>1. PICK p \in Points :
          /\ subs'[c] = subs[c] \ {p} /\ due'[c] = due[c] \ {p}
          /\ rbe'[c] = RbeClear(rbe[c], p) /\ SentKept(c)
    BY <1>4 DEF GateNarrowed
  <2>2. /\ subs'[c] \ due'[c] = (subs[c] \ due[c]) \ {p} /\ due'[c] \subseteq subs'[c]
        /\ p # 0
    BY <2>1 DEF Gate
  <2>3. /\ GateOf(rbe'[c], subs'[c] \ due'[c])
        /\ \A i \in 1 .. SubMax : rbe'[c][i].valid => rbe'[c][i] = rbe[c][i]
    <3> DEFINE s == rbe[c]
               S == subs[c] \ due[c]
    <3>1. s \in Slots /\ GateOf(s, S) /\ p # 0
      BY <1>0, <2>2 DEF Gate
    <3> HIDE DEF s, S
    <3>2. /\ GateOf(RbeClear(s, p), S \ {p})
          /\ \A i \in 1 .. SubMax : RbeClear(s, p)[i].valid => RbeClear(s, p)[i] = s[i]
      BY <3>1, Cleared
    <3>3. QED
      BY <2>1, <2>2, <3>2 DEF s, S
  <2>4. \A i \in 1 .. SubMax : rbe'[c][i].valid => Remembers(c, rbe[c][i])'
    BY <2>1, <2>3 DEF Gate, SentKept, Remembers
  <2>5. QED
    BY <2>2, <2>3, <2>4 DEF Gate, GateOf
<1>5. QED
  BY <1>1, <1>2, <1>3, <1>4 DEF Idle

LEMMA GateTry ==
  ASSUME TypeOK, 0 \notin Points, NEW c \in Conns, Gate(c), NEW p \in Points, GateTried(c, p)
  PROVE  Gate(c)'
<1> DEFINE s == rbe[c]
           t == RbeAfter(s, p, value[p])
           sends == RbeSends(s, p, value[p])
<1>0. s \in Slots /\ p # 0 /\ told[c] \in [Points -> Notes] /\ subs[c] \subseteq Points
  BY DEF TypeOK
<1>1. /\ GateOf(s, subs[c] \ due[c]) /\ due[c] \subseteq subs[c]
      /\ \A i \in 1 .. SubMax : s[i].valid => Remembers(c, s[i])
  BY DEF Gate
<1>2. /\ sends => GateOf(t, (subs[c] \ due[c]) \cup {p})
      /\ ~sends => t = s
      /\ sends => \A i \in 1 .. SubMax : t[i].valid =>
           (t[i].id = p => t[i].last = value[p]) /\ (t[i].id # p => t[i] = s[i])
  <2> DEFINE S == subs[c] \ due[c]
  <2>1. s \in Slots /\ GateOf(s, S) /\ p # 0
    BY <1>0, <1>1
  <2> HIDE DEF s, S
  <2>2. /\ sends => GateOf(t, S \cup {p})
        /\ ~sends => t = s
        /\ sends => \A i \in 1 .. SubMax : t[i].valid =>
             (t[i].id = p => t[i].last = value[p]) /\ (t[i].id # p => t[i] = s[i])
    BY <2>1, Remembered
  <2>3. QED
    BY <2>2 DEF S
<1>3. p \in subs[c] /\ subs'[c] = subs[c] /\ rbe'[c] = t
  BY DEF GateTried
<1>4. CASE sends
  <2>1. due'[c] = due[c] \ {p} /\ SentOrLost(c, p)
    BY <1>4 DEF GateTried
  <2> HIDE DEF s, t, sends
  <2>2. GateOf(t, subs'[c] \ due'[c]) /\ due'[c] \subseteq subs'[c]
    <3>1. subs'[c] \ due'[c] = (subs[c] \ due[c]) \cup {p}
      BY <1>1, <1>3, <2>1
    <3>2. QED
      BY <1>1, <1>2, <1>3, <1>4, <2>1, <3>1
  <2>3. ASSUME NEW i \in 1 .. SubMax, t[i].valid
        PROVE  t[i].last = told'[c][t[i].id].value \/ t[i].id \in lost'[c]
    <3>1. t[i].id \in Points
      BY <1>0, <1>3, <2>2, <2>3 DEF GateOf
    <3>2. CASE t[i].id = p
      <4>1. t[i].last = value[p]
        BY <1>2, <1>4, <2>3, <3>2
      <4>2. told'[c][p].value = value[p] \/ p \in lost'[c]
        BY <1>0, <2>1 DEF SentOrLost
      <4>3. QED
        BY <3>2, <4>1, <4>2
    <3>3. CASE t[i].id # p
      <4>1. t[i] = s[i] /\ Remembers(c, s[i])
        BY <1>1, <1>2, <1>4, <2>3, <3>3
      <4>2. told'[c][t[i].id] = told[c][t[i].id] /\ lost[c] \ {p} \subseteq lost'[c]
        BY <1>0, <2>1, <3>1, <3>3 DEF SentOrLost
      <4>3. QED
        BY <3>3, <4>1, <4>2 DEF Remembers
    <3>4. QED
      BY <3>2, <3>3
  <2>4. QED
    BY <1>3, <2>2, <2>3 DEF Gate, GateOf, Remembers
<1>5. CASE ~sends
  BY <1>1, <1>2, <1>3, <1>5 DEF GateTried, Gate, GateOf, SentKept, Remembers
<1>6. QED
  BY <1>4, <1>5

LEMMA GateStays ==
  ASSUME TypeInv, 0 \notin Points, GateInv, [Next]_vars
  PROVE  GateInv'
<1> SUFFICES ASSUME NEW c \in Conns PROVE Gate(c)'
  BY DEF GateInv
<1>1. TypeOK /\ Gate(c) /\ (Idle(c) \/ Announced(c))
  BY StepOfGate DEF TypeInv, GateInv
<1>2. CASE Idle(c)
  BY <1>1, <1>2, GateIdle
<1>3. CASE Announced(c)
  BY <1>1, <1>3, GateTry DEF Announced
<1>4. QED
  BY <1>1, <1>2, <1>3

LEMMA GateAlways == ASSUME 0 \notin Points PROVE Spec => []GateInv
<1>1. TypeInv /\ GateInv /\ [Next]_vars => GateInv'
  BY GateStays
<1>2. QED
  BY <1>1, GateInitially, TypeStays, PTL DEF Spec

(* Only the reply to a write announces. *)
LEMMA AnnouncesBroadcasts ==
  ASSUME TypeInv, [Next]_vars, NEW p, Announces(p)
  PROVE  Broadcast(p) /\ p \in Points
<1>1. job # NoJob /\ job' # job
  BY DEF Announces, NoJob
<1>2. ~(\E c \in Conns : \/ Ask(c) \/ Receive(c) \/ Leave(c)
                         \/ Accept(c) \/ HangUp(c) \/ WrongVersion(c) \/ Flush(c))
  BY <1>1 DEF Ask, Receive, Leave, Accept, HangUp, WrongVersion, Flush
<1>3. ~(\E c \in Conns : Request(c))
  BY <1>1 DEF Request, Query, BadRequest, WriteRefused, Select, Subscribe, Unsubscribe, Write,
              Handle, Polling
<1>4. ~Stop /\ ~Finish /\ ~(UNCHANGED vars)
  BY <1>1 DEF Stop, Finish, vars
<1>5. Reply
  BY <1>2, <1>3, <1>4 DEF Next
<1>6. QED
  BY <1>1, <1>5 DEF Reply, Announces, TypeInv, JobOK

LEMMA FirstSent ==
  ASSUME TypeInv, 0 \notin Points, GateInv, [Next]_vars,
         NEW c \in Conns, NEW p \in Points, Announces(p), p \in due[c], peer[c] # "none"
  PROVE  passed'[c] = passed[c] + 1
<1>1. Gate(c) /\ rbe[c] \in Slots /\ p # 0
  BY DEF GateInv, TypeInv, TypeOK
<1>2. p \in subs[c] /\ GateOf(rbe[c], subs[c] \ due[c]) /\ p \notin subs[c] \ due[c]
  BY <1>1 DEF Gate
<1>3. RbeSends(rbe[c], p, value[p])
  <2> DEFINE s == rbe[c]
             S == subs[c] \ due[c]
             v == value[p]
  <2>1. s \in Slots /\ GateOf(s, S) /\ p # 0 /\ p \notin S
    BY <1>1, <1>2
  <2> HIDE DEF s, S, v
  <2>2. RbeSends(s, p, v)
    BY <2>1, NewPointSent
  <2>3. QED
    BY <2>2 DEF s, v
<1>4. Broadcast(p)
  BY AnnouncesBroadcasts
<1>5. QED
  BY <1>2, <1>3, <1>4 DEF Broadcast, Passes, Hears

\* The first value after a subscription is sent, also when the point was subscribed
\* before, if no point has the id 0 by which rbe.c marks a free slot.
THEOREM FirstValueIsSent == ASSUME 0 \notin Points PROVE Spec => FirstValueSent
<1>1. TypeInv /\ GateInv /\ [Next]_vars =>
        [\A c \in Conns, p \in Points :
            Announces(p) /\ p \in due[c] /\ peer[c] # "none" => passed'[c] = passed[c] + 1]_vars
  BY FirstSent
<1>2. QED
  BY <1>1, GateAlways, TypeStays, PTL DEF Spec, FirstValueSent

-----------------------------------------------------------------------------
(* What a connection was sent last stays within the deadband. *)

Pending(p) == job.after = "announce" /\ job.point = p
Known(c) ==
  \A p \in subs[c] \ (due[c] \cup silent \cup lost[c]) :
    ~Pending(p) => ~Exceeds(p, told[c][p].value, value[p]) \/ told[c][p].value = value[p]

LEMMA KnownFacts ==
  ASSUME TypeOK, NEW c \in Conns
  PROVE  /\ subs[c] \subseteq Points /\ told[c] \in [Points -> Notes] /\ rbe[c] \in Slots
         /\ value \in [Points -> Nat]
  BY DEF TypeOK

(* A step that announces nothing and stores nothing. *)
LEMMA KnownIdle ==
  ASSUME NEW c \in Conns, Known(c), Gate(c), Idle(c), value' = value, silent \subseteq silent',
         \A p \in Points : Pending(p) => Pending(p)' \/ p \in silent' \/ p \notin subs'[c],
         subs[c] \subseteq Points
  PROVE  Known(c)'
<1>1. \/ subs'[c] \ due'[c] \subseteq subs[c] \ due[c] /\ SentKept(c)
      \/ subs'[c] = {}
  BY DEF Idle, GateKept, GateReset, GateWidened, GateNarrowed, Gate
<1>2. QED
  BY <1>1 DEF Known, Exceeds, SentKept

(* A write changes one value, and is pending. *)
LEMMA KnownWrite ==
  ASSUME TypeOK, NEW c \in Conns, NEW d \in Conns, NEW p \in Points, NEW v \in Values,
         Known(d), Write(c, p, v)
  PROVE  Known(d)'
<1>1. /\ UNCHANGED <<subs, due, told, lost, silent>> /\ Pending(p)' /\ job = NoJob
      /\ \A q \in Points : q # p => value'[q] = value[q]
  BY DEF Write, Handle, Polling, Pending, gate, TypeOK
<1>2. \A q \in Points : ~Pending(q)
  BY <1>1 DEF Pending, NoJob
<1>3. QED
  BY <1>1, <1>2, KnownFacts DEF Known, Exceeds

(* The slot of a point that is not sent remembers what was told. *)
LEMMA KnownTried ==
  ASSUME TypeOK, 0 \notin Points, NEW c \in Conns, Known(c), Gate(c),
         NEW p \in Points, GateTried(c, p), Pending(p), value' = value, silent' = silent \ {p}
  PROVE  Known(c)'
<1> SUFFICES ASSUME NEW q \in subs'[c] \ (due'[c] \cup silent' \cup lost'[c])
             PROVE  ~Exceeds(q, told'[c][q].value, value[q]) \/ told'[c][q].value = value[q]
  BY DEF Known, Exceeds
<1>0. q \in Points /\ told[c] \in [Points -> Notes]
  BY KnownFacts DEF GateTried
<1>1. CASE q # p
  <2>1. q \in subs[c] \ (due[c] \cup silent \cup lost[c]) /\ ~Pending(q)
    BY <1>1 DEF GateTried, Pending, SentOrLost, SentKept
  <2>2. told'[c][q] = told[c][q]
    BY <1>0, <1>1 DEF GateTried, SentOrLost, SentKept
  <2>3. QED
    BY <2>1, <2>2 DEF Known
<1>2. CASE q = p /\ RbeSends(rbe[c], p, value[p])
  BY <1>0, <1>2 DEF GateTried, SentOrLost
<1>3. CASE q = p /\ ~RbeSends(rbe[c], p, value[p])
  <2> DEFINE i == RbeIndex(rbe[c], p)
  <2>1. i # 0 /\ rbe[c][i].valid /\ ~Exceeds(p, rbe[c][i].last, value[p])
    BY <1>3 DEF RbeSends
  <2>2. rbe[c] \in Slots
    BY KnownFacts
  <2>3. i \in 1 .. SubMax /\ rbe[c][i].id = p
    BY <2>1, <2>2, Index
  <2> HIDE DEF i
  <2>4. rbe[c][i].last = told[c][p].value \/ p \in lost[c]
    BY <2>1, <2>3 DEF Gate, Remembers
  <2>5. told'[c] = told[c] /\ lost'[c] = lost[c]
    BY <1>3 DEF GateTried, SentKept
  <2>6. QED
    BY <1>3, <2>1, <2>4, <2>5
<1>4. QED
  BY <1>1, <1>2, <1>3

(* A subscriber has a connection while the worker serves. *)
LEMMA Subscriber ==
  ASSUME CleanInv, job # NoJob, NEW d \in Conns, NEW p \in subs[d]
  PROVE  Hears(d, p)
  BY DEF CleanInv, FreeSlotsClean, Hears

LEMMA KnownReply ==
  ASSUME TypeInv, 0 \notin Points, CleanInv, GateInv, NEW d \in Conns, Known(d), Reply
  PROVE  Known(d)'
<1>1. /\ job.conn \in Conns /\ (job.after = "announce" => job.point \in Points)
      /\ job # NoJob /\ job' = NoJob /\ TypeOK /\ value' = value /\ Gate(d)
  BY DEF Reply, TypeInv, JobOK, GateInv
<1>2. subs[d] \subseteq Points
  BY <1>1, KnownFacts
<1>3. CASE job.after # "announce" /\ Idle(d) /\ silent' = silent
  <2>1. \A p \in Points : ~Pending(p)
    BY <1>3 DEF Pending
  <2>2. QED
    BY <1>1, <1>2, <1>3, <2>1, KnownIdle
<1>4. CASE job.after = "announce" /\ Broadcast(job.point)
  <2>1. job.point \in Points /\ Pending(job.point) /\ silent' = silent \ {job.point}
    BY <1>1, <1>4 DEF Broadcast, Pending
  <2>2. CASE GateTried(d, job.point)
    BY <1>1, <2>1, <2>2, KnownTried
  <2>3. CASE ~Hears(d, job.point)
    <3>1. job.point \notin subs[d] /\ subs'[d] = subs[d] /\ due'[d] = due[d] /\ SentKept(d)
      BY <1>1, <1>4, <2>3, Subscriber DEF Broadcast, Passes, SentKept
    <3>2. \A q \in subs[d] \ (due[d] \cup silent') : q \notin silent /\ ~Pending(q)
      BY <2>1, <3>1 DEF Pending
    <3>3. QED
      BY <1>1, <3>1, <3>2 DEF Known, Exceeds, SentKept
  <2>4. CASE Hears(d, job.point)
    <3>1. GateTried(d, job.point)
      BY <1>1, <1>4, <2>1, <2>4, HeardTried
    <3>2. QED
      BY <2>2, <3>1
  <2>5. QED
    BY <2>3, <2>4
<1>5. CASE job.after = "announce" /\ Close(job.conn)
           /\ silent' = IF \E e \in Conns \ {job.conn} : Hears(e, job.point)
                        THEN silent \cup {job.point} ELSE silent
  <2>1. Idle(d)
    BY <1>1, <1>5, ResetGate DEF Close, Idle
  <2>2. d = job.conn => subs'[d] = {}
    BY <1>1, <1>5 DEF Close, ConnInit, TypeOK
  <2>3. d # job.conn => subs'[d] = subs[d]
    BY <1>1, <1>5 DEF Close, ConnInit, TypeOK
  <2>4. \A p \in Points : Pending(p) => p \in silent' \/ p \notin subs'[d]
    BY <1>1, <1>5, <2>2, <2>3, Subscriber DEF Pending
  <2>5. silent \subseteq silent'
    BY <1>5
  <2>6. QED
    BY <1>1, <1>2, <2>1, <2>4, <2>5, KnownIdle
<1>6. CASE job.after # "announce" /\ Close(job.conn) /\ silent' = silent
  <2>1. Idle(d)
    BY <1>1, <1>6, ResetGate DEF Close, Idle
  <2>2. QED
    BY <1>3, <1>6, <2>1
<1>7. CASE job.after = "keep" /\ UNCHANGED <<gate, silent>>
  <2>1. Idle(d)
    BY <1>7 DEF gate, Idle, GateKept, SentKept
  <2>2. QED
    BY <1>3, <1>7, <2>1
<1>8. QED
  BY <1>4, <1>5, <1>6, <1>7 DEF Reply

LEMMA KnownStays ==
  ASSUME TypeInv, 0 \notin Points, CleanInv, GateInv, NEW d \in Conns, Known(d), [Next]_vars
  PROVE  Known(d)'
<1>0. TypeOK /\ Gate(d) /\ subs[d] \subseteq Points
  BY KnownFacts DEF TypeInv, GateInv
<1>1. CASE Reply
  BY <1>1, KnownReply
<1>2. ASSUME NEW c \in Conns, NEW p \in Points, NEW v \in Values, Write(c, p, v)
      PROVE  Known(d)'
  BY <1>0, <1>2, KnownWrite
<1>3. ASSUME Idle(d), UNCHANGED <<value, silent>>, job' = job \/ job = NoJob PROVE Known(d)'
  <2>1. \A p \in Points : Pending(p) => Pending(p)'
    BY <1>3 DEF Pending, NoJob
  <2>2. QED
    BY <1>0, <1>3, <2>1, KnownIdle
<1>4. ~Reply => Idle(d)
  <2>1. ASSUME Announced(d) PROVE Reply
    <3>1. job # NoJob /\ job' # job
      BY <2>1 DEF Announced, NoJob
    <3>2. ~(\E c \in Conns : \/ Ask(c) \/ Receive(c) \/ Leave(c)
                             \/ Accept(c) \/ HangUp(c) \/ WrongVersion(c) \/ Flush(c))
      BY <3>1 DEF Ask, Receive, Leave, Accept, HangUp, WrongVersion, Flush
    <3>3. ~(\E c \in Conns : Request(c))
      BY <3>1 DEF Request, Query, BadRequest, WriteRefused, Select, Subscribe, Unsubscribe,
                  Write, Handle, Polling
    <3>4. ~Stop /\ ~Finish /\ ~(UNCHANGED vars)
      BY <3>1 DEF Stop, Finish, vars
    <3>5. QED
      BY <3>2, <3>3, <3>4 DEF Next
  <2>2. QED
    BY <2>1, StepOfGate
<1>5. ASSUME NEW c \in Conns, Ask(c) \/ Receive(c) \/ Leave(c) \/ Accept(c) \/ HangUp(c)
                              \/ WrongVersion(c) \/ Flush(c)
      PROVE  UNCHANGED <<value, silent, job>>
  BY <1>5 DEF Ask, Receive, Leave, Accept, HangUp, WrongVersion, Flush, store
<1>6. ASSUME NEW c \in Conns, Request(c), ~(\E p \in Points, v \in Values : Write(c, p, v))
      PROVE  UNCHANGED <<value, silent>> /\ job = NoJob
  BY <1>6 DEF Request, Query, BadRequest, WriteRefused, Select, Subscribe, Unsubscribe, Handle,
              Polling, store
<1>7. CASE Stop \/ Finish \/ UNCHANGED vars
  <2>1. UNCHANGED <<value, silent, job>>
    BY <1>7 DEF Stop, Finish, vars, store
  <2>2. QED
    BY <1>1, <1>3, <1>4, <2>1
<1>8. QED
  BY <1>1, <1>2, <1>3, <1>4, <1>5, <1>6, <1>7 DEF Next

\* A subscriber never drifts away from the stored value by many small writes, each
\* within the deadband: rbe_decide compares with the value that passed last, in a slot
\* that is the point's own (again if no point has the id 0), and that is the value of
\* the notification queued last unless outq_push refused or evicted it (lost).
THEOREM SubscribersStayClose ==
  ASSUME 0 \notin Points PROVE Spec => []KnownWithinDeadband
<1> DEFINE KnownInv == \A d \in Conns : Known(d)
<1>1. Init => KnownInv
  BY DEF Init, Known
<1>2. TypeInv /\ CleanInv /\ GateInv /\ KnownInv /\ [Next]_vars => KnownInv'
  BY KnownStays
<1>3. KnownInv => KnownWithinDeadband
  BY DEF Known, Pending, KnownWithinDeadband
<1> HIDE DEF KnownInv
<1>4. QED
  BY <1>1, <1>2, <1>3, TypeStays, CleanAlways, GateAlways, PTL DEF Spec

=============================================================================
