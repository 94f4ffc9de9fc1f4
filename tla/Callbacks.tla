----------------------------- MODULE Callbacks -----------------------------
(***************************************************************************)
(* Handles and subscription callbacks inside one process (indurtdb.c,      *)
(* irt_subscription.c).  One thread writes; a callback runs in the middle  *)
(* of the notification that calls it and may use the library again: it     *)
(* subscribes, unsubscribes, writes, closes the handle it was called for,  *)
(* opens another.  The stack holds the notifications under way.            *)
(***************************************************************************)
EXTENDS Naturals, Sequences, FiniteSets

CONSTANTS
  MaxInstances,     \* IRT_MAX_INSTANCES
  MaskBits,         \* width of g_used_mask
  Points,           \* point ids, an interval
  MaxCallbacks,     \* IRT_SUB_MAX_CALLBACKS
  MaxOther,         \* bound: subscriptions on a handle other than the first
  MaxDepth,         \* bound: notifications inside notifications
  MaxRanges,        \* bound: how deep a write may be a write_range
  MaxBeyond         \* bound: how deep a handle beyond the mask may be asked for

ASSUME CallbacksValues ==
  /\ {MaxInstances, MaskBits, MaxCallbacks, MaxOther, MaxDepth, MaxRanges} \subseteq Nat \ {0}
  /\ MaxBeyond \in Nat
  /\ Points \subseteq Nat /\ IsFiniteSet(Points) /\ \A i, j \in Points : i .. j \subseteq Points

Handles == 0 .. MaxInstances - 1
Subs == 0 .. MaxCallbacks          \* what a callback and its user_data stand for

VARIABLES
  mask,     \* g_used_mask, the set of its bits
  opened,   \* h->initialized
  slots,    \* h->sub.slots, up to slot_count
  stack,    \* the notifications under way, the innermost last
  holders,  \* history: how many callers hold each handle
  crowded,  \* history: a handle was asked for with every bit of the mask set
  subs      \* history: the subscriptions made and neither cancelled nor closed

vars == <<mask, opened, slots, stack, holders, crowded, subs>>

(* A notification: the handle, the point, slot_count on entry, the slot it is *)
(* at, whether that slot's callback is running, and how many points of a      *)
(* write_range are left.  History: who is to be called, who was, and how many *)
(* slots already passed were cancelled since.                                 *)
Frames == [h : Handles, id : Points, n : 0 .. MaxCallbacks, i : 1 .. MaxCallbacks + 1,
           in : BOOLEAN, rest : 0 .. Cardinality(Points),
           due : SUBSET Subs, called : SUBSET Subs, cancelled : 0 .. MaxCallbacks]
NoFrame == [in |-> TRUE]
Top == IF stack = <<>> THEN NoFrame ELSE stack[Len(stack)]

Init ==
  /\ mask = {}
  /\ opened = [h \in Handles |-> FALSE] /\ slots = [h \in Handles |-> <<>>]
  /\ stack = <<>> /\ holders = [h \in Handles |-> 0] /\ crowded = FALSE
  /\ subs = [h \in Handles |-> {}]

(* The program runs: outside the library, or in a callback.  Bound: it asks   *)
(* for nothing more after a shift that has no defined value.                  *)
Calling == Top.in /\ ~ crowded
Usable(h) == Calling /\ holders[h] > 0 /\ opened[h]        \* ENSURE_H

-----------------------------------------------------------------------------
(* inst_alloc and inst_free.  1u << i is undefined from the width of the     *)
(* mask on: the shift wraps (x86) or gives 0 (ARM).                          *)
Shifts == {"wraps", "zero"}
Bit(i, shift) == IF i < MaskBits THEN {i} ELSE IF shift = "wraps" THEN {i % MaskBits} ELSE {}
Free(i, shift) == Bit(i, shift) \cap mask = {}

(* All subscriptions on a handle go, for the notifications under way as well. *)
Zeroed(h) ==
  /\ slots' = [slots EXCEPT ![h] = <<>>] /\ subs' = [subs EXCEPT ![h] = {}]
  /\ stack' = [k \in DOMAIN stack |->
       IF stack[k].h = h THEN [stack[k] EXCEPT !.due = {}, !.called = {}] ELSE stack[k]]
Asked(h, shift) ==                 \* the first slot that looks free
  /\ Calling /\ Free(h, shift) /\ \A i \in 0 .. h - 1 : ~ Free(i, shift)
  /\ h >= MaskBits => Len(stack) <= MaxBeyond
  /\ crowded' = (crowded \/ 0 .. MaskBits - 1 \subseteq mask)
  /\ Zeroed(h)

MutOpen(h) ==                      \* the slot is not marked
  /\ \E shift \in Shifts : Asked(h, shift)
  /\ opened' = [opened EXCEPT ![h] = TRUE] /\ holders' = [holders EXCEPT ![h] = @ + 1]
  /\ UNCHANGED mask
Open(h) ==                         \* indurtdb_h_open
  /\ \E shift \in Shifts : Asked(h, shift) /\ mask' = mask \cup Bit(h, shift)
  /\ opened' = [opened EXCEPT ![h] = TRUE] /\ holders' = [holders EXCEPT ![h] = @ + 1]
OpenFails(h) ==                    \* inst_init fails, and inst_free follows
  /\ \E shift \in Shifts : Asked(h, shift) /\ mask' = mask \ Bit(h, shift)
  /\ opened' = [opened EXCEPT ![h] = FALSE]
  /\ UNCHANGED holders

MutClose(h) ==                     \* the handle is not zeroed
  /\ Calling /\ holders[h] > 0
  /\ opened' = [opened EXCEPT ![h] = FALSE] /\ holders' = [holders EXCEPT ![h] = @ - 1]
  /\ subs' = [subs EXCEPT ![h] = {}]
  /\ \E shift \in Shifts : mask' = mask \ Bit(h, shift)
  /\ UNCHANGED <<crowded, stack, slots>>
Close(h) ==                        \* indurtdb_h_close: inst_shutdown, inst_free
  /\ Calling /\ holders[h] > 0 /\ Zeroed(h)
  /\ opened' = [opened EXCEPT ![h] = FALSE] /\ holders' = [holders EXCEPT ![h] = @ - 1]
  /\ \E shift \in Shifts : mask' = mask \ Bit(h, shift)
  /\ UNCHANGED crowded

-----------------------------------------------------------------------------
(* irt_sub_subscribe: a full table refuses. *)
Slot(id, s) == [id |-> id, sub |-> s]
SlotSet(h) == {slots[h][k] : k \in 1 .. Len(slots[h])}
NewSub(h) == CHOOSE s \in Subs : s \notin {x.sub : x \in SlotSet(h)}
MutHasRoom(h) == Len(slots[h]) <= MaxCallbacks
HasRoom(h) == Len(slots[h]) < MaxCallbacks
Within(h) == h = 0 \/ Len(slots[h]) < MaxOther
MutSubscribe(h, id) ==          \* in front
  /\ Usable(h) /\ HasRoom(h) /\ Within(h)
  /\ slots' = [slots EXCEPT ![h] = <<Slot(id, NewSub(h))>> \o @]
  /\ subs' = [subs EXCEPT ![h] = @ \cup {Slot(id, NewSub(h))}]
  /\ UNCHANGED <<mask, opened, stack, holders, crowded>>
Subscribe(h, id) ==
  /\ Usable(h) /\ HasRoom(h) /\ Within(h)
  /\ slots' = [slots EXCEPT ![h] = Append(@, Slot(id, NewSub(h)))]
  /\ subs' = [subs EXCEPT ![h] = @ \cup {Slot(id, NewSub(h))}]
  /\ UNCHANGED <<mask, opened, stack, holders, crowded>>

(* irt_sub_unsubscribe: every slot of the point is overwritten by the last   *)
(* one, which is then looked at in its turn.  Each round of the loop moves   *)
(* on or shortens the table: there are slot_count rounds.                    *)
MutRound(st, id) ==                \* moves on after a removal too
  LET last == Len(st.s) IN
  IF st.i > last THEN st
  ELSE IF st.s[st.i].id = id
  THEN [i |-> st.i + 1, s |-> SubSeq([st.s EXCEPT ![st.i] = st.s[last]], 1, last - 1)]
  ELSE [st EXCEPT !.i = @ + 1]
Round(st, id) ==
  LET last == Len(st.s) IN
  IF st.i > last THEN st
  ELSE IF st.s[st.i].id = id
  THEN [i |-> st.i, s |-> SubSeq([st.s EXCEPT ![st.i] = st.s[last]], 1, last - 1)]
  ELSE [st EXCEPT !.i = @ + 1]
Without(s, id) ==
  LET rounds[k \in 0 .. Len(s)] == IF k = 0 THEN [i |-> 1, s |-> s] ELSE Round(rounds[k - 1], id)
  IN rounds[Len(s)].s

Least(a, b) == IF a < b THEN a ELSE b

(* What the cancellation means to a notification under way on h. *)
Cancelled(f, h, id) ==
  IF f.h # h THEN f
  ELSE LET gone == {k \in 1 .. Len(slots[h]) : slots[h][k].id = id} IN
       [f EXCEPT !.due = @ \ {slots[h][k].sub : k \in gone},
                 !.called = @ \ {slots[h][k].sub : k \in gone},
                 !.cancelled = Least(@ + Cardinality({k \in gone : k <= f.i}), MaxCallbacks)]
Unsubscribe(h, id) ==
  /\ Usable(h)
  /\ slots' = [slots EXCEPT ![h] = Without(@, id)]
  /\ subs' = [subs EXCEPT ![h] = {x \in @ : x.id # id}]
  /\ stack' = [k \in DOMAIN stack |-> Cancelled(stack[k], h, id)]
  /\ UNCHANGED <<mask, opened, holders, crowded>>

-----------------------------------------------------------------------------
(* h_write_and_notify after a write that succeeded; slot_count is read once. *)
Notify(h, id, rest) ==
  [h |-> h, id |-> id, n |-> Len(slots[h]), i |-> 1, in |-> FALSE, rest |-> rest,
   due |-> {x.sub : x \in {y \in SlotSet(h) : y.id = id}}, called |-> {}, cancelled |-> 0]

Write(h, id, rest) ==              \* indurtdb_h_write_*, or a write_range's first
  /\ Usable(h) /\ Len(stack) < MaxDepth /\ id + rest \in Points
  /\ rest > 0 => Len(stack) < MaxRanges
  /\ stack' = Append(stack, Notify(h, id, rest))
  /\ UNCHANGED <<mask, opened, slots, holders, crowded, subs>>

SetTop(f) == stack' = [stack EXCEPT ![Len(stack)] = f]
Pop == stack' = SubSeq(stack, 1, Len(stack) - 1)
Library == stack # <<>> /\ ~ Top.in

(* One round of irt_sub_notify: the slot is read again, and one beyond the   *)
(* table has been zeroed.                                                    *)
Match(f) == f.i <= Len(slots[f.h]) /\ slots[f.h][f.i].id = f.id
Skip ==
  /\ Library /\ Top.i <= Top.n /\ ~ Match(Top)
  /\ SetTop([Top EXCEPT !.i = @ + 1])
  /\ UNCHANGED <<mask, opened, slots, holders, crowded, subs>>
Call ==
  /\ Library /\ Top.i <= Top.n /\ Match(Top)
  /\ SetTop([Top EXCEPT !.in = TRUE, !.called = @ \cup {slots[Top.h][Top.i].sub}])
  /\ UNCHANGED <<mask, opened, slots, holders, crowded, subs>>
MutReturn ==                       \* the first subscriber is the last
  /\ stack # <<>> /\ Top.in
  /\ SetTop([Top EXCEPT !.in = FALSE, !.i = Top.n + 1])
  /\ UNCHANGED <<mask, opened, slots, holders, crowded, subs>>
Return ==
  /\ stack # <<>> /\ Top.in
  /\ SetTop([Top EXCEPT !.in = FALSE, !.i = @ + 1])
  /\ UNCHANGED <<mask, opened, slots, holders, crowded, subs>>

(* The notification is over; a write_range goes on with its next point, on a *)
(* handle it no longer asks about: a closed one has no segment and refuses.  *)
Finish ==
  /\ Library /\ Top.i > Top.n
  /\ \/ Pop
     \/ Top.rest > 0 /\ opened[Top.h] /\ SetTop(Notify(Top.h, Top.id + 1, Top.rest - 1))
  /\ UNCHANGED <<mask, opened, slots, holders, crowded, subs>>

Next ==
  \/ \E h \in Handles :
       \/ Open(h) \/ OpenFails(h) \/ Close(h)
       \/ \E id \in Points :
            \/ Subscribe(h, id) \/ Unsubscribe(h, id)
            \/ \E rest \in 0 .. Cardinality(Points) - 1 : Write(h, id, rest)
  \/ Skip \/ Call \/ Return \/ Finish
Spec == Init /\ [][Next]_vars

-----------------------------------------------------------------------------
TypeOK ==
  /\ mask \subseteq 0 .. MaskBits - 1
  /\ opened \in [Handles -> BOOLEAN] /\ holders \in [Handles -> Nat]
  /\ slots \in [Handles -> Seq([id : Points, sub : Subs])]
  /\ \A h \in Handles : Len(slots[h]) <= MaxCallbacks
  /\ stack \in Seq(Frames) /\ Len(stack) <= MaxDepth
  /\ crowded \in BOOLEAN /\ subs \in [Handles -> SUBSET [id : Points, sub : Subs]]

\* The table of callbacks is the set of subscriptions in force: unsubscribing removes
\* every subscription of its point and no other, whatever is swapped over whatever, and
\* closing removes all.
TableExact ==
  \A h \in Handles : /\ SlotSet(h) = subs[h]
                     /\ Len(slots[h]) = Cardinality(subs[h])

\* Two callers never get the same handle, as long as no handle is asked for when every
\* bit of the mask is set (then 1u << i has no defined value and a handle in use may be
\* zeroed and handed out again).
HandlesDistinct == crowded \/ \A h \in Handles : holders[h] <= 1

\* A notification calls every subscriber that was there when it began and still is,
\* except for one at most for each slot it had passed that was cancelled under it: the
\* last slot is moved there, behind the one being looked at.
MissedBounded ==
  \A k \in DOMAIN stack :
    LET f == stack[k] IN
    f.i > f.n => Cardinality({x.sub : x \in subs[f.h]} \cap (f.due \ f.called)) <= f.cancelled

\* A callback runs only for a subscription in force on an open handle, to the point of
\* the notification, and once in it, whatever the callbacks before it subscribed,
\* cancelled, closed or opened.
CalledOnce ==
  [][Call => LET x == slots[Top.h][Top.i] IN
             x.id = Top.id /\ x \in subs[Top.h] /\ opened[Top.h] /\ x.sub \notin Top.called]_vars

=============================================================================
