-------------------------- MODULE Callbacks_proofs --------------------------
(***************************************************************************)
(* Proofs about Callbacks: for every number of instances, mask width,      *)
(* table size, depth of notification and interval of points, the tables    *)
(* are the subscriptions in force, the handles given out are distinct, a   *)
(* notification misses no more than was cancelled under it and calls only  *)
(* what it should, once.                                                   *)
(*                                                                         *)
(* The unsubscribe loop is a recursive function; what it makes of a table  *)
(* is an invariant of its rounds, carried from one to the next by looking  *)
(* at the first round that would break it.                                 *)
(***************************************************************************)
EXTENDS Callbacks, TLAPS, FiniteSetTheorems, SequenceTheorems

LEMMA Constants ==
  /\ MaxInstances \in Nat /\ MaskBits \in Nat /\ MaxCallbacks \in Nat /\ MaxDepth \in Nat
  /\ MaxInstances > 0 /\ MaskBits > 0 /\ MaxCallbacks > 0 /\ MaxDepth > 0
  /\ Points \subseteq Nat /\ Cardinality(Points) \in Nat
  BY CallbacksValues, FS_CardinalityType

(* A set of naturals with an element has a least one. *)
LEMMA LeastOf ==
  ASSUME NEW T, T \subseteq Nat, T # {}
  PROVE  \E m \in T : \A k \in T : m <= k
<1>1. PICK m \in T : \A k \in T : <<k, m>> \notin OpToRel(<, Nat)
  BY WFMin, NatLessThanWellFounded, Zenon
<1>2. \A k \in T : ~ (k < m)
  BY <1>1, Zenon DEF OpToRel
<1>3. QED
  BY <1>2

-----------------------------------------------------------------------------
(* The table of a handle.  What irt_sub_unsubscribe makes of it: the          *)
(* subscriptions to other points stay, and none moves to a higher slot.       *)
Record == [id : Points, sub : Subs]
Uniq(s) == \A j, k \in 1 .. Len(s) : s[j].sub = s[k].sub => j = k

Thinned(s, r, id) ==
  /\ r \in Seq(Record) /\ Len(r) <= Len(s) /\ Uniq(r)
  /\ \A j \in 1 .. Len(r) : \E k \in 1 .. Len(s) : j <= k /\ s[k] = r[j]
  /\ \A k \in 1 .. Len(s) : s[k].id # id => \E j \in 1 .. Len(r) : r[j] = s[k]

State == [i : Nat, s : Seq(Record)]
RoundInv(s, st, id, k) ==
  /\ st \in State /\ st.i \in 1 .. Len(st.s) + 1
  /\ Thinned(s, st.s, id)
  /\ \A j \in 1 .. Len(st.s) : j < st.i => st.s[j].id # id
  /\ st.i > Len(st.s) \/ st.i - 1 + Len(s) - Len(st.s) >= k

LEMMA Shortened ==
  ASSUME NEW s \in Seq(Record), NEW r \in Seq(Record), NEW id, NEW i \in 1 .. Len(r),
         Thinned(s, r, id), r[i].id = id
  PROVE  LET t == SubSeq([r EXCEPT ![i] = r[Len(r)]], 1, Len(r) - 1) IN
         /\ Thinned(s, t, id) /\ Len(t) = Len(r) - 1
         /\ \A j \in 1 .. Len(t) : j < i => t[j] = r[j]
<1>0. PICK n \in Nat : n = Len(r)
  BY LenProperties
<1> DEFINE u == [r EXCEPT ![i] = r[n]]
           t == SubSeq(u, 1, n - 1)
<1>1. i \in Nat /\ i > 0 /\ i <= n /\ Len(s) \in Nat
  BY <1>0, LenProperties
<1>2. DOMAIN r = 1 .. n /\ \A j \in 1 .. n : r[j] \in Record
  BY <1>0, LenProperties, ElementOfSeq
<1>3. /\ u \in Seq(Record) /\ Len(u) = n /\ u[i] = r[n]
      /\ \A j \in 1 .. n : j # i => u[j] = r[j]
  <2>1. r \in [1 .. n -> Record] /\ n \in 1 .. n /\ i \in 1 .. n
    BY <1>0, <1>1, <1>2
  <2>2. u \in [1 .. n -> Record]
    BY <2>1
  <2>3. u \in Seq(Record) /\ Len(u) = n
    BY <2>2
  <2>4. QED
    BY <2>1, <2>3
<1> HIDE DEF u
<1>4. t \in Seq(Record) /\ Len(t) = n - 1 /\ \A j \in 1 .. n - 1 : t[j] = u[j]
  BY <1>1, <1>3, SubSeqProperties
<1> HIDE DEF t
<1>5. \A j \in 1 .. n - 1 : j \in 1 .. n /\ j # n
  OBVIOUS
<1>6. \A j \in 1 .. n - 1 : (j = i => t[j] = r[n]) /\ (j # i => t[j] = r[j])
  BY <1>3, <1>4, <1>5
<1>7. Uniq(t)
  <2>1. Uniq(r) /\ n \in 1 .. n
    BY <1>1 DEF Thinned
  <2>2. ASSUME NEW j \in 1 .. n - 1, NEW k \in 1 .. n - 1, t[j].sub = t[k].sub PROVE j = k
    <3>1. \A a, c \in 1 .. n : r[a].sub = r[c].sub => a = c
      BY <1>0, <2>1 DEF Uniq
    <3>2. QED
      BY <1>5, <1>6, <2>1, <2>2, <3>1
  <2>3. QED
    BY <1>4, <2>2 DEF Uniq
<1>8. \A j \in 1 .. n : \E k \in 1 .. Len(s) : j <= k /\ s[k] = r[j]
  BY <1>0 DEF Thinned
<1>9. \A j \in 1 .. Len(t) : \E k \in 1 .. Len(s) : j <= k /\ s[k] = t[j]
  <2>1. TAKE j \in 1 .. Len(t)
  <2>2. CASE j = i
    <3>1. PICK k \in 1 .. Len(s) : n <= k /\ s[k] = r[n]
      BY <1>1, <1>8
    <3>2. j <= k /\ s[k] = t[j]
      BY <1>1, <1>4, <1>6, <2>2, <3>1
    <3>3. QED
      BY <3>2
  <2>3. CASE j # i
    BY <1>4, <1>5, <1>6, <1>8, <2>3
  <2>4. QED
    BY <2>2, <2>3
<1>10. ASSUME NEW k \in 1 .. Len(s), s[k].id # id PROVE \E j \in 1 .. Len(t) : t[j] = s[k]
  <2>1. PICK j \in 1 .. n : r[j] = s[k]
    BY <1>0, <1>10 DEF Thinned
  <2>2. j # i
    BY <1>10, <2>1
  <2>3. CASE j = n
    <3>1. i \in 1 .. n - 1
      BY <1>1, <2>2, <2>3
    <3>2. QED
      BY <1>4, <1>6, <2>1, <2>3, <3>1
  <2>4. CASE j # n
    <3>1. j \in 1 .. n - 1
      BY <2>4
    <3>2. QED
      BY <1>4, <1>6, <2>1, <2>2, <3>1
  <2>5. QED
    BY <2>3, <2>4
<1>11. Len(t) <= Len(s) /\ Len(t) = n - 1
  <2>1. n <= Len(s)
    BY <1>0 DEF Thinned
  <2>2. QED
    BY <1>1, <1>4, <2>1
<1>12. \A j \in 1 .. Len(t) : j < i => t[j] = r[j]
  BY <1>1, <1>4, <1>6
<1>13. Thinned(s, t, id)
  BY <1>4, <1>7, <1>9, <1>10, <1>11 DEF Thinned
<1>14. QED
  BY <1>0, <1>11, <1>12, <1>13 DEF t, u

(* Each round of the loop moves on, or shortens the table. *)
LEMMA RoundKeeps ==
  ASSUME NEW s \in Seq(Record), NEW st, NEW id, NEW k \in Nat, RoundInv(s, st, id, k)
  PROVE  RoundInv(s, Round(st, id), id, k + 1)
<1>1. st \in State /\ st.s \in Seq(Record) /\ Thinned(s, st.s, id)
  BY DEF RoundInv, State
<1>2. PICK r \in Seq(Record), i \in Nat : r = st.s /\ i = st.i
  BY <1>1 DEF State
<1>3. PICK n \in Nat, m \in Nat : n = Len(r) /\ m = Len(s)
  BY LenProperties
<1>4. /\ i > 0 /\ i <= n + 1
      /\ \A j \in 1 .. n : j < i => r[j].id # id
      /\ i > n \/ i - 1 + m - n >= k
  BY <1>2, <1>3 DEF RoundInv
<1>5. CASE i > n
  BY <1>2, <1>3, <1>5 DEF Round, RoundInv
<1>6. CASE ~ (i > n) /\ r[i].id = id
  <2> DEFINE t == SubSeq([r EXCEPT ![i] = r[Len(r)]], 1, Len(r) - 1)
  <2>1. Round(st, id) = [i |-> i, s |-> t]
    BY <1>2, <1>3, <1>6 DEF Round
  <2>2. /\ Thinned(s, t, id) /\ Len(t) = n - 1
        /\ \A j \in 1 .. Len(t) : j < i => t[j] = r[j]
    <3>1. i \in 1 .. Len(r) /\ r[i].id = id /\ Thinned(s, r, id)
      BY <1>1, <1>2, <1>3, <1>4, <1>6
    <3>2. /\ Thinned(s, t, id) /\ Len(t) = Len(r) - 1
          /\ \A j \in 1 .. Len(t) : j < i => t[j] = r[j]
      BY <3>1, Shortened
    <3> HIDE DEF t
    <3>3. QED
      BY <1>3, <3>2
  <2> HIDE DEF t
  <2>3. t \in Seq(Record)
    BY <2>2 DEF Thinned
  <2>4. [i |-> i, s |-> t] \in State /\ i \in 1 .. Len(t) + 1
    BY <1>4, <1>6, <2>2, <2>3 DEF State
  <2>5. \A j \in 1 .. Len(t) : j < i => t[j].id # id
    <3>1. \A j \in 1 .. Len(t) : j \in 1 .. n
      BY <2>2
    <3>2. QED
      BY <1>4, <2>2, <3>1
  <2>6. i - 1 + m - Len(t) >= k + 1
    BY <1>4, <1>6, <2>2
  <2>7. QED
    BY <1>3, <2>1, <2>2, <2>4, <2>5, <2>6 DEF RoundInv
<1>7. CASE ~ (i > n) /\ r[i].id # id
  <2>1. Round(st, id) = [st EXCEPT !.i = i + 1]
    BY <1>2, <1>3, <1>7 DEF Round
  <2>2. /\ Round(st, id) \in State /\ Round(st, id).i = i + 1 /\ Round(st, id).s = r
    BY <1>1, <1>2, <2>1 DEF State
  <2>3. \A j \in 1 .. n : j < i + 1 => r[j].id # id
    BY <1>4, <1>7
  <2>4. i + 1 \in 1 .. n + 1 /\ i + 1 - 1 + m - n >= k + 1
    BY <1>4, <1>7
  <2>5. QED
    BY <1>1, <1>2, <1>3, <2>2, <2>3, <2>4 DEF RoundInv
<1>8. QED
  BY <1>5, <1>6, <1>7

(* The rounds, as many as the recursion makes. *)
RoundsOf(g, s, id, n) ==
  g = [k \in 0 .. n |-> IF k = 0 THEN [i |-> 1, s |-> s] ELSE Round(g[k - 1], id)]

LEMMA RoundsExist == ASSUME NEW n \in Nat, NEW s, NEW id PROVE \E g : RoundsOf(g, s, id, n)
<1> DEFINE T == {m \in Nat : ~ \E g : RoundsOf(g, s, id, m)}
<1>1. SUFFICES ASSUME T # {} PROVE FALSE
  OBVIOUS
<1>2. T \subseteq Nat
  OBVIOUS
<1>3. PICK m \in T : \A k \in T : m <= k
  BY <1>1, <1>2, LeastOf
<1>4. m # 0
  <2>1. SUFFICES ASSUME m = 0 PROVE FALSE
    OBVIOUS
  <2>2. PICK g : g = [k \in 0 .. 0 |-> [i |-> 1, s |-> s]]
    OBVIOUS
  <2>3. RoundsOf(g, s, id, 0)
    BY <2>2 DEF RoundsOf
  <2>4. QED
    BY <2>1, <2>3
<1>5. m \in Nat /\ m - 1 \in Nat /\ m - 1 \notin T
  <2>1. m \in Nat
    BY <1>2
  <2>2. m - 1 \in Nat /\ ~ (m <= m - 1)
    BY <1>4, <2>1
  <2>3. QED
    BY <1>3, <2>1, <2>2, Zenon
<1>6. PICK g : RoundsOf(g, s, id, m - 1)
  BY <1>5
<1> DEFINE f == [k \in 0 .. m |-> IF k = 0 THEN [i |-> 1, s |-> s] ELSE Round(g[k - 1], id)]
<1>7. \A k \in 0 .. m - 1 : f[k] = g[k]
  <2>1. \A k \in 0 .. m - 1 : f[k] = IF k = 0 THEN [i |-> 1, s |-> s] ELSE Round(g[k - 1], id)
    BY <1>5
  <2>2. \A k \in 0 .. m - 1 : g[k] = IF k = 0 THEN [i |-> 1, s |-> s] ELSE Round(g[k - 1], id)
    BY <1>6 DEF RoundsOf
  <2>3. QED
    BY <2>1, <2>2
<1>8. \A k \in 0 .. m : k # 0 => k - 1 \in 0 .. m - 1
  BY <1>5
<1>9. RoundsOf(f, s, id, m)
  BY <1>7, <1>8, Zenon DEF RoundsOf
<1>10. QED
  BY <1>9

(* Unsubscribing removes every subscription of its point and no other. *)
LEMMA WithoutThins ==
  ASSUME NEW s \in Seq(Record), Uniq(s), NEW id
  PROVE  /\ Thinned(s, Without(s, id), id)
         /\ \A j \in 1 .. Len(Without(s, id)) : Without(s, id)[j].id # id
<1> DEFINE n == Len(s)
<1>1. n \in Nat
  BY LenProperties
<1>2. PICK g : g = CHOOSE f : RoundsOf(f, s, id, n)
  OBVIOUS
<1>3. RoundsOf(g, s, id, n)
  BY <1>1, <1>2, RoundsExist
<1>4. Without(s, id) = g[n].s
  BY <1>2, Zenon DEF Without, RoundsOf
<1>5. /\ g[0] = [i |-> 1, s |-> s]
      /\ \A k \in 0 .. n : k # 0 => g[k] = Round(g[k - 1], id)
  BY <1>1, <1>3 DEF RoundsOf
<1>6. RoundInv(s, g[0], id, 0)
  <2>1. [i |-> 1, s |-> s] \in State /\ 1 \in 1 .. n + 1
    BY <1>1 DEF State
  <2>2. Thinned(s, s, id)
    BY <1>1 DEF Thinned
  <2>3. 1 > n \/ 1 - 1 + n - n >= 0
    BY <1>1
  <2>4. QED
    BY <1>1, <1>5, <2>1, <2>2, <2>3 DEF RoundInv
<1> DEFINE T == {m \in 0 .. n : ~ RoundInv(s, g[m], id, m)}
<1>7. T = {}
  <2>1. SUFFICES ASSUME T # {} PROVE FALSE
    OBVIOUS
  <2>2. T \subseteq Nat
    OBVIOUS
  <2>3. PICK m \in T : \A k \in T : m <= k
    BY <2>1, <2>2, LeastOf
  <2>4. m \in 0 .. n /\ m # 0 /\ ~ RoundInv(s, g[m], id, m)
    BY <1>6, <2>3
  <2>5. m - 1 \in 0 .. n /\ m - 1 \in Nat /\ ~ (m <= m - 1) /\ m - 1 + 1 = m
    BY <1>1, <2>4
  <2>6. RoundInv(s, g[m - 1], id, m - 1)
    BY <2>3, <2>5
  <2>7. RoundInv(s, Round(g[m - 1], id), id, m - 1 + 1)
    BY <2>5, <2>6, RoundKeeps
  <2>8. QED
    BY <1>5, <2>4, <2>5, <2>7
<1>8. RoundInv(s, g[n], id, n)
  BY <1>1, <1>7
<1>9. /\ Thinned(s, g[n].s, id) /\ Len(g[n].s) \in Nat /\ g[n].i \in Nat
      /\ g[n].i > Len(g[n].s) \/ g[n].i - 1 + n - Len(g[n].s) >= n
      /\ \A j \in 1 .. Len(g[n].s) : j < g[n].i => g[n].s[j].id # id
  BY <1>8, LenProperties DEF RoundInv, State
<1>10. \A j \in 1 .. Len(g[n].s) : j < g[n].i
  BY <1>1, <1>9
<1>11. QED
  BY <1>4, <1>9, <1>10
-----------------------------------------------------------------------------
(* The callbacks of the first slots of a table. *)
Front(s, i) == {s[k].sub : k \in {j \in 1 .. Len(s) : j <= i}}

LEMMA FrontSize ==
  ASSUME NEW s \in Seq(Record), NEW i \in Nat
  PROVE  /\ IsFiniteSet(Front(s, i)) /\ Cardinality(Front(s, i)) \in Nat
         /\ Cardinality(Front(s, i)) <= i /\ Cardinality(Front(s, i)) <= Len(s)
         /\ Uniq(s) => Cardinality(Front(s, i)) = Least(i, Len(s))
<1>1. PICK n \in Nat : n = Len(s)
  BY LenProperties
<1>2. PICK m \in Nat : m = Least(i, n)
  BY DEF Least
<1>3. m <= i /\ m <= n
  BY <1>2 DEF Least
<1>4. {j \in 1 .. n : j <= i} = 1 .. m
  BY <1>2 DEF Least
<1> DEFINE F == Front(s, i)
           f == [j \in 1 .. m |-> s[j].sub]
<1>5. F = {s[k].sub : k \in 1 .. m}
  BY <1>1, <1>4 DEF Front
<1>6. f \in Surjection(1 .. m, F)
  BY <1>5 DEF Surjection
<1>7. IsFiniteSet(1 .. m) /\ Cardinality(1 .. m) = m
  <2>1. 1 \in Int /\ m \in Int /\ (~ (1 > m) \/ m = 0)
    OBVIOUS
  <2>2. QED
    BY <2>1, FS_Interval
<1> HIDE DEF F, f
<1>8. /\ IsFiniteSet(F) /\ Cardinality(F) <= m
      /\ Cardinality(F) = m <=> f \in Injection(1 .. m, F)
  BY <1>6, <1>7, FS_Surjection
<1>9. Cardinality(F) \in Nat
  BY <1>8, FS_CardinalityType
<1>10. ASSUME Uniq(s) PROVE f \in Injection(1 .. m, F)
  <2>1. f \in [1 .. m -> F]
    BY <1>6 DEF Surjection
  <2>2. \A a, b \in 1 .. m : a \in 1 .. n /\ b \in 1 .. n
    BY <1>3
  <2>3. \A a, b \in 1 .. m : f[a] = f[b] => a = b
    BY <1>1, <1>10, <2>2 DEF Uniq, f
  <2>4. QED
    BY <2>1, <2>3 DEF Injection, IsInjective
<1>11. QED
  BY <1>1, <1>2, <1>3, <1>8, <1>9, <1>10 DEF F

LEMMA FrontHas ==
  ASSUME NEW s, NEW i, NEW k \in 1 .. Len(s), k <= i
  PROVE  s[k].sub \in Front(s, i)
  BY DEF Front

LEMMA FrontIs ==
  ASSUME NEW s, NEW i, NEW x \in Front(s, i)
  PROVE  \E k \in 1 .. Len(s) : k <= i /\ s[k].sub = x
  BY DEF Front

(* A subscription that stays is not found behind where it was. *)
LEMMA StaysBefore ==
  ASSUME NEW s \in Seq(Record), NEW r, NEW id, Uniq(s), Thinned(s, r, id),
         NEW k \in 1 .. Len(s), s[k].id # id
  PROVE  \E j \in 1 .. Len(r) : j <= k /\ r[j] = s[k]
<1>1. PICK j \in 1 .. Len(r) : r[j] = s[k]
  BY DEF Thinned
<1>2. PICK l \in 1 .. Len(s) : j <= l /\ s[l] = r[j]
  BY DEF Thinned
<1>3. l = k
  BY <1>1, <1>2 DEF Uniq
<1>4. QED
  BY <1>1, <1>2, <1>3

LEMMA StaysFront ==
  ASSUME NEW s \in Seq(Record), NEW r, NEW id, Uniq(s), Thinned(s, r, id), NEW i \in Nat,
         NEW k \in 1 .. Len(s), s[k].id # id, k <= i
  PROVE  s[k].sub \in Front(r, i)
<1>1. PICK j \in 1 .. Len(r) : j <= k /\ r[j] = s[k]
  BY StaysBefore
<1>2. Len(r) \in Nat /\ Len(s) \in Nat
  BY LenProperties DEF Thinned
<1>3. j <= i
  BY <1>1, <1>2
<1>4. QED
  BY <1>1, <1>3, FrontHas

(* No more subscriptions come to the front than were cancelled there. *)
GoneBy(s, id, i) == {k \in 1 .. Len(s) : s[k].id = id /\ k <= i}
LEMMA FrontMoves ==
  ASSUME NEW s \in Seq(Record), NEW r, NEW id, Uniq(s), Thinned(s, r, id), NEW i \in Nat
  PROVE  /\ IsFiniteSet(Front(r, i) \ Front(s, i))
         /\ Cardinality(GoneBy(s, id, i)) \in Nat
         /\ Cardinality(Front(r, i) \ Front(s, i)) <= Cardinality(GoneBy(s, id, i))
<1> DEFINE gone == GoneBy(s, id, i)
           F == Front(s, i)
           E == Front(r, i)
           G == {s[k].sub : k \in gone}
           g == [k \in gone |-> s[k].sub]
<1>1. r \in Seq(Record) /\ Uniq(r) /\ Len(r) <= Len(s) /\ Len(r) \in Nat /\ Len(s) \in Nat
  BY LenProperties DEF Thinned
<1>2. /\ IsFiniteSet(E) /\ IsFiniteSet(F) /\ Cardinality(E) \in Nat /\ Cardinality(F) \in Nat
      /\ Cardinality(E) <= Cardinality(F)
  <2>1. /\ IsFiniteSet(E) /\ IsFiniteSet(F)
        /\ Cardinality(E) = Least(i, Len(r)) /\ Cardinality(F) = Least(i, Len(s))
    BY <1>1, FrontSize
  <2>2. /\ Least(i, Len(r)) \in Nat /\ Least(i, Len(s)) \in Nat
        /\ Least(i, Len(r)) <= Least(i, Len(s))
    BY <1>1 DEF Least
  <2>3. QED
    BY <2>1, <2>2
<1>3. IsFiniteSet(gone) /\ Cardinality(gone) \in Nat
  <2>1. IsFiniteSet(1 .. Len(s)) /\ gone \in SUBSET (1 .. Len(s))
    BY <1>1, FS_Interval DEF GoneBy
  <2>2. QED
    BY <2>1, FS_Subset, FS_CardinalityType
<1>4. g \in Surjection(gone, G)
  BY DEF Surjection
<1>5. F \ E \subseteq G
  <2>1. SUFFICES ASSUME NEW x \in F, x \notin E PROVE x \in G
    OBVIOUS
  <2>2. PICK k \in 1 .. Len(s) : k <= i /\ s[k].sub = x
    BY FrontIs
  <2>3. s[k].id = id
    BY <2>1, <2>2, StaysFront
  <2>4. QED
    BY <2>2, <2>3 DEF GoneBy
<1> HIDE DEF gone, E, F, G, g
<1>6. IsFiniteSet(G) /\ Cardinality(G) <= Cardinality(gone) /\ Cardinality(G) \in Nat
  BY <1>3, <1>4, FS_Surjection, FS_CardinalityType
<1>7. Cardinality(F \ E) <= Cardinality(G)
  BY <1>5, <1>6, FS_Subset
<1>8. /\ IsFiniteSet(E \ F) /\ Cardinality(E \ F) = Cardinality(E) - Cardinality(E \cap F)
      /\ IsFiniteSet(F \ E) /\ Cardinality(F \ E) = Cardinality(F) - Cardinality(F \cap E)
  BY <1>2, FS_Difference
<1>9. E \cap F = F \cap E /\ Cardinality(E \cap F) \in Nat
  BY <1>2, FS_Intersection, FS_CardinalityType
<1>10. Cardinality(E \ F) <= Cardinality(F \ E)
  <2>1. PICK e \in Nat, d \in Nat, c \in Nat :
          e = Cardinality(E) /\ d = Cardinality(F) /\ c = Cardinality(E \cap F)
    BY <1>2, <1>9
  <2>2. Cardinality(E \ F) = e - c /\ Cardinality(F \ E) = d - c /\ e <= d
    BY <1>2, <1>8, <1>9, <2>1, Zenon
  <2>3. QED
    BY <2>2
<1>11. Cardinality(E \ F) \in Nat /\ Cardinality(F \ E) \in Nat
  BY <1>8, FS_CardinalityType
<1>12. QED
  BY <1>3, <1>6, <1>7, <1>8, <1>10, <1>11 DEF gone, E, F

-----------------------------------------------------------------------------
(* A notification under way over the table s.  Those it is to call are in     *)
(* the slots it began with; those it called, and those it missed, are in the  *)
(* slots it has passed.                                                       *)
Passed(f) == IF f.in THEN f.i ELSE f.i - 1
Missed(f, s) == Front(s, Passed(f)) \cap (f.due \ f.called)
FrameInv(f, s) ==
  /\ f.id + f.rest \in Points
  /\ f.in => f.i <= f.n
  /\ \A x \in f.due : \E k \in 1 .. Len(s) : k <= f.n /\ s[k].sub = x /\ s[k].id = f.id
  /\ f.called \subseteq Front(s, Passed(f))
  /\ Cardinality(Missed(f, s)) <= f.cancelled

LEMMA FrameFields ==
  ASSUME NEW f \in Frames
  PROVE  /\ f.h \in Handles /\ f.id \in Points /\ f.id \in Nat
         /\ f.n \in Nat /\ f.n <= MaxCallbacks
         /\ f.i \in Nat /\ f.i > 0 /\ f.i <= MaxCallbacks + 1 /\ f.in \in BOOLEAN
         /\ f.rest \in Nat /\ f.rest <= Cardinality(Points)
         /\ f.due \subseteq Subs /\ f.called \subseteq Subs
         /\ f.cancelled \in Nat /\ f.cancelled <= MaxCallbacks
         /\ Passed(f) \in Nat
<1>1. /\ f.h \in Handles /\ f.id \in Points /\ f.n \in 0 .. MaxCallbacks
      /\ f.i \in 1 .. MaxCallbacks + 1 /\ f.in \in BOOLEAN /\ f.rest \in 0 .. Cardinality(Points)
      /\ f.due \subseteq Subs /\ f.called \subseteq Subs /\ f.cancelled \in 0 .. MaxCallbacks
  BY DEF Frames
<1>2. f.i \in Nat /\ f.i - 1 \in Nat
  BY <1>1, Constants
<1>3. Passed(f) \in Nat
  BY <1>1, <1>2 DEF Passed
<1>4. f.id \in Nat
  BY <1>1, Constants
<1>5. f.i <= MaxCallbacks + 1 /\ f.i > 0 /\ f.n \in Nat /\ f.n <= MaxCallbacks
  BY <1>1, Constants
<1>6. f.cancelled \in Nat /\ f.cancelled <= MaxCallbacks
  BY <1>1, Constants
<1>7. f.rest \in Nat /\ f.rest <= Cardinality(Points)
  <2>1. Cardinality(Points) \in Nat
    BY Constants
  <2>2. QED
    BY <1>1, <2>1
<1>8. QED
  BY <1>1, <1>2, <1>3, <1>4, <1>5, <1>6, <1>7

LEMMA FrameZeroed ==
  ASSUME NEW f \in Frames, \E s : FrameInv(f, s)
  PROVE  LET g == [f EXCEPT !.due = {}, !.called = {}] IN
         /\ g \in Frames /\ g.h = f.h /\ g.in = f.in /\ FrameInv(g, <<>>)
<1> DEFINE g == [f EXCEPT !.due = {}, !.called = {}]
<1>1. \A D, C \in SUBSET Subs : LET e == [f EXCEPT !.due = D, !.called = C] IN
        /\ e \in Frames /\ e.h = f.h /\ e.id = f.id /\ e.n = f.n /\ e.i = f.i /\ e.in = f.in
        /\ e.rest = f.rest /\ e.due = D /\ e.called = C /\ e.cancelled = f.cancelled
  BY DEF Frames
<1>2. {} \in SUBSET Subs
  OBVIOUS
<1>3. /\ g \in Frames /\ g.h = f.h /\ g.id = f.id /\ g.n = f.n /\ g.i = f.i /\ g.in = f.in
      /\ g.rest = f.rest /\ g.due = {} /\ g.called = {} /\ g.cancelled = f.cancelled
  BY <1>1, <1>2
<1> HIDE DEF g
<1>4. Missed(g, <<>>) = {}
  BY <1>3 DEF Missed
<1>5. Cardinality(Missed(g, <<>>)) <= g.cancelled
  <2>1. Cardinality({}) = 0 /\ f.cancelled \in Nat
    BY FS_EmptySet, FrameFields
  <2>2. Cardinality(Missed(g, <<>>)) = 0 /\ g.cancelled = f.cancelled
    BY <1>3, <1>4, <2>1, Zenon
  <2>3. QED
    BY <2>1, <2>2
<1>6. f.id + f.rest \in Points /\ (f.in => f.i <= f.n)
  BY DEF FrameInv
<1>7. FrameInv(g, <<>>)
  BY <1>3, <1>5, <1>6 DEF FrameInv
<1>8. QED
  BY <1>3, <1>7 DEF g

(* What the cancellations of irt_sub_unsubscribe leave of a notification.     *)
LEMMA CancelledKeeps ==
  ASSUME NEW h \in Handles, NEW id \in Points, NEW f \in Frames, f.in, f.h = h,
         slots[h] \in Seq(Record), Uniq(slots[h]), Len(slots[h]) <= MaxCallbacks,
         FrameInv(f, slots[h])
  PROVE  /\ Cancelled(f, h, id) \in Frames /\ Cancelled(f, h, id).h = h /\ Cancelled(f, h, id).in
         /\ FrameInv(Cancelled(f, h, id), Without(slots[h], id))
<1>1. PICK s \in Seq(Record) : s = slots[h]
  OBVIOUS
<1>2. PICK r : r = Without(s, id)
  OBVIOUS
<1>3. Uniq(s) /\ Thinned(s, r, id) /\ \A j \in 1 .. Len(r) : r[j].id # id
  BY <1>1, <1>2, WithoutThins
<1> DEFINE gone == {k \in 1 .. Len(s) : s[k].id = id}
           G == {s[k].sub : k \in gone}
           c == Cardinality({k \in gone : k <= f.i})
           g == Cancelled(f, h, id)
<1>4. /\ f.i \in Nat /\ f.due \subseteq Subs /\ f.called \subseteq Subs /\ f.cancelled \in Nat
      /\ f.cancelled <= MaxCallbacks /\ MaxCallbacks \in Nat /\ f.n \in Nat
  BY FrameFields, Constants
<1>5. g = [f EXCEPT !.due = f.due \ G, !.called = f.called \ G,
                    !.cancelled = Least(f.cancelled + c, MaxCallbacks)]
  BY <1>1 DEF Cancelled
<1> DEFINE E == Front(r, f.i)
           F == Front(s, f.i)
<1>6. IsFiniteSet(E \ F) /\ c \in Nat /\ Cardinality(E \ F) <= c
  <2>1. {k \in gone : k <= f.i} = GoneBy(s, id, f.i)
    BY DEF GoneBy
  <2>2. QED
    BY <1>3, <1>4, <2>1, FrontMoves
<1>7. /\ Least(f.cancelled + c, MaxCallbacks) \in 0 .. MaxCallbacks
      /\ f.due \ G \in SUBSET Subs /\ f.called \ G \in SUBSET Subs
  BY <1>4, <1>6 DEF Least
<1>8. /\ g \in Frames /\ g.h = f.h /\ g.id = f.id /\ g.n = f.n /\ g.i = f.i /\ g.in = f.in
      /\ g.rest = f.rest /\ g.due = f.due \ G /\ g.called = f.called \ G
      /\ g.cancelled = Least(f.cancelled + c, MaxCallbacks)
  <2>1. PICK D \in SUBSET Subs, C \in SUBSET Subs, v \in 0 .. MaxCallbacks :
          D = f.due \ G /\ C = f.called \ G /\ v = Least(f.cancelled + c, MaxCallbacks)
    BY <1>7
  <2>2. g = [f EXCEPT !.due = D, !.called = C, !.cancelled = v]
    BY <1>5, <2>1
  <2> HIDE DEF g, G, c
  <2>3. /\ g \in Frames /\ g.h = f.h /\ g.id = f.id /\ g.n = f.n /\ g.i = f.i /\ g.in = f.in
        /\ g.rest = f.rest /\ g.due = D /\ g.called = C /\ g.cancelled = v
    BY <2>2 DEF Frames
  <2>4. QED
    BY <2>1, <2>3
<1>9. Passed(f) = f.i /\ Passed(g) = f.i
  BY <1>8 DEF Passed
<1>10. ASSUME NEW k \in 1 .. Len(s), s[k].sub \notin G PROVE s[k].id # id
  BY <1>10
<1> HIDE DEF g
<1>11. ASSUME NEW x \in g.due PROVE \E j \in 1 .. Len(r) : j <= g.n /\ r[j].sub = x /\ r[j].id = g.id
  <2>1. x \in f.due /\ x \notin G
    BY <1>8
  <2>2. PICK k \in 1 .. Len(s) : k <= f.n /\ s[k].sub = x /\ s[k].id = f.id
    BY <1>1, <2>1 DEF FrameInv
  <2>3. s[k].id # id
    BY <1>10, <2>1, <2>2
  <2>4. PICK j \in 1 .. Len(r) : j <= k /\ r[j] = s[k]
    BY <1>3, <2>3, StaysBefore
  <2>5. Len(r) \in Nat /\ Len(s) \in Nat
    BY <1>3, LenProperties DEF Thinned
  <2>6. j <= f.n
    BY <1>4, <2>2, <2>4, <2>5
  <2>7. QED
    BY <1>8, <2>2, <2>4, <2>6
<1>12. g.called \subseteq Front(r, Passed(g))
  <2>1. SUFFICES ASSUME NEW x \in f.called, x \notin G PROVE x \in E
    BY <1>8, <1>9
  <2>2. x \in F
    BY <1>1, <1>9, <2>1 DEF FrameInv
  <2>3. PICK k \in 1 .. Len(s) : k <= f.i /\ s[k].sub = x
    BY <2>2, FrontIs
  <2>4. s[k].id # id
    BY <1>10, <2>1, <2>3
  <2>5. QED
    BY <1>3, <1>4, <2>3, <2>4, StaysFront
<1> DEFINE M == Missed(f, s)
           N == Missed(g, r)
<1> HIDE DEF G, c
<1>13. N \subseteq M \cup (E \ F) /\ N \subseteq E /\ M \subseteq F
  BY <1>8, <1>9 DEF Missed
<1>14. /\ IsFiniteSet(E) /\ IsFiniteSet(F) /\ Cardinality(E) \in Nat /\ Cardinality(E) <= MaxCallbacks
  <2>1. r \in Seq(Record) /\ Len(r) \in Nat /\ Len(s) \in Nat /\ Len(r) <= Len(s)
    BY <1>3, LenProperties DEF Thinned
  <2>2. /\ IsFiniteSet(E) /\ IsFiniteSet(F) /\ Cardinality(E) \in Nat /\ Cardinality(E) <= Len(r)
    BY <1>4, <2>1, FrontSize
  <2>3. QED
    BY <1>1, <1>4, <2>1, <2>2
<1> HIDE DEF E, F, M, N
<1>15. IsFiniteSet(M) /\ IsFiniteSet(N) /\ Cardinality(M) \in Nat /\ Cardinality(N) \in Nat
       /\ Cardinality(N) <= Cardinality(E)
  BY <1>13, <1>14, FS_Subset, FS_CardinalityType
<1>16. Cardinality(M) <= f.cancelled
  BY <1>1 DEF FrameInv, M
<1>17. Cardinality(N) <= Cardinality(M) + Cardinality(E \ F)
  <2>1. /\ IsFiniteSet(M \cup (E \ F)) /\ Cardinality(M \cap (E \ F)) \in Nat
        /\ Cardinality(M \cup (E \ F)) = Cardinality(M) + Cardinality(E \ F) - Cardinality(M \cap (E \ F))
    BY <1>6, <1>15, FS_Union, FS_Intersection, FS_CardinalityType
  <2>2. Cardinality(N) <= Cardinality(M \cup (E \ F))
    BY <1>13, <2>1, FS_Subset
  <2>3. Cardinality(E \ F) \in Nat
    BY <1>6, FS_CardinalityType
  <2>4. PICK a \in Nat, b \in Nat, d \in Nat :
          a = Cardinality(M) /\ b = Cardinality(E \ F) /\ d = Cardinality(M \cap (E \ F))
    BY <1>15, <2>1, <2>3
  <2>5. Cardinality(N) <= a + b - d
    BY <2>1, <2>2, <2>4, Zenon
  <2>6. Cardinality(N) <= a + b
    BY <1>15, <2>5
  <2>7. QED
    BY <2>4, <2>6
<1>18. Cardinality(N) <= g.cancelled
  <2>1. Cardinality(E \ F) \in Nat
    BY <1>6, FS_CardinalityType
  <2>2. Cardinality(N) <= f.cancelled + c /\ Cardinality(N) <= MaxCallbacks
    BY <1>4, <1>6, <1>14, <1>15, <1>16, <1>17, <2>1
  <2>3. QED
    BY <1>8, <2>2 DEF Least
<1>19. f.id + f.rest \in Points /\ f.i <= f.n
  BY DEF FrameInv
<1>20. FrameInv(g, r)
  BY <1>8, <1>11, <1>12, <1>18, <1>19 DEF FrameInv, N
<1>21. QED
  BY <1>1, <1>2, <1>8, <1>20 DEF g

(* A new subscription is behind every slot, and its callback is not waited for. *)
LEMMA AppendKeeps ==
  ASSUME NEW s \in Seq(Record), NEW x \in Record, NEW f \in Frames, FrameInv(f, s),
         \A k \in 1 .. Len(s) : s[k].sub # x.sub
  PROVE  FrameInv(f, Append(s, x))
<1>1. PICK n \in Nat : n = Len(s)
  BY LenProperties
<1>2. PICK r : r = Append(s, x)
  OBVIOUS
<1>3. r \in Seq(Record) /\ Len(r) = n + 1 /\ r[n + 1] = x /\ \A k \in 1 .. n : r[k] = s[k]
  BY <1>1, <1>2, AppendProperties
<1>4. \A k \in 1 .. n : k \in 1 .. n + 1
  OBVIOUS
<1>5. \A k \in 1 .. n + 1 : k \in 1 .. n \/ k = n + 1
  OBVIOUS
<1>6. Front(s, Passed(f)) \subseteq Front(r, Passed(f))
  BY <1>1, <1>3, <1>4 DEF Front
<1>7. Front(r, Passed(f)) \subseteq Front(s, Passed(f)) \cup {x.sub}
  BY <1>1, <1>3, <1>5 DEF Front
<1>8. x.sub \notin f.due
  BY DEF FrameInv
<1>9. Missed(f, r) = Missed(f, s)
  BY <1>6, <1>7, <1>8 DEF Missed
<1>10. \A y \in f.due : \E k \in 1 .. Len(r) : k <= f.n /\ r[k].sub = y /\ r[k].id = f.id
  <2>1. TAKE y \in f.due
  <2>2. PICK k \in 1 .. n : k <= f.n /\ s[k].sub = y /\ s[k].id = f.id
    BY <1>1 DEF FrameInv
  <2>3. QED
    BY <1>3, <1>4, <2>2
<1>11. QED
  BY <1>2, <1>6, <1>9, <1>10 DEF FrameInv

(* A notification begins. *)
LEMMA NotifyKeeps ==
  ASSUME NEW h \in Handles, NEW id \in Points, NEW rest \in Nat, id + rest \in Points,
         rest <= Cardinality(Points),
         slots[h] \in Seq(Record), Len(slots[h]) <= MaxCallbacks
  PROVE  LET f == Notify(h, id, rest) IN
         f \in Frames /\ f.h = h /\ FrameInv(f, slots[h])
<1>1. PICK s \in Seq(Record) : s = slots[h]
  OBVIOUS
<1>2. PICK n \in Nat : n = Len(s)
  BY LenProperties
<1>3. \A k \in 1 .. n : s[k] \in Record
  BY <1>2, ElementOfSeq
<1> DEFINE D == {x.sub : x \in {y \in SlotSet(h) : y.id = id}}
<1>4. D \subseteq Subs /\ \A x \in D : \E k \in 1 .. n : s[k].sub = x /\ s[k].id = id
  <2>1. \A x \in D : \E k \in 1 .. n : s[k].sub = x /\ s[k].id = id
    BY <1>1, <1>2 DEF SlotSet
  <2>2. \A k \in 1 .. n : s[k].sub \in Subs
    BY <1>3 DEF Record
  <2>3. QED
    BY <2>1, <2>2
<1> HIDE DEF D
<1>5. PICK f : f = [h |-> h, id |-> id, n |-> n, i |-> 1, in |-> FALSE, rest |-> rest,
                    due |-> D, called |-> {}, cancelled |-> 0]
  OBVIOUS
<1>6. f = Notify(h, id, rest)
  BY <1>1, <1>2, <1>5 DEF Notify, D
<1>7. f \in Frames
  <2>1. n \in 0 .. MaxCallbacks /\ 1 \in 1 .. MaxCallbacks + 1 /\ rest \in 0 .. Cardinality(Points)
        /\ 0 \in 0 .. MaxCallbacks
    BY <1>1, <1>2, Constants
  <2>2. QED
    BY <1>4, <1>5, <2>1 DEF Frames
<1>8. Passed(f) = 0 /\ f.h = h /\ f.due = D /\ f.called = {} /\ f.cancelled = 0 /\ f.n = n
      /\ f.id = id /\ f.rest = rest /\ f.in = FALSE
  BY <1>5 DEF Passed
<1>9. Missed(f, s) = {}
  BY <1>8 DEF Missed, Front
<1>10. Cardinality(Missed(f, s)) = 0
  BY <1>9, FS_EmptySet, Zenon
<1>11. FrameInv(f, s)
  BY <1>2, <1>4, <1>8, <1>10 DEF FrameInv
<1>12. QED
  BY <1>1, <1>6, <1>7, <1>8, <1>11

(* The rounds of a notification. *)
(* The slot passed over is not one that is due. *)
LEMMA SkipKeeps ==
  ASSUME NEW s \in Seq(Record), Uniq(s), NEW f \in Frames, ~ f.in, f.i <= f.n, FrameInv(f, s),
         ~ (f.i <= Len(s) /\ s[f.i].id = f.id)
  PROVE  LET g == [f EXCEPT !.i = f.i + 1] IN
         g \in Frames /\ g.h = f.h /\ g.in = f.in /\ FrameInv(g, s)
<1>1. /\ f.i \in Nat /\ f.i > 0 /\ f.n \in Nat /\ f.n <= MaxCallbacks /\ f.in \in BOOLEAN
      /\ MaxCallbacks \in Nat
  BY FrameFields, Constants
<1>2. PICK i : i = f.i + 1
  OBVIOUS
<1>3. i \in 1 .. MaxCallbacks + 1
  BY <1>1, <1>2
<1>4. PICK g : g = [f EXCEPT !.i = i]
  OBVIOUS
<1>5. /\ g \in Frames /\ g.h = f.h /\ g.id = f.id /\ g.n = f.n /\ g.i = i /\ g.in = f.in
      /\ g.rest = f.rest /\ g.due = f.due /\ g.called = f.called /\ g.cancelled = f.cancelled
  BY <1>3, <1>4 DEF Frames
<1>6. Passed(f) = f.i - 1 /\ Passed(g) = f.i
  BY <1>1, <1>2, <1>5 DEF Passed
<1>7. \A j \in 1 .. Len(s) : j <= f.i <=> (j <= f.i - 1 \/ j = f.i)
  BY <1>1, LenProperties
<1>8. Front(s, Passed(f)) \subseteq Front(s, Passed(g))
  BY <1>6, <1>7 DEF Front
<1>9. ASSUME NEW x \in Missed(g, s) PROVE x \in Missed(f, s)
  <2>1. PICK k \in 1 .. Len(s) : k <= f.i /\ s[k].sub = x
    BY <1>6, FrontIs DEF Missed
  <2>2. x \in f.due /\ x \notin f.called
    BY <1>5 DEF Missed
  <2>3. PICK l \in 1 .. Len(s) : s[l].sub = x /\ s[l].id = f.id
    BY <2>2 DEF FrameInv
  <2>4. l = k
    BY <2>1, <2>3 DEF Uniq
  <2>5. k # f.i
    <3>1. ASSUME k = f.i PROVE FALSE
      <4>1. k <= Len(s)
        BY LenProperties
      <4>2. QED
        BY <2>3, <2>4, <3>1, <4>1
    <3>2. QED
      BY <3>1
  <2>6. x \in Front(s, Passed(f))
    BY <1>6, <1>7, <2>1, <2>5, FrontHas
  <2>7. QED
    BY <2>2, <2>6 DEF Missed
<1>10. Missed(g, s) = Missed(f, s)
  BY <1>5, <1>8, <1>9 DEF Missed
<1>11. FrameInv(g, s)
  BY <1>5, <1>8, <1>10 DEF FrameInv
<1>12. QED
  BY <1>2, <1>4, <1>5, <1>11

(* The slot that matches is called, and not missed. *)
LEMMA CallKeeps ==
  ASSUME NEW s \in Seq(Record), NEW f \in Frames, ~ f.in, f.i <= f.n, FrameInv(f, s), f.i <= Len(s)
  PROVE  LET g == [f EXCEPT !.in = TRUE, !.called = f.called \cup {s[f.i].sub}] IN
         g \in Frames /\ g.h = f.h /\ FrameInv(g, s)
<1>1. /\ f.i \in Nat /\ f.i > 0 /\ f.called \subseteq Subs /\ f.cancelled \in Nat
      /\ Len(s) \in Nat /\ f.i \in 1 .. Len(s)
  BY FrameFields, LenProperties
<1>2. PICK x \in Subs : x = s[f.i].sub
  <2>1. s[f.i] \in Record
    BY <1>1, ElementOfSeq
  <2>2. QED
    BY <2>1 DEF Record
<1>3. PICK C \in SUBSET Subs : C = f.called \cup {x}
  BY <1>1
<1>4. PICK g : g = [f EXCEPT !.in = TRUE, !.called = C]
  OBVIOUS
<1>5. \A b \in BOOLEAN : LET e == [f EXCEPT !.in = b, !.called = C] IN
        /\ e \in Frames /\ e.h = f.h /\ e.id = f.id /\ e.n = f.n /\ e.i = f.i /\ e.in = b
        /\ e.rest = f.rest /\ e.due = f.due /\ e.called = C /\ e.cancelled = f.cancelled
  BY DEF Frames
<1>6. /\ g \in Frames /\ g.h = f.h /\ g.id = f.id /\ g.n = f.n /\ g.i = f.i /\ g.in = TRUE
      /\ g.rest = f.rest /\ g.due = f.due /\ g.called = C /\ g.cancelled = f.cancelled
  BY <1>4, <1>5
<1>7. Passed(f) = f.i - 1 /\ Passed(g) = f.i /\ Passed(f) \in Nat
  BY <1>1, <1>6 DEF Passed
<1>8. \A j \in 1 .. Len(s) : j <= f.i <=> (j <= f.i - 1 \/ j = f.i)
  BY <1>1
<1>9. Front(s, Passed(g)) = Front(s, Passed(f)) \cup {x}
  BY <1>1, <1>2, <1>7, <1>8 DEF Front
<1>10. Missed(g, s) \subseteq Missed(f, s)
  BY <1>3, <1>6, <1>9 DEF Missed
<1>11. Cardinality(Missed(g, s)) <= g.cancelled
  <2>1. IsFiniteSet(Missed(f, s))
    <3>1. IsFiniteSet(Front(s, Passed(f)))
      BY <1>7, FrontSize
    <3>2. QED
      BY <3>1, FS_Intersection DEF Missed
  <2>2. Cardinality(Missed(g, s)) <= Cardinality(Missed(f, s)) /\ Cardinality(Missed(f, s)) \in Nat
        /\ Cardinality(Missed(g, s)) \in Nat
    BY <1>10, <2>1, FS_Subset, FS_CardinalityType
  <2>3. Cardinality(Missed(f, s)) <= f.cancelled
    BY DEF FrameInv
  <2>4. QED
    BY <1>1, <1>6, <2>2, <2>3
<1>12. g.called \subseteq Front(s, Passed(g))
  BY <1>3, <1>6, <1>9 DEF FrameInv
<1>13. FrameInv(g, s)
  BY <1>6, <1>11, <1>12 DEF FrameInv
<1>14. QED
  BY <1>2, <1>3, <1>4, <1>6, <1>13

LEMMA ReturnKeeps ==
  ASSUME NEW s \in Seq(Record), NEW f \in Frames, f.in, FrameInv(f, s)
  PROVE  LET g == [f EXCEPT !.in = FALSE, !.i = f.i + 1] IN
         g \in Frames /\ g.h = f.h /\ FrameInv(g, s)
<1>1. /\ f.i \in Nat /\ f.i > 0 /\ f.n \in Nat /\ f.n <= MaxCallbacks /\ MaxCallbacks \in Nat
      /\ f.i <= f.n
  BY FrameFields, Constants DEF FrameInv
<1>2. PICK i : i = f.i + 1
  OBVIOUS
<1>3. i \in 1 .. MaxCallbacks + 1
  BY <1>1, <1>2
<1>4. PICK g : g = [f EXCEPT !.in = FALSE, !.i = i]
  OBVIOUS
<1>5. \A b \in BOOLEAN : LET e == [f EXCEPT !.in = b, !.i = i] IN
        /\ e \in Frames /\ e.h = f.h /\ e.id = f.id /\ e.n = f.n /\ e.i = i /\ e.in = b
        /\ e.rest = f.rest /\ e.due = f.due /\ e.called = f.called /\ e.cancelled = f.cancelled
  BY <1>3 DEF Frames
<1>6. /\ g \in Frames /\ g.h = f.h /\ g.id = f.id /\ g.n = f.n /\ g.i = i /\ g.in = FALSE
      /\ g.rest = f.rest /\ g.due = f.due /\ g.called = f.called /\ g.cancelled = f.cancelled
  BY <1>4, <1>5
<1>7. Passed(f) = f.i /\ Passed(g) = f.i
  BY <1>1, <1>2, <1>6 DEF Passed
<1>8. Missed(g, s) = Missed(f, s)
  BY <1>6, <1>7 DEF Missed
<1>9. FrameInv(g, s)
  BY <1>6, <1>7, <1>8 DEF FrameInv
<1>10. QED
  BY <1>2, <1>4, <1>6, <1>9

-----------------------------------------------------------------------------
(* The table is the set of subscriptions, each has a callback of its own, and *)
(* a handle that is not open has none.  A caller's handle has its bit.  The   *)
(* callbacks of all the notifications but the innermost are running.          *)
TableInv == \A h \in Handles : /\ Uniq(slots[h]) /\ SlotSet(h) = subs[h]
                               /\ opened[h] \/ slots[h] = <<>>
MaskInv == crowded \/ \A h \in Handles :
             /\ holders[h] <= 1
             /\ holders[h] > 0 => h < MaskBits /\ h \in mask
StackInv == \A k \in 1 .. Len(stack) : /\ FrameInv(stack[k], slots[stack[k].h])
                                       /\ k < Len(stack) => stack[k].in
CallbacksInv == TypeOK /\ TableInv /\ MaskInv /\ StackInv

LEMMA Types ==
  ASSUME TypeOK
  PROVE  /\ \A h \in Handles : slots[h] \in Seq(Record) /\ Len(slots[h]) \in Nat /\ Len(slots[h]) <= MaxCallbacks
         /\ stack \in Seq(Frames) /\ Len(stack) \in Nat /\ DOMAIN stack = 1 .. Len(stack)
         /\ Len(stack) <= MaxDepth
         /\ \A k \in 1 .. Len(stack) : stack[k] \in Frames /\ stack[k].h \in Handles
<1>1. \A h \in Handles : slots[h] \in Seq(Record) /\ Len(slots[h]) <= MaxCallbacks
  BY DEF TypeOK, Record
<1>2. \A h \in Handles : Len(slots[h]) \in Nat
  BY <1>1, LenProperties
<1>3. stack \in Seq(Frames) /\ Len(stack) \in Nat /\ DOMAIN stack = 1 .. Len(stack) /\ Len(stack) <= MaxDepth
  BY LenProperties DEF TypeOK
<1>4. \A k \in 1 .. Len(stack) : stack[k] \in Frames
  BY <1>3, ElementOfSeq
<1>5. \A k \in 1 .. Len(stack) : stack[k].h \in Handles
  BY <1>4, FrameFields
<1>6. QED
  BY <1>1, <1>2, <1>3, <1>4, <1>5

LEMMA TopIs ==
  ASSUME TypeOK, stack # <<>>
  PROVE  /\ Top = stack[Len(stack)] /\ Top \in Frames /\ Len(stack) \in 1 .. Len(stack)
         /\ Len(stack) \in Nat /\ Len(stack) > 0
<1>1. Len(stack) \in Nat /\ Len(stack) # 0
  BY Types, EmptySeq DEF TypeOK
<1>2. Len(stack) \in 1 .. Len(stack)
  BY <1>1
<1>3. QED
  BY <1>1, <1>2, Types DEF Top

(* The program runs in the callbacks of all the notifications. *)
LEMMA AllIn ==
  ASSUME TypeOK, StackInv, Calling
  PROVE  \A k \in 1 .. Len(stack) : stack[k].in
<1>1. TAKE k \in 1 .. Len(stack)
<1>2. stack # <<>> /\ Len(stack) \in Nat
  BY Types
<1>3. stack[Len(stack)].in
  BY <1>2, TopIs DEF Calling
<1>4. CASE k = Len(stack)
  BY <1>3, <1>4
<1>5. CASE k # Len(stack)
  <2>1. k < Len(stack)
    BY <1>2, <1>5
  <2>2. QED
    BY <2>1 DEF StackInv
<1>6. QED
  BY <1>4, <1>5

(* Each notification is changed where it is. *)
LEMMA StackMapped ==
  ASSUME TypeOK, DOMAIN stack' = 1 .. Len(stack), stack' = [k \in 1 .. Len(stack) |-> stack'[k]],
         \A k \in 1 .. Len(stack) :
           /\ stack'[k] \in Frames /\ FrameInv(stack'[k], slots'[stack'[k].h])
           /\ k < Len(stack) => stack'[k].in
  PROVE  stack' \in Seq(Frames) /\ Len(stack') = Len(stack) /\ Len(stack') <= MaxDepth /\ StackInv'
<1>1. PICK n \in Nat : n = Len(stack)
  BY Types
<1>2. stack' \in [1 .. n -> Frames]
  BY <1>1
<1>3. stack' \in Seq(Frames) /\ Len(stack') = n
  BY <1>1, <1>2
<1>4. StackInv'
  BY <1>1, <1>3 DEF StackInv
<1>5. QED
  BY <1>1, <1>3, <1>4, Types

LEMMA StackSame ==
  ASSUME TypeOK, StackInv, stack' = stack,
         \A k \in 1 .. Len(stack) : slots'[stack[k].h] = slots[stack[k].h]
  PROVE  stack' \in Seq(Frames) /\ Len(stack') <= MaxDepth /\ StackInv'
  BY Types DEF StackInv

LEMMA StackSet ==
  ASSUME TypeOK, StackInv, slots' = slots, stack # <<>>, NEW f \in Frames,
         FrameInv(f, slots[f.h]), stack' = [stack EXCEPT ![Len(stack)] = f]
  PROVE  stack' \in Seq(Frames) /\ Len(stack') <= MaxDepth /\ StackInv'
<1>1. PICK n \in Nat : n = Len(stack)
  BY Types
<1>2. DOMAIN stack = 1 .. n /\ n \in 1 .. n /\ \A k \in 1 .. n : stack[k] \in Frames
  BY <1>1, Types, TopIs
<1>3. /\ DOMAIN stack' = 1 .. n /\ stack' = [k \in 1 .. n |-> stack'[k]]
      /\ stack'[n] = f /\ \A k \in 1 .. n : k # n => stack'[k] = stack[k]
  BY <1>1, <1>2
<1>4. ASSUME NEW k \in 1 .. n
      PROVE  stack'[k] \in Frames /\ FrameInv(stack'[k], slots'[stack'[k].h]) /\ (k < n => stack'[k].in)
  <2>1. CASE k = n
    BY <1>3, <2>1
  <2>2. CASE k # n
    BY <1>1, <1>2, <1>3, <2>2 DEF StackInv
  <2>3. QED
    BY <2>1, <2>2
<1>5. QED
  BY <1>1, <1>3, <1>4, StackMapped

LEMMA StackPush ==
  ASSUME TypeOK, StackInv, slots' = slots, \A k \in 1 .. Len(stack) : stack[k].in,
         NEW f \in Frames, FrameInv(f, slots[f.h]), Len(stack) < MaxDepth,
         stack' = Append(stack, f)
  PROVE  stack' \in Seq(Frames) /\ Len(stack') <= MaxDepth /\ StackInv'
<1>1. PICK n \in Nat : n = Len(stack)
  BY Types
<1>2. /\ stack' \in Seq(Frames) /\ Len(stack') = n + 1 /\ stack'[n + 1] = f
      /\ \A k \in 1 .. n : stack'[k] = stack[k]
  BY <1>1, Types, AppendProperties
<1>3. ASSUME NEW k \in 1 .. n + 1
      PROVE  FrameInv(stack'[k], slots'[stack'[k].h]) /\ (k < n + 1 => stack'[k].in)
  <2>1. CASE k = n + 1
    BY <1>2, <2>1
  <2>2. CASE k # n + 1
    <3>1. k \in 1 .. n
      BY <2>2
    <3>2. QED
      BY <1>1, <1>2, <3>1 DEF StackInv
  <2>3. QED
    BY <2>1, <2>2
<1>4. n + 1 <= MaxDepth
  BY <1>1, Constants
<1>5. QED
  BY <1>2, <1>3, <1>4 DEF StackInv

LEMMA StackPop ==
  ASSUME TypeOK, StackInv, slots' = slots, stack # <<>>, Pop
  PROVE  stack' \in Seq(Frames) /\ Len(stack') <= MaxDepth /\ StackInv'
<1>1. PICK n \in Nat : n = Len(stack)
  BY Types
<1>2. n > 0 /\ n <= MaxDepth
  BY <1>1, Types, TopIs
<1>3. /\ stack' \in Seq(Frames) /\ Len(stack') = n - 1
      /\ \A k \in 1 .. n - 1 : stack'[k] = stack[k]
  BY <1>1, <1>2, Types, SubSeqProperties DEF Pop
<1>4. \A k \in 1 .. n - 1 : k \in 1 .. n /\ k < n
  OBVIOUS
<1>5. ASSUME NEW k \in 1 .. n - 1
      PROVE  FrameInv(stack'[k], slots'[stack'[k].h]) /\ stack'[k].in
  BY <1>1, <1>3, <1>4 DEF StackInv
<1>6. n - 1 <= MaxDepth
  BY <1>2, Constants
<1>7. QED
  BY <1>3, <1>5, <1>6 DEF StackInv

-----------------------------------------------------------------------------
(* The handles. *)

LEMMA ZeroedKeeps ==
  ASSUME CallbacksInv, NEW h \in Handles, Zeroed(h)
  PROVE  /\ slots' \in [Handles -> Seq(Record)] /\ subs' \in [Handles -> SUBSET Record]
         /\ \A g \in Handles : /\ Len(slots'[g]) <= MaxCallbacks /\ Uniq(slots'[g])
                               /\ SlotSet(g)' = subs'[g]
                               /\ g # h => slots'[g] = slots[g]
         /\ slots'[h] = <<>>
         /\ stack' \in Seq(Frames) /\ Len(stack') <= MaxDepth /\ StackInv'
<1>1. /\ TypeOK /\ TableInv /\ StackInv /\ slots \in [Handles -> Seq(Record)]
      /\ subs \in [Handles -> SUBSET Record]
  BY DEF CallbacksInv, TypeOK, Record
<1>2. /\ slots' \in [Handles -> Seq(Record)] /\ subs' \in [Handles -> SUBSET Record]
      /\ slots'[h] = <<>> /\ subs'[h] = {}
      /\ \A g \in Handles : g # h => slots'[g] = slots[g] /\ subs'[g] = subs[g]
  <2>0. <<>> \in Seq(Record)
    OBVIOUS
  <2>1. PICK e \in Seq(Record) : e = <<>>
    BY <2>0
  <2>2. slots' = [slots EXCEPT ![h] = e] /\ subs' = [subs EXCEPT ![h] = {}]
    BY <2>1 DEF Zeroed
  <2>3. QED
    BY <1>1, <2>1, <2>2
<1>3. Len(<<>>) = 0 /\ 0 <= MaxCallbacks /\ 1 .. 0 = {}
  BY Constants
<1>4. ASSUME NEW g \in Handles
      PROVE  Len(slots'[g]) <= MaxCallbacks /\ Uniq(slots'[g]) /\ SlotSet(g)' = subs'[g]
  <2>1. CASE g = h
    BY <1>2, <1>3, <2>1 DEF Uniq, SlotSet
  <2>2. CASE g # h
    <3>1. slots'[g] = slots[g] /\ subs'[g] = subs[g]
      BY <1>2, <2>2
    <3>2. Len(slots[g]) <= MaxCallbacks
      BY <1>1, Types
    <3>3. SlotSet(g)' = SlotSet(g)
      BY <3>1 DEF SlotSet
    <3>4. Uniq(slots[g]) /\ SlotSet(g) = subs[g]
      BY <1>1 DEF TableInv
    <3>5. QED
      BY <3>1, <3>2, <3>3, <3>4
  <2>3. QED
    BY <2>1, <2>2
<1>5. stack' = [k \in 1 .. Len(stack) |->
        IF stack[k].h = h THEN [stack[k] EXCEPT !.due = {}, !.called = {}] ELSE stack[k]]
  BY <1>1, Types DEF Zeroed
<1>6. ASSUME NEW k \in 1 .. Len(stack)
      PROVE  /\ stack'[k] \in Frames /\ FrameInv(stack'[k], slots'[stack'[k].h])
             /\ k < Len(stack) => stack'[k].in
  <2>1. PICK f \in Frames : f = stack[k] /\ f.h \in Handles
    BY <1>1, Types
  <2>2. FrameInv(f, slots[f.h]) /\ (k < Len(stack) => f.in)
    BY <1>1, <2>1 DEF StackInv
  <2>3. CASE f.h = h
    <3>1. stack'[k] = [f EXCEPT !.due = {}, !.called = {}]
      BY <1>5, <2>1, <2>3
    <3>2. PICK g : g = [f EXCEPT !.due = {}, !.called = {}]
      OBVIOUS
    <3>3. g \in Frames /\ g.h = f.h /\ g.in = f.in /\ FrameInv(g, <<>>)
      BY <2>2, <3>2, FrameZeroed
    <3>4. QED
      BY <1>2, <2>2, <2>3, <3>1, <3>2, <3>3
  <2>4. CASE f.h # h
    BY <1>2, <1>5, <2>1, <2>2, <2>4
  <2>5. QED
    BY <2>3, <2>4
<1>7. DOMAIN stack' = 1 .. Len(stack) /\ stack' = [k \in 1 .. Len(stack) |-> stack'[k]]
  BY <1>5
<1>8. stack' \in Seq(Frames) /\ Len(stack') <= MaxDepth /\ StackInv'
  BY <1>1, <1>6, <1>7, StackMapped
<1>9. QED
  BY <1>2, <1>4, <1>8

(* With a bit of the mask free, the first slot that looks free is free. *)
LEMMA AskedFree ==
  ASSUME CallbacksInv, NEW h \in Handles, NEW shift \in Shifts, Asked(h, shift), ~ crowded'
  PROVE  /\ ~ crowded /\ h < MaskBits /\ h \notin mask /\ Bit(h, shift) = {h} /\ holders[h] = 0
<1>1. PICK j \in 0 .. MaskBits - 1 : j \notin mask
  BY Zenon DEF Asked
<1>2. ~ crowded
  BY Zenon DEF Asked
<1>3. h \in Nat /\ j \in Nat /\ j < MaskBits /\ MaskBits \in Nat
  BY Constants DEF Handles
<1>4. Free(j, shift)
  BY <1>1, <1>3 DEF Free, Bit
<1>5. ~ (j < h)
  <2>1. \A i \in 0 .. h - 1 : ~ Free(i, shift)
    BY DEF Asked
  <2>2. j < h => j \in 0 .. h - 1
    BY <1>3
  <2>3. QED
    BY <1>4, <2>1, <2>2
<1>6. h < MaskBits
  BY <1>3, <1>5
<1>7. Bit(h, shift) = {h} /\ h \notin mask
  BY <1>6 DEF Asked, Free, Bit
<1>8. holders[h] = 0
  <2>1. holders[h] \in Nat
    BY DEF CallbacksInv, TypeOK
  <2>2. ~ (holders[h] > 0)
    BY <1>2, <1>7 DEF CallbacksInv, MaskInv
  <2>3. QED
    BY <2>1, <2>2
<1>9. QED
  BY <1>2, <1>6, <1>7, <1>8

LEMMA BitType ==
  ASSUME TypeOK, NEW h \in Handles, NEW shift \in Shifts
  PROVE  Bit(h, shift) \subseteq 0 .. MaskBits - 1
<1>1. h \in Nat /\ MaskBits \in Nat /\ MaskBits > 0
  BY Constants DEF Handles
<1>2. h % MaskBits \in 0 .. MaskBits - 1
  BY <1>1
<1>3. h < MaskBits => h \in 0 .. MaskBits - 1
  BY <1>1
<1>4. QED
  BY <1>2, <1>3 DEF Bit

LEMMA OpenKeeps == ASSUME CallbacksInv, NEW h \in Handles, Open(h) PROVE CallbacksInv'
<1>1. /\ TypeOK /\ TableInv /\ MaskInv /\ Zeroed(h)
      /\ mask \subseteq 0 .. MaskBits - 1
      /\ opened' = [opened EXCEPT ![h] = TRUE] /\ opened \in [Handles -> BOOLEAN]
      /\ holders' = [holders EXCEPT ![h] = holders[h] + 1] /\ holders \in [Handles -> Nat]
  BY DEF CallbacksInv, Open, Asked, TypeOK
<1> PICK shift \in Shifts : Asked(h, shift) /\ mask' = mask \cup Bit(h, shift)
  BY DEF Open
<1>2. crowded' \in BOOLEAN
  BY Zenon DEF Open, Asked
<1>3. opened' \in [Handles -> BOOLEAN] /\ holders' \in [Handles -> Nat]
  BY <1>1
<1>4. mask' \subseteq 0 .. MaskBits - 1
  BY <1>1, BitType
<1>5. TypeOK'
  BY <1>1, <1>2, <1>3, <1>4, ZeroedKeeps DEF TypeOK, Record
<1>6. TableInv'
  <2>1. ASSUME NEW g \in Handles PROVE opened'[g] \/ slots'[g] = <<>>
    BY <1>1, ZeroedKeeps DEF TableInv
  <2>2. QED
    BY <1>1, <2>1, ZeroedKeeps DEF TableInv
<1>7. MaskInv'
  <2>1. SUFFICES ASSUME ~ crowded', NEW g \in Handles
                 PROVE  holders'[g] <= 1 /\ (holders'[g] > 0 => g < MaskBits /\ g \in mask')
    BY DEF MaskInv
  <2>2. ~ crowded /\ h < MaskBits /\ h \in mask' /\ holders[h] = 0
    BY <1>1, <2>1, AskedFree
  <2>3. CASE g = h
    BY <1>1, <2>2, <2>3
  <2>4. CASE g # h
    BY <1>1, <2>2, <2>4 DEF MaskInv
  <2>5. QED
    BY <2>3, <2>4
<1>8. QED
  BY <1>1, <1>5, <1>6, <1>7, ZeroedKeeps DEF CallbacksInv

LEMMA OpenFailsKeeps == ASSUME CallbacksInv, NEW h \in Handles, OpenFails(h) PROVE CallbacksInv'
<1>1. /\ TypeOK /\ TableInv /\ MaskInv /\ Zeroed(h)
      /\ mask \subseteq 0 .. MaskBits - 1 /\ holders' = holders
      /\ opened' = [opened EXCEPT ![h] = FALSE] /\ opened \in [Handles -> BOOLEAN]
  BY DEF CallbacksInv, OpenFails, Asked, TypeOK
<1> PICK shift \in Shifts : Asked(h, shift) /\ mask' = mask \ Bit(h, shift)
  BY DEF OpenFails
<1>2. crowded' \in BOOLEAN
  BY Zenon DEF OpenFails, Asked
<1>3. opened' \in [Handles -> BOOLEAN] /\ mask' \subseteq 0 .. MaskBits - 1
  BY <1>1
<1>4. TypeOK'
  BY <1>1, <1>2, <1>3, ZeroedKeeps DEF TypeOK, Record
<1>5. TableInv'
  <2>1. ASSUME NEW g \in Handles PROVE opened'[g] \/ slots'[g] = <<>>
    BY <1>1, ZeroedKeeps DEF TableInv
  <2>2. QED
    BY <1>1, <2>1, ZeroedKeeps DEF TableInv
<1>6. MaskInv'
  <2>1. SUFFICES ASSUME ~ crowded', NEW g \in Handles
                 PROVE  holders'[g] <= 1 /\ (holders'[g] > 0 => g < MaskBits /\ g \in mask')
    BY DEF MaskInv
  <2>2. ~ crowded /\ mask' = mask
    BY <1>1, <2>1, AskedFree
  <2>3. QED
    BY <1>1, <2>2 DEF MaskInv
<1>7. QED
  BY <1>1, <1>4, <1>5, <1>6, ZeroedKeeps DEF CallbacksInv

LEMMA CloseKeeps == ASSUME CallbacksInv, NEW h \in Handles, Close(h) PROVE CallbacksInv'
<1>1. /\ TypeOK /\ TableInv /\ MaskInv /\ Zeroed(h) /\ crowded' = crowded
      /\ ~ crowded /\ mask \subseteq 0 .. MaskBits - 1
      /\ opened' = [opened EXCEPT ![h] = FALSE] /\ opened \in [Handles -> BOOLEAN]
      /\ holders' = [holders EXCEPT ![h] = holders[h] - 1] /\ holders \in [Handles -> Nat]
      /\ holders[h] > 0
  BY DEF CallbacksInv, Close, Calling, TypeOK
<1> PICK shift \in Shifts : mask' = mask \ Bit(h, shift)
  BY DEF Close
<1>2. opened' \in [Handles -> BOOLEAN] /\ holders' \in [Handles -> Nat] /\ mask' \subseteq 0 .. MaskBits - 1
  <2>1. holders[h] - 1 \in Nat
    BY <1>1
  <2>2. QED
    BY <1>1, <2>1
<1>3. TypeOK'
  BY <1>1, <1>2, ZeroedKeeps DEF TypeOK, Record
<1>4. TableInv'
  <2>1. ASSUME NEW g \in Handles PROVE opened'[g] \/ slots'[g] = <<>>
    BY <1>1, ZeroedKeeps DEF TableInv
  <2>2. QED
    BY <1>1, <2>1, ZeroedKeeps DEF TableInv
<1>5. MaskInv'
  <2>1. SUFFICES ASSUME NEW g \in Handles
                 PROVE  holders'[g] <= 1 /\ (holders'[g] > 0 => g < MaskBits /\ g \in mask')
    BY DEF MaskInv
  <2>2. Bit(h, shift) = {h} /\ holders[h] <= 1
    BY <1>1 DEF MaskInv, Bit
  <2>3. CASE g = h
    BY <1>1, <2>2, <2>3
  <2>4. CASE g # h
    BY <1>1, <2>2, <2>4 DEF MaskInv
  <2>5. QED
    BY <2>3, <2>4
<1>6. QED
  BY <1>1, <1>3, <1>4, <1>5, ZeroedKeeps DEF CallbacksInv

-----------------------------------------------------------------------------
(* The subscriptions. *)

LEMMA NewSubIs ==
  ASSUME TypeOK, NEW h \in Handles, HasRoom(h)
  PROVE  NewSub(h) \in Subs /\ \A k \in 1 .. Len(slots[h]) : slots[h][k].sub # NewSub(h)
<1>1. PICK s \in Seq(Record) : s = slots[h]
  BY Types
<1>2. PICK n \in Nat : n = Len(s) /\ n < MaxCallbacks
  BY <1>1, Types DEF HasRoom
<1> DEFINE U == {x.sub : x \in SlotSet(h)}
<1>3. U = Front(s, n)
  <2>1. {j \in 1 .. n : j <= n} = 1 .. n
    OBVIOUS
  <2>2. QED
    BY <1>1, <1>2, <2>1 DEF SlotSet, Front
<1>4. IsFiniteSet(U) /\ Cardinality(U) \in Nat /\ Cardinality(U) <= n
  BY <1>2, <1>3, FrontSize
<1>5. Cardinality(Subs) = MaxCallbacks + 1 /\ IsFiniteSet(Subs) /\ MaxCallbacks \in Nat
  <2>1. MaxCallbacks \in Nat /\ 0 \in Int /\ MaxCallbacks \in Int
    BY Constants
  <2>2. /\ IsFiniteSet(0 .. MaxCallbacks)
        /\ Cardinality(0 .. MaxCallbacks) = IF 0 > MaxCallbacks THEN 0 ELSE MaxCallbacks - 0 + 1
    BY <2>1, FS_Interval
  <2>3. Cardinality(0 .. MaxCallbacks) = MaxCallbacks + 1
    BY <2>1, <2>2
  <2>4. QED
    BY <2>1, <2>2, <2>3, Zenon DEF Subs
<1>6. \E x \in Subs : x \notin U
  <2>1. SUFFICES ASSUME Subs \subseteq U PROVE FALSE
    OBVIOUS
  <2>2. Cardinality(Subs) <= Cardinality(U)
    BY <1>4, <2>1, FS_Subset
  <2>3. QED
    BY <1>2, <1>4, <1>5, <2>2
<1>7. NewSub(h) \in Subs /\ NewSub(h) \notin U
  BY <1>6 DEF NewSub
<1>8. QED
  BY <1>7 DEF SlotSet

LEMMA SubscribeKeeps ==
  ASSUME CallbacksInv, NEW h \in Handles, NEW id \in Points, Subscribe(h, id)
  PROVE  CallbacksInv'
<1>1. /\ TypeOK /\ TableInv /\ MaskInv /\ StackInv
      /\ slots \in [Handles -> Seq(Record)] /\ subs \in [Handles -> SUBSET Record]
      /\ opened[h] /\ HasRoom(h) /\ stack' = stack /\ opened' = opened
      /\ mask' = mask /\ holders' = holders /\ crowded' = crowded
  BY DEF CallbacksInv, TypeOK, Record, Subscribe, Usable
<1>2. PICK x \in Record : x = Slot(id, NewSub(h)) /\ \A k \in 1 .. Len(slots[h]) : slots[h][k].sub # x.sub
  <2>1. NewSub(h) \in Subs /\ \A k \in 1 .. Len(slots[h]) : slots[h][k].sub # NewSub(h)
    BY <1>1, NewSubIs
  <2>2. Slot(id, NewSub(h)) \in Record /\ Slot(id, NewSub(h)).sub = NewSub(h)
    BY <2>1 DEF Slot, Record
  <2>3. QED
    BY <2>1, <2>2
<1>3. PICK s \in Seq(Record), n \in Nat : s = slots[h] /\ n = Len(s) /\ n < MaxCallbacks
  BY <1>1, Types DEF HasRoom
<1>4. PICK r \in Seq(Record) : /\ r = Append(s, x) /\ Len(r) = n + 1 /\ r[n + 1] = x
                               /\ \A k \in 1 .. n : r[k] = s[k]
  <2>1. /\ Append(s, x) \in Seq(Record) /\ Len(Append(s, x)) = Len(s) + 1
        /\ \A k \in 1 .. Len(s) : Append(s, x)[k] = s[k] /\ Append(s, x)[Len(s) + 1] = x
    BY AppendProperties
  <2>2. Append(s, x)[Len(s) + 1] = x
    BY AppendProperties
  <2>3. QED
    BY <1>3, <2>1, <2>2
<1>5. /\ slots' = [slots EXCEPT ![h] = r] /\ subs' = [subs EXCEPT ![h] = subs[h] \cup {x}]
  BY <1>2, <1>3, <1>4 DEF Subscribe
<1>6. /\ slots' \in [Handles -> Seq(Record)] /\ subs' \in [Handles -> SUBSET Record]
      /\ slots'[h] = r /\ subs'[h] = subs[h] \cup {x}
      /\ \A g \in Handles : g # h => slots'[g] = slots[g] /\ subs'[g] = subs[g]
  BY <1>1, <1>5
<1>7. \A k \in 1 .. n + 1 : k \in 1 .. n \/ k = n + 1
  OBVIOUS
<1>8. Uniq(r)
  <2>1. Uniq(s)
    BY <1>1, <1>3 DEF TableInv
  <2>2. QED
    BY <1>2, <1>3, <1>4, <1>7, <2>1 DEF Uniq
<1>9. {r[k] : k \in 1 .. Len(r)} = {s[k] : k \in 1 .. Len(s)} \cup {x}
  <2>1. \A k \in 1 .. n : k \in 1 .. n + 1
    OBVIOUS
  <2>2. n + 1 \in 1 .. n + 1
    OBVIOUS
  <2>3. QED
    BY <1>3, <1>4, <1>7, <2>1, <2>2
<1>10. ASSUME NEW g \in Handles
       PROVE  /\ Len(slots'[g]) <= MaxCallbacks /\ Uniq(slots'[g]) /\ SlotSet(g)' = subs'[g]
              /\ opened'[g] \/ slots'[g] = <<>>
  <2>1. CASE g = h
    <3>1. n + 1 <= MaxCallbacks
      BY <1>3, Constants
    <3>2. SlotSet(g)' = subs'[g]
      <4>1. subs[h] = {s[k] : k \in 1 .. Len(s)}
        BY <1>1, <1>3 DEF SlotSet, TableInv
      <4>2. SlotSet(g)' = {r[k] : k \in 1 .. Len(r)}
        BY <1>6, <2>1 DEF SlotSet
      <4>3. QED
        BY <1>6, <1>9, <2>1, <4>1, <4>2
    <3>3. QED
      BY <1>1, <1>4, <1>6, <1>8, <2>1, <3>1, <3>2
  <2>2. CASE g # h
    <3>1. slots'[g] = slots[g] /\ subs'[g] = subs[g]
      BY <1>6, <2>2
    <3>2. Len(slots[g]) <= MaxCallbacks
      BY <1>1, Types
    <3>3. SlotSet(g)' = SlotSet(g)
      BY <3>1 DEF SlotSet
    <3>4. Uniq(slots[g]) /\ SlotSet(g) = subs[g] /\ (opened[g] \/ slots[g] = <<>>)
      BY <1>1 DEF TableInv
    <3>5. QED
      BY <1>1, <3>1, <3>2, <3>3, <3>4
  <2>3. QED
    BY <2>1, <2>2
<1>11. ASSUME NEW k \in 1 .. Len(stack)
       PROVE  FrameInv(stack'[k], slots'[stack'[k].h]) /\ (k < Len(stack) => stack'[k].in)
  <2>1. PICK f \in Frames : f = stack[k] /\ f.h \in Handles
    BY <1>1, Types
  <2>2. FrameInv(f, slots[f.h]) /\ (k < Len(stack) => f.in)
    BY <1>1, <2>1 DEF StackInv
  <2>3. FrameInv(f, slots'[f.h])
    <3>1. CASE f.h = h
      <4>1. FrameInv(f, s) /\ \A l \in 1 .. Len(s) : s[l].sub # x.sub
        BY <1>2, <1>3, <2>2, <3>1
      <4>2. FrameInv(f, Append(s, x))
        BY <4>1, AppendKeeps
      <4>3. QED
        BY <1>4, <1>6, <3>1, <4>2
    <3>2. CASE f.h # h
      BY <1>6, <2>1, <2>2, <3>2
    <3>3. QED
      BY <3>1, <3>2
  <2>4. QED
    BY <1>1, <2>1, <2>2, <2>3
<1>12. StackInv'
  BY <1>1, <1>11 DEF StackInv
<1>13. TypeOK'
  BY <1>1, <1>6, <1>10 DEF TypeOK, Record
<1>14. TableInv' /\ MaskInv'
  BY <1>1, <1>10 DEF TableInv, MaskInv
<1>15. QED
  BY <1>12, <1>13, <1>14 DEF CallbacksInv

LEMMA UnsubscribeKeeps ==
  ASSUME CallbacksInv, NEW h \in Handles, NEW id \in Points, Unsubscribe(h, id)
  PROVE  CallbacksInv'
<1>1. /\ TypeOK /\ TableInv /\ MaskInv /\ StackInv /\ Calling
      /\ slots \in [Handles -> Seq(Record)] /\ subs \in [Handles -> SUBSET Record]
      /\ opened[h] /\ opened' = opened
      /\ mask' = mask /\ holders' = holders /\ crowded' = crowded
  BY DEF CallbacksInv, TypeOK, Record, Unsubscribe, Usable
<1>2. PICK s \in Seq(Record) : s = slots[h] /\ Len(s) \in Nat /\ Len(s) <= MaxCallbacks /\ Uniq(s)
  BY <1>1, Types DEF TableInv
<1>3. PICK r : r = Without(s, id)
  OBVIOUS
<1>4. Thinned(s, r, id) /\ \A j \in 1 .. Len(r) : r[j].id # id
  BY <1>2, <1>3, WithoutThins
<1>5. r \in Seq(Record) /\ Len(r) <= MaxCallbacks /\ Uniq(r)
  <2>1. r \in Seq(Record) /\ Len(r) <= Len(s) /\ Len(r) \in Nat /\ Uniq(r)
    BY <1>4, LenProperties DEF Thinned
  <2>2. QED
    BY <1>2, <2>1, Constants
<1>6. slots' = [slots EXCEPT ![h] = r] /\ subs' = [subs EXCEPT ![h] = {x \in subs[h] : x.id # id}]
  BY <1>2, <1>3 DEF Unsubscribe
<1>7. /\ slots' \in [Handles -> Seq(Record)] /\ subs' \in [Handles -> SUBSET Record]
      /\ slots'[h] = r /\ subs'[h] = {x \in subs[h] : x.id # id}
      /\ \A g \in Handles : g # h => slots'[g] = slots[g] /\ subs'[g] = subs[g]
  BY <1>1, <1>5, <1>6
<1>8. {r[k] : k \in 1 .. Len(r)} = {x \in {s[k] : k \in 1 .. Len(s)} : x.id # id}
  <2>1. ASSUME NEW k \in 1 .. Len(r) PROVE r[k] \in {s[l] : l \in 1 .. Len(s)} /\ r[k].id # id
    BY <1>4 DEF Thinned
  <2>2. ASSUME NEW k \in 1 .. Len(s), s[k].id # id PROVE s[k] \in {r[l] : l \in 1 .. Len(r)}
    BY <1>4, <2>2 DEF Thinned
  <2>3. QED
    BY <2>1, <2>2
<1>9. ASSUME NEW g \in Handles
      PROVE  /\ Len(slots'[g]) <= MaxCallbacks /\ Uniq(slots'[g]) /\ SlotSet(g)' = subs'[g]
             /\ opened'[g] \/ slots'[g] = <<>>
  <2>1. CASE g = h
    <3>1. SlotSet(g)' = subs'[g]
      <4>1. subs[h] = {s[k] : k \in 1 .. Len(s)}
        BY <1>1, <1>2 DEF SlotSet, TableInv
      <4>2. SlotSet(g)' = {r[k] : k \in 1 .. Len(r)}
        BY <1>7, <2>1 DEF SlotSet
      <4>3. QED
        BY <1>7, <1>8, <2>1, <4>1, <4>2
    <3>2. QED
      BY <1>1, <1>5, <1>7, <2>1, <3>1
  <2>2. CASE g # h
    <3>1. slots'[g] = slots[g] /\ subs'[g] = subs[g]
      BY <1>7, <2>2
    <3>2. Len(slots[g]) <= MaxCallbacks
      BY <1>1, Types
    <3>3. SlotSet(g)' = SlotSet(g)
      BY <3>1 DEF SlotSet
    <3>4. Uniq(slots[g]) /\ SlotSet(g) = subs[g] /\ (opened[g] \/ slots[g] = <<>>)
      BY <1>1 DEF TableInv
    <3>5. QED
      BY <1>1, <3>1, <3>2, <3>3, <3>4
  <2>3. QED
    BY <2>1, <2>2
<1>10. stack' = [k \in 1 .. Len(stack) |-> Cancelled(stack[k], h, id)]
  BY <1>1, Types DEF Unsubscribe
<1>11. ASSUME NEW k \in 1 .. Len(stack)
       PROVE  /\ stack'[k] \in Frames /\ FrameInv(stack'[k], slots'[stack'[k].h])
              /\ k < Len(stack) => stack'[k].in
  <2>1. PICK f \in Frames : f = stack[k] /\ f.h \in Handles
    BY <1>1, Types
  <2>2. FrameInv(f, slots[f.h]) /\ f.in
    BY <1>1, <2>1, AllIn DEF StackInv
  <2>3. stack'[k] = Cancelled(f, h, id)
    BY <1>10, <2>1
  <2>4. CASE f.h = h
    <3>1. /\ Cancelled(f, h, id) \in Frames /\ Cancelled(f, h, id).h = h /\ Cancelled(f, h, id).in
          /\ FrameInv(Cancelled(f, h, id), Without(slots[h], id))
      BY <1>2, <2>2, <2>4, CancelledKeeps
    <3>2. QED
      BY <1>2, <1>3, <1>7, <2>3, <3>1
  <2>5. CASE f.h # h
    <3>1. Cancelled(f, h, id) = f
      BY <2>5 DEF Cancelled
    <3>2. QED
      BY <1>7, <2>1, <2>2, <2>3, <2>5, <3>1
  <2>6. QED
    BY <2>4, <2>5
<1>12. DOMAIN stack' = 1 .. Len(stack) /\ stack' = [k \in 1 .. Len(stack) |-> stack'[k]]
  BY <1>10
<1>13. stack' \in Seq(Frames) /\ Len(stack') <= MaxDepth /\ StackInv'
  BY <1>1, <1>11, <1>12, StackMapped
<1>14. TypeOK'
  BY <1>1, <1>7, <1>9, <1>13 DEF TypeOK, Record
<1>15. TableInv' /\ MaskInv'
  BY <1>1, <1>9 DEF TableInv, MaskInv
<1>16. QED
  BY <1>13, <1>14, <1>15 DEF CallbacksInv

-----------------------------------------------------------------------------
(* The notifications. *)

LEMMA OnlyStack ==
  ASSUME CallbacksInv, UNCHANGED <<mask, opened, slots, holders, crowded, subs>>,
         stack' \in Seq(Frames), Len(stack') <= MaxDepth, StackInv'
  PROVE  CallbacksInv'
<1>1. TypeOK /\ TableInv /\ MaskInv
  BY DEF CallbacksInv
<1>2. TypeOK'
  BY <1>1 DEF TypeOK
<1>3. TableInv' /\ MaskInv'
  BY <1>1 DEF TableInv, MaskInv, SlotSet
<1>4. QED
  BY <1>2, <1>3 DEF CallbacksInv

LEMMA WriteKeeps ==
  ASSUME CallbacksInv, NEW h \in Handles, NEW id \in Points,
         NEW rest \in 0 .. Cardinality(Points) - 1, Write(h, id, rest)
  PROVE  CallbacksInv'
<1>1. TypeOK /\ StackInv /\ Calling /\ id + rest \in Points /\ Len(stack) < MaxDepth /\ slots' = slots
  BY DEF CallbacksInv, Write, Usable
<1>2. rest \in Nat /\ rest <= Cardinality(Points)
  BY Constants
<1>3. slots[h] \in Seq(Record) /\ Len(slots[h]) <= MaxCallbacks
  BY <1>1, Types
<1>4. PICK f : f = Notify(h, id, rest)
  OBVIOUS
<1>5. f \in Frames /\ f.h = h /\ FrameInv(f, slots[h])
  BY <1>1, <1>2, <1>3, <1>4, NotifyKeeps
<1>6. stack' = Append(stack, f)
  BY <1>4 DEF Write
<1>7. stack' \in Seq(Frames) /\ Len(stack') <= MaxDepth /\ StackInv'
  BY <1>1, <1>5, <1>6, AllIn, StackPush
<1>8. QED
  BY <1>7, OnlyStack DEF Write

LEMMA RoundsKeep == ASSUME CallbacksInv, Skip \/ Call \/ Return PROVE CallbacksInv'
<1>1. TypeOK /\ TableInv /\ StackInv /\ stack # <<>> /\ slots' = slots
      /\ UNCHANGED <<mask, opened, slots, holders, crowded, subs>>
  BY DEF CallbacksInv, Skip, Call, Return, Library
<1>2. PICK f \in Frames : f = Top /\ f = stack[Len(stack)] /\ f.h \in Handles /\ f.in \in BOOLEAN
  BY <1>1, TopIs, FrameFields
<1>3. PICK s \in Seq(Record) : s = slots[f.h] /\ Uniq(s)
  BY <1>1, <1>2, Types DEF TableInv
<1>4. FrameInv(f, s)
  BY <1>1, <1>2, <1>3, TopIs DEF StackInv
<1>5. ASSUME NEW g \in Frames, g.h = f.h, FrameInv(g, s), SetTop(g) PROVE CallbacksInv'
  <2>1. stack' = [stack EXCEPT ![Len(stack)] = g] /\ FrameInv(g, slots[g.h])
    BY <1>3, <1>5 DEF SetTop
  <2>2. stack' \in Seq(Frames) /\ Len(stack') <= MaxDepth /\ StackInv'
    BY <1>1, <2>1, StackSet
  <2>3. QED
    BY <1>1, <2>2, OnlyStack
<1>6. CASE Skip
  <2>1. ~ f.in /\ f.i <= f.n /\ ~ (f.i <= Len(s) /\ s[f.i].id = f.id)
    BY <1>2, <1>3, <1>6 DEF Skip, Library, Match
  <2>2. PICK g : g = [f EXCEPT !.i = f.i + 1]
    OBVIOUS
  <2>3. g \in Frames /\ g.h = f.h /\ FrameInv(g, s)
    BY <1>3, <1>4, <2>1, <2>2, SkipKeeps
  <2>4. SetTop(g)
    BY <1>2, <1>6, <2>2 DEF Skip
  <2>5. QED
    BY <1>5, <2>3, <2>4
<1>7. CASE Call
  <2>1. ~ f.in /\ f.i <= f.n /\ f.i <= Len(s)
    BY <1>2, <1>3, <1>7 DEF Call, Library, Match
  <2>2. PICK g : g = [f EXCEPT !.in = TRUE, !.called = f.called \cup {s[f.i].sub}]
    OBVIOUS
  <2>3. g \in Frames /\ g.h = f.h /\ FrameInv(g, s)
    BY <1>3, <1>4, <2>1, <2>2, CallKeeps
  <2>4. SetTop(g)
    BY <1>2, <1>3, <1>7, <2>2 DEF Call
  <2>5. QED
    BY <1>5, <2>3, <2>4
<1>8. CASE Return
  <2>1. f.in
    BY <1>2, <1>8 DEF Return
  <2>2. PICK g : g = [f EXCEPT !.in = FALSE, !.i = f.i + 1]
    OBVIOUS
  <2>3. g \in Frames /\ g.h = f.h /\ FrameInv(g, s)
    BY <1>3, <1>4, <2>1, <2>2, ReturnKeeps
  <2>4. SetTop(g)
    BY <1>2, <1>8, <2>2 DEF Return
  <2>5. QED
    BY <1>5, <2>3, <2>4
<1>9. QED
  BY <1>6, <1>7, <1>8

(* The points of a write_range are the database's: they are an interval. *)
LEMMA FinishKeeps == ASSUME CallbacksInv, Finish PROVE CallbacksInv'
<1>1. TypeOK /\ TableInv /\ StackInv /\ stack # <<>> /\ slots' = slots
      /\ UNCHANGED <<mask, opened, slots, holders, crowded, subs>>
  BY DEF CallbacksInv, Finish, Library
<1>2. CASE Pop
  BY <1>1, <1>2, StackPop, OnlyStack
<1>3. CASE Top.rest > 0 /\ SetTop(Notify(Top.h, Top.id + 1, Top.rest - 1))
  <2>1. PICK f \in Frames : f = Top /\ f = stack[Len(stack)] /\ f.h \in Handles
    BY <1>1, TopIs, FrameFields
  <2>2. FrameInv(f, slots[f.h])
    BY <1>1, <2>1, TopIs DEF StackInv
  <2>3. /\ f.id \in Points /\ f.id \in Nat /\ f.rest \in Nat /\ f.rest > 0
        /\ f.rest <= Cardinality(Points) /\ f.id + f.rest \in Points
    BY <1>3, <2>1, <2>2, FrameFields DEF FrameInv
  <2>4. f.id + 1 \in f.id .. f.id + f.rest /\ f.id .. f.id + f.rest \subseteq Points
    BY <2>3, CallbacksValues
  <2>5. PICK i \in Points, q \in Nat : i = f.id + 1 /\ q = f.rest - 1
    BY <2>3, <2>4
  <2>6. i + q \in Points /\ q <= Cardinality(Points)
    <3>1. i + q = f.id + f.rest
      BY <2>3, <2>5
    <3>2. QED
      BY <2>3, <2>5, <3>1, Constants
  <2>7. PICK g : g = Notify(f.h, i, q)
    OBVIOUS
  <2>8. g \in Frames /\ g.h = f.h /\ FrameInv(g, slots[g.h])
    <3>1. slots[f.h] \in Seq(Record) /\ Len(slots[f.h]) <= MaxCallbacks
      BY <1>1, <2>1, Types
    <3>2. g \in Frames /\ g.h = f.h /\ FrameInv(g, slots[f.h])
      BY <2>1, <2>6, <2>7, <3>1, NotifyKeeps
    <3>3. QED
      BY <3>2
  <2>9. stack' = [stack EXCEPT ![Len(stack)] = g]
    BY <1>3, <2>1, <2>5, <2>7 DEF SetTop
  <2>10. stack' \in Seq(Frames) /\ Len(stack') <= MaxDepth /\ StackInv'
    BY <1>1, <2>8, <2>9, StackSet
  <2>11. QED
    BY <1>1, <2>10, OnlyStack
<1>4. QED
  BY <1>2, <1>3 DEF Finish

-----------------------------------------------------------------------------
(* Every step keeps the invariant. *)

LEMMA CallbacksStart == Init => CallbacksInv
<1>1. SUFFICES ASSUME Init PROVE CallbacksInv
  OBVIOUS
<1>2. Len(<<>>) = 0 /\ 1 .. 0 = {} /\ <<>> \in Seq(Record) /\ <<>> \in Seq(Frames)
  OBVIOUS
<1>3. \A h \in Handles : slots[h] = <<>> /\ holders[h] = 0 /\ subs[h] = {}
  BY <1>1 DEF Init
<1>4. TypeOK
  <2>1. PICK e \in Seq(Record) : e = <<>>
    BY <1>2
  <2>2. slots \in [Handles -> Seq(Record)]
    BY <1>1, <2>1 DEF Init
  <2>3. /\ opened \in [Handles -> BOOLEAN] /\ holders \in [Handles -> Nat]
        /\ subs \in [Handles -> SUBSET Record]
    BY <1>1 DEF Init
  <2>4. stack \in Seq(Frames) /\ Len(stack) <= MaxDepth
    BY <1>1, <1>2, Constants DEF Init
  <2>5. \A h \in Handles : Len(slots[h]) <= MaxCallbacks
    BY <1>2, <1>3, Constants
  <2>6. QED
    BY <1>1, <2>2, <2>3, <2>4, <2>5 DEF TypeOK, Record, Init
<1>5. TableInv
  BY <1>2, <1>3 DEF TableInv, Uniq, SlotSet
<1>6. MaskInv
  BY <1>3 DEF MaskInv
<1>7. StackInv
  BY <1>1, <1>2 DEF StackInv, Init
<1>8. QED
  BY <1>4, <1>5, <1>6, <1>7 DEF CallbacksInv

LEMMA CallbacksStutter == ASSUME CallbacksInv, UNCHANGED vars PROVE CallbacksInv'
<1>1. TypeOK /\ StackInv /\ stack' = stack /\ slots' = slots
  BY DEF CallbacksInv, vars
<1>2. stack' \in Seq(Frames) /\ Len(stack') <= MaxDepth /\ StackInv'
  BY <1>1, StackSame
<1>3. QED
  BY <1>2, OnlyStack DEF vars

LEMMA CallbacksStep == CallbacksInv /\ [Next]_vars => CallbacksInv'
<1>1. SUFFICES ASSUME CallbacksInv, Next \/ UNCHANGED vars PROVE CallbacksInv'
  OBVIOUS
<1>2. ASSUME NEW h \in Handles, Open(h) \/ OpenFails(h) \/ Close(h) PROVE CallbacksInv'
  BY <1>1, <1>2, OpenKeeps, OpenFailsKeeps, CloseKeeps
<1>3. ASSUME NEW h \in Handles, NEW id \in Points, Subscribe(h, id) \/ Unsubscribe(h, id)
      PROVE  CallbacksInv'
  BY <1>1, <1>3, SubscribeKeeps, UnsubscribeKeeps
<1>4. ASSUME NEW h \in Handles, NEW id \in Points, NEW rest \in 0 .. Cardinality(Points) - 1,
             Write(h, id, rest)
      PROVE  CallbacksInv'
  BY <1>1, <1>4, WriteKeeps
<1>5. CASE Skip \/ Call \/ Return
  BY <1>1, <1>5, RoundsKeep
<1>6. CASE Finish
  BY <1>1, <1>6, FinishKeeps
<1>7. CASE UNCHANGED vars
  BY <1>1, <1>7, CallbacksStutter
<1>8. QED
  BY <1>1, <1>2, <1>3, <1>4, <1>5, <1>6, <1>7 DEF Next

\* The table of a handle stays as irt_sub_subscribe and irt_sub_unsubscribe make it, the
\* mask covers the handles given out, and each notification under way has passed only
\* what it called, what came later, or what was moved down for a cancelled slot.
THEOREM CallbacksAlways == Spec => []CallbacksInv
<1>1. QED
  BY CallbacksStart, CallbacksStep, PTL DEF Spec

\* The handle table, the subscription tables and the stack of notifications keep their
\* types: no table grows past IRT_SUB_MAX_CALLBACKS, no handle past the mask.
THEOREM CallbacksTypes == Spec => []TypeOK
<1>1. CallbacksInv => TypeOK
  BY DEF CallbacksInv
<1>2. QED
  BY <1>1, CallbacksAlways, PTL

-----------------------------------------------------------------------------
LEMMA TableCounts ==
  ASSUME NEW s \in Seq(Record), Uniq(s)
  PROVE  Cardinality({s[k] : k \in 1 .. Len(s)}) = Len(s)
<1>1. PICK n \in Nat : n = Len(s)
  BY LenProperties
<1> DEFINE T == {s[k] : k \in 1 .. n}
           f == [k \in 1 .. n |-> s[k]]
<1>2. f \in Injection(1 .. n, T)
  <2>1. f \in [1 .. n -> T]
    OBVIOUS
  <2>2. ASSUME NEW j \in 1 .. n, NEW k \in 1 .. n, f[j] = f[k] PROVE j = k
    BY <1>1, <2>2 DEF Uniq
  <2>3. QED
    BY <2>1, <2>2 DEF Injection, IsInjective
<1>3. f \in Surjection(1 .. n, T)
  BY DEF Surjection
<1>4. ExistsBijection(1 .. n, T)
  BY <1>2, <1>3 DEF ExistsBijection, Bijection
<1>5. Cardinality(T) = n
  BY <1>4, FS_CountingElements
<1>6. QED
  BY <1>1, <1>5

\* irt_sub_unsubscribe, which fills each gap with the last slot and looks at it in its
\* turn, and the handle's memset leave exactly the subscriptions in force, and slot_count
\* counts them, for every order of subscribing, cancelling, closing and opening again.
THEOREM TablesExact == Spec => []TableExact
<1>1. CallbacksInv => TableExact
  <2>1. SUFFICES ASSUME CallbacksInv, NEW h \in Handles
                 PROVE  SlotSet(h) = subs[h] /\ Len(slots[h]) = Cardinality(subs[h])
    BY DEF TableExact
  <2>2. PICK s \in Seq(Record) : s = slots[h] /\ Uniq(s)
    BY <2>1, Types DEF CallbacksInv, TableInv
  <2>3. SlotSet(h) = subs[h] /\ SlotSet(h) = {s[k] : k \in 1 .. Len(s)}
    BY <2>1, <2>2 DEF CallbacksInv, TableInv, SlotSet
  <2>4. QED
    BY <2>2, <2>3, TableCounts
<1>2. QED
  BY <1>1, CallbacksAlways, PTL

\* inst_alloc never gives a handle to two callers while the mask has a free bit at every
\* request, whatever opens, failed opens and closes came before, from callbacks or not.
THEOREM HandlesApart == Spec => []HandlesDistinct
<1>1. CallbacksInv => HandlesDistinct
  BY DEF CallbacksInv, MaskInv, HandlesDistinct
<1>2. QED
  BY <1>1, CallbacksAlways, PTL

\* irt_sub_notify over a table that its own callbacks change skips at most one subscriber
\* for each slot cancelled among those it had passed.
THEOREM MissesBounded == Spec => []MissedBounded
<1>1. CallbacksInv => MissedBounded
  <2>1. SUFFICES ASSUME CallbacksInv, NEW k \in DOMAIN stack, stack[k].i > stack[k].n
                 PROVE  Cardinality({x.sub : x \in subs[stack[k].h]} \cap (stack[k].due \ stack[k].called))
                          <= stack[k].cancelled
    BY DEF MissedBounded
  <2>2. TypeOK /\ TableInv /\ StackInv /\ k \in 1 .. Len(stack)
    BY <2>1, Types DEF CallbacksInv
  <2>3. PICK f \in Frames : f = stack[k] /\ f.h \in Handles
    BY <2>2, Types
  <2>4. PICK s \in Seq(Record) : s = slots[f.h] /\ FrameInv(f, s)
    BY <2>2, <2>3, Types DEF StackInv
  <2> DEFINE X == {x.sub : x \in subs[f.h]} \cap (f.due \ f.called)
  <2>5. /\ f.n \in Nat /\ f.i \in Nat /\ f.i > f.n /\ Passed(f) \in Nat /\ Passed(f) >= f.n
        /\ f.cancelled \in Nat
    <3>1. f.n \in Nat /\ f.i \in Nat /\ f.i > f.n /\ f.cancelled \in Nat /\ Passed(f) \in Nat
      BY <2>1, <2>3, FrameFields
    <3>2. ~ f.in
      BY <2>4, <3>1 DEF FrameInv
    <3>3. Passed(f) = f.i - 1
      BY <3>2 DEF Passed
    <3>4. QED
      BY <3>1, <3>3
  <2>6. X \subseteq Missed(f, s)
    <3>1. SUFFICES ASSUME NEW y \in X PROVE y \in Front(s, Passed(f))
      BY DEF Missed
    <3>2. PICK j \in 1 .. Len(s) : j <= f.n /\ s[j].sub = y
      BY <2>4, <3>1 DEF FrameInv
    <3>3. j <= Passed(f)
      BY <2>5, <3>2, LenProperties
    <3>4. QED
      BY <3>2, <3>3, FrontHas
  <2>7. IsFiniteSet(Missed(f, s)) /\ Cardinality(Missed(f, s)) \in Nat
    <3>1. IsFiniteSet(Front(s, Passed(f))) /\ Missed(f, s) \subseteq Front(s, Passed(f))
      BY <2>5, FrontSize DEF Missed
    <3>2. QED
      BY <3>1, FS_Subset, FS_CardinalityType
  <2>8. Cardinality(X) <= Cardinality(Missed(f, s)) /\ Cardinality(X) \in Nat
    BY <2>6, <2>7, FS_Subset, FS_CardinalityType
  <2>9. Cardinality(Missed(f, s)) <= f.cancelled
    BY <2>4 DEF FrameInv
  <2> HIDE DEF X
  <2>10. Cardinality(X) <= f.cancelled
    BY <2>5, <2>7, <2>8, <2>9
  <2>11. QED
    BY <2>3, <2>10 DEF X
<1>2. QED
  BY <1>1, CallbacksAlways, PTL

\* The call irt_sub_notify makes is for a subscription in force on a handle that is open,
\* to the point written, and never a second time in one notification, although a callback
\* may have replaced the slots under it.
THEOREM CallsInForce == Spec => CalledOnce
<1>1. CallbacksInv => [Call => LET x == slots[Top.h][Top.i] IN
        x.id = Top.id /\ x \in subs[Top.h] /\ opened[Top.h] /\ x.sub \notin Top.called]_vars
  <2>1. SUFFICES ASSUME CallbacksInv, Call
                 PROVE  LET x == slots[Top.h][Top.i] IN
                        x.id = Top.id /\ x \in subs[Top.h] /\ opened[Top.h] /\ x.sub \notin Top.called
    OBVIOUS
  <2>2. TypeOK /\ TableInv /\ StackInv /\ stack # <<>> /\ ~ Top.in /\ Match(Top)
    BY <2>1 DEF CallbacksInv, Call, Library
  <2>3. PICK f \in Frames : f = Top /\ f = stack[Len(stack)] /\ f.h \in Handles
    BY <2>2, TopIs, FrameFields
  <2>4. PICK s \in Seq(Record) : s = slots[f.h] /\ Uniq(s) /\ SlotSet(f.h) = subs[f.h]
    BY <2>2, <2>3, Types DEF TableInv
  <2>5. /\ f.i \in Nat /\ f.i > 0 /\ Len(s) \in Nat /\ f.i <= Len(s) /\ s[f.i].id = f.id
        /\ Passed(f) = f.i - 1
    <3>1. f.i \in Nat /\ f.i > 0 /\ Len(s) \in Nat
      BY FrameFields, LenProperties
    <3>2. Passed(f) = f.i - 1
      BY <2>2, <2>3 DEF Passed
    <3>3. QED
      BY <2>2, <2>3, <2>4, <3>1, <3>2 DEF Match
  <2>6. f.i \in 1 .. Len(s)
    BY <2>5
  <2>7. s[f.i] \in subs[f.h]
    BY <2>4, <2>6 DEF SlotSet
  <2>8. opened[f.h]
    <3>1. s # <<>>
      BY <2>5, EmptySeq
    <3>2. QED
      BY <2>2, <2>3, <2>4, <3>1 DEF TableInv
  <2>9. s[f.i].sub \notin f.called
    <3>1. SUFFICES ASSUME s[f.i].sub \in f.called PROVE FALSE
      OBVIOUS
    <3>2. f.called \subseteq Front(s, f.i - 1)
      BY <2>2, <2>3, <2>4, <2>5, TopIs DEF StackInv, FrameInv
    <3>3. PICK j \in 1 .. Len(s) : j <= f.i - 1 /\ s[j].sub = s[f.i].sub
      BY <3>1, <3>2, FrontIs
    <3>4. j = f.i
      BY <2>4, <2>6, <3>3 DEF Uniq
    <3>5. QED
      BY <2>5, <3>3, <3>4
  <2>10. QED
    BY <2>3, <2>4, <2>5, <2>7, <2>8, <2>9
<1>2. QED
  BY <1>1, CallbacksAlways, PTL DEF CalledOnce

=============================================================================
