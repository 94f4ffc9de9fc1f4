-------------------------- MODULE Registry_proofs --------------------------
(***************************************************************************)
(* The registry of points, for any number of points, buckets, requests and *)
(* lives of the process (irt_index.c, irt_delta.c, the requests of         *)
(* indurtdb.c).  In order: probes and their chains; insertions and         *)
(* removals as functions on the slots; the shape of the state; the index,  *)
(* every step keeping its chains and its one slot per point; the refinement *)
(* of Directory, from the index; the log, as a trace of what its records   *)
(* did to the base configuration.                                          *)
(*                                                                         *)
(* The inductive invariant is RegistryInv.  IndexInv is about clean        *)
(* histories and LogsInv about those that no flaw but a crash has touched: *)
(* the properties make their promises there only, and the flaws that end a *)
(* promise never leave the history again.                                  *)
(***************************************************************************)
EXTENDS Registry, TLAPS, FiniteSetTheorems, WellFoundedInduction

-----------------------------------------------------------------------------
(* The index of a registry: the slots s over the records nm, pt.  A live slot *)
(* is its point's, nothing before it in its chain is empty, and no other slot *)
(* has its point or its key.                                                  *)
NameSet == Names \cup {NoName}
SlotRec == [key : Partitions \X NameSet, id : Ids \cup {Empty, Tomb}]
Holds(s, b) == s[b].id \in Ids
Chain(s, k, b) == \E d \in Buckets :
  /\ At(k, d) = b
  /\ \A e \in Buckets : e < d => At(k, e) # b /\ s[At(k, e)].id # Empty
Reached(s, b) == Chain(s, s[b].key, b)
Own(s, nm, pt) == \A b \in Buckets : Holds(s, b) =>
  nm[s[b].id] \in Names /\ s[b].key = <<pt[s[b].id], nm[s[b].id]>>
Chained(s) == \A b \in Buckets : Holds(s, b) => Reached(s, b)
Single(s) == \A b, c \in Buckets :
  Holds(s, b) /\ Holds(s, c) /\ (s[b].id = s[c].id \/ s[b].key = s[c].key) => b = c
IndexOK(s, nm, pt) == Own(s, nm, pt) /\ Chained(s) /\ Single(s)
Has(s, i) == \E b \in Buckets : s[b].id = i
(* No point but i has the key k. *)
Avail(s, k, i) == \A b \in Buckets : Holds(s, b) /\ s[b].key = k => s[b].id = i
(* The slot c becomes the one of k and i. *)
Put(s, c, k, i) == [s EXCEPT ![c] = [key |-> k, id |-> i]]
LiveOf(s) == {b \in Buckets : Holds(s, b)}

-----------------------------------------------------------------------------
(* The shape of the state: what the call is at, where it comes from, and that *)
(* the log has a record at most for each request that is over.                *)
Records(W) == [op : {"create", "rename"}, id : Ids, name : Names, whole : W]
              \cup [op : {"delete"}, id : Ids, name : {NoName}, whole : W]
Change == Records({TRUE})
Logged == Records(BOOLEAN)

CallType == [op : {"none", "create", "delete", "rename", "load"}, part : Partitions,
             id : Ids \cup {None}, name : NameSet, at : Steps, tries : 0 .. MaxRetry - 1]
StepsOf(op) == IF op = "create" THEN {"check", "lock", "index", "undo", "log"}
           ELSE IF op = "rename" THEN {"check", "lock", "log"}
           ELSE IF op = "delete" THEN {"lock", "log"} ELSE {"lock", "index"}
CallInv ==
  /\ call \in CallType
  /\ call.at = "none" => call = NoCall
  /\ call.at # "none" =>
       /\ call.op # "none" /\ call.at \in StepsOf(call.op) /\ call.id \in Ids
       /\ call.op = "delete" => call.name = NoName
       /\ call.op # "delete" => call.name \in Names
       /\ call.op = "load" => /\ mode \in {"loading", "failing"} /\ call.part = 0
                              /\ cursor \in DOMAIN Base
                              /\ Base[cursor].id = call.id /\ Base[cursor].name = call.name
       /\ call.op # "load" => mode \in {"replaying", "serving"}
       /\ mode = "replaying" => /\ call.part = 0 /\ cursor \in DOMAIN log
                                /\ log[cursor].whole => log[cursor] = Record
       /\ call.at \in {"index", "undo"} =>
            name[call.id] = call.name /\ part[call.id] = call.part
PlaceInv ==
  /\ mode \in {"loading", "failing"} => cursor \in 1 .. Len(Base) + 1
  /\ mode = "replaying" => cursor \in 1 .. Len(log) + 1
  /\ mode = "stopped" => Fresh
  /\ mode = "crashed" => "crashed" \in flaw
LogInv ==
  /\ log \in Seq(Logged) /\ calls \in Nat
  /\ Len(log) + (IF mode = "serving" /\ call # NoCall THEN 1 ELSE 0) <= calls
ShapeInv == TypeOK /\ CallInv /\ PlaceInv /\ LogInv /\ count = Cardinality(LiveOf(slots))

-----------------------------------------------------------------------------
(* The index while the history is clean: a point without a slot is one the    *)
(* call in progress is making, or one the base configuration still loads.     *)
Clean == flaw \cap {"unchecked", "orphan", "overlay"} = {}
Indexed(i) == Has(slots, i)
Making(i) == call.op = "create" /\ call.at \in {"index", "undo"} /\ call.id = i
Awaited(i) == \E j \in DOMAIN Base :
  Base[j].id = i /\ (mode = "loading" => j >= cursor)
MissInv == \A i \in Ids : name[i] # NoName /\ ~ Indexed(i) =>
  /\ mode \in {"replaying", "serving"} => Making(i)
  /\ mode \in {"loading", "failing", "crashed", "stopped"} => Awaited(i)
StepInv ==
  /\ call.op \in {"create", "rename"} /\ call.at = "lock" => Avail(slots, Key, call.id)
  /\ call.at = "index" => Avail(slots, Key, call.id)
  /\ call.op = "create" /\ call.at \in {"index", "undo"} => ~ Indexed(call.id)
IndexInv == Clean => IndexOK(slots, name, part) /\ MissInv /\ StepInv

-----------------------------------------------------------------------------
(* The log: the registry before the call in progress is what the records make *)
(* of the base configuration, one after the other.                            *)
Carried(v, n) == \E j \in Ids : v[j] = <<0, n>>
Effect(v, r, w) ==
  \/ r.op = "create" /\ v[r.id] = None /\ ~ Carried(v, r.name) /\ w = [v EXCEPT ![r.id] = <<0, r.name>>]
  \/ r.op = "rename" /\ v[r.id] # None /\ ~ Carried(v, r.name) /\ w = [v EXCEPT ![r.id] = <<0, r.name>>]
  \/ r.op = "delete" /\ v[r.id] # None /\ w = [v EXCEPT ![r.id] = None]
Trace(f, l) == f[0] = BaseView /\ \A j \in 1 .. Len(l) : l[j].whole /\ Effect(f[j - 1], l[j], f[j])
Before(v) ==
  /\ call.at \in {"none", "check", "lock"} => v = View
  /\ call.at \in {"index", "undo"} => v = [View EXCEPT ![call.id] = None]
  /\ call.at = "log" =>
       (call.op = "create" /\ call.part # 0) \/ Effect(v, Record, View)
Orderly == flaw \subseteq {"crashed"}
ZeroInv == \A i \in Ids : name[i] # NoName /\ part[i] # 0 =>
  call.op = "create" /\ call.at \in {"index", "undo", "log"} /\ call.id = i
    /\ call.part = part[i] /\ mode = "serving"
LoadedInv ==
  /\ \A i \in Ids : name[i] # NoName => \E j \in DOMAIN Base : Base[j].id = i
  /\ \A j \in DOMAIN Base : j < cursor => name[Base[j].id] = Base[j].name
TraceInv(f) ==
  /\ Trace(f, log)
  /\ mode # "serving" => saved = f[Len(log)]
  /\ mode = "serving" => Before(f[Len(log)])
  /\ mode = "replaying" /\ flaw = {} => Before(f[cursor - 1]) /\ call.at # "undo"
LogsInv == Orderly =>
  /\ ZeroInv
  /\ mode = "loading" /\ flaw = {} => LoadedInv
  /\ \E f : TraceInv(f)
RegistryInv == ShapeInv /\ IndexInv /\ LogsInv

-----------------------------------------------------------------------------
(* Buckets and probes. *)

LEMMA Sizes ==
  /\ Capacity \in Nat /\ Capacity > 0 /\ Buckets \subseteq Nat
  /\ \A k \in Keys : Home[k] \in Nat /\ Home[k] < Capacity
  /\ IsFiniteSet(Ids) /\ Cardinality(Ids) \in Nat /\ Capacity >= 2 * Cardinality(Ids)
  /\ MaxRetry \in Nat /\ MaxRetry > 0 /\ 0 \in Partitions
<1>1. \A k \in Keys : Home[k] \in Buckets
  BY RegistryBounds
<1>2. Capacity \in Nat /\ Capacity > 0 /\ MaxRetry \in Nat /\ MaxRetry > 0 /\ 0 \in Partitions
  BY RegistryBounds
<1>3. IsFiniteSet(Ids) /\ Cardinality(Ids) \in Nat /\ Capacity >= 2 * Cardinality(Ids)
  BY RegistryBounds, FS_CardinalityType
<1>4. QED
  BY <1>1, <1>2, <1>3 DEF Buckets

LEMMA BucketIs == ASSUME NEW d PROVE d \in Buckets <=> d \in Nat /\ d < Capacity
  BY Sizes DEF Buckets

LEMMA Wraps ==
  ASSUME NEW a \in Nat, NEW m \in Nat, a < m
  PROVE  a % m = a /\ (a + m) % m = a
  OBVIOUS

LEMMA Remainder == ASSUME NEW a \in Nat, NEW m \in Nat, m > 0 PROVE a % m \in Nat /\ a % m < m
  OBVIOUS

LEMMA AtBucket == ASSUME NEW k \in Keys, NEW d \in Nat PROVE At(k, d) \in Buckets
<1>1. Home[k] + d \in Nat /\ Capacity \in Nat /\ Capacity > 0
  BY Sizes
<1>2. QED
  BY <1>1, Remainder, BucketIs DEF At

(* A probe comes to every bucket. *)
LEMMA ProbesAll == ASSUME NEW k \in Keys, NEW b \in Buckets PROVE \E d \in Buckets : At(k, d) = b
<1>1. PICK h \in Nat, m \in Nat : h = Home[k] /\ m = Capacity /\ h < m
  BY Sizes
<1>2. b \in Nat /\ b < m
  BY <1>1, BucketIs
<1>3. CASE h <= b
  <2>1. b - h \in Nat /\ b - h < m /\ h + (b - h) = b
    BY <1>1, <1>2, <1>3
  <2>2. (h + (b - h)) % m = b
    BY <1>2, <2>1, Wraps
  <2>3. QED
    BY <1>1, <2>1, <2>2, BucketIs DEF At
<1>4. CASE ~ (h <= b)
  <2>1. b - h + m \in Nat /\ b - h + m < m /\ h + (b - h + m) = b + m
    BY <1>1, <1>2, <1>4
  <2>2. (h + (b - h + m)) % m = b
    BY <1>2, <2>1, Wraps
  <2>3. QED
    BY <1>1, <2>1, <2>2, BucketIs DEF At
<1>5. QED
  BY <1>3, <1>4

LEMMA FirstIs ==
  ASSUME NEW D, D \subseteq Nat, D # {}
  PROVE  First(D) \in D /\ \A e \in D : First(D) <= e
<1>1. PICK m \in D : \A k \in D : <<k, m>> \notin OpToRel(<, Nat)
  BY WFMin, NatLessThanWellFounded, Zenon
<1>2. \A k \in D : ~ (k < m)
  BY <1>1, Zenon DEF OpToRel
<1>3. \A k \in D : m <= k
  BY <1>2
<1>4. QED
  BY <1>3 DEF First

(* The slots the proofs are about, and the records they look at. *)
Slots(s) == s \in [Buckets -> SlotRec]

LEMMA SlotType ==
  ASSUME NEW s, Slots(s), NEW b \in Buckets
  PROVE  /\ s[b] \in SlotRec /\ s[b].id \in Ids \cup {Empty, Tomb}
         /\ Holds(s, b) <=> s[b].id \notin {Empty, Tomb}
  BY RegistryMarkers DEF Slots, SlotRec, Holds

LEMMA EndIs ==
  ASSUME NEW s, NEW nm, NEW pt, NEW k
  PROVE  /\ End(s, nm, pt, k) \in Nat /\ End(s, nm, pt, k) <= Capacity
         /\ End(s, nm, pt, k) < Capacity => End(s, nm, pt, k) \in Stops(s, nm, pt, k)
         /\ \A e \in Buckets : e < End(s, nm, pt, k) => e \notin Stops(s, nm, pt, k)
<1>1. PICK D : D = Stops(s, nm, pt, k)
  OBVIOUS
<1>2. D \subseteq Buckets /\ Buckets \subseteq Nat /\ Capacity \in Nat
  BY <1>1, Sizes DEF Stops
<1>3. CASE D = {}
  BY <1>1, <1>2, <1>3 DEF End
<1>4. CASE D # {}
  <2>1. PICK m : m = First(D)
    OBVIOUS
  <2>2. m \in D /\ \A e \in D : m <= e
    BY <1>2, <1>4, <2>1, FirstIs
  <2>3. End(s, nm, pt, k) = m
    BY <1>1, <1>4, <2>1 DEF End
  <2>4. m \in Nat /\ m < Capacity
    BY <1>2, <2>2, BucketIs
  <2>5. \A e \in Buckets : e < m => e \notin D
    BY <1>2, <2>2, <2>4
  <2>6. QED
    BY <1>1, <1>2, <2>2, <2>3, <2>4, <2>5
<1>5. QED
  BY <1>3, <1>4

LEMMA FoundIs ==
  ASSUME NEW s, NEW nm, NEW pt, NEW k \in Keys, Found(s, nm, pt, k)
  PROVE  /\ At(k, End(s, nm, pt, k)) \in Buckets
         /\ Matches(s, nm, pt, At(k, End(s, nm, pt, k)), k)
<1>1. PICK e : e = End(s, nm, pt, k)
  OBVIOUS
<1>2. e \in Nat /\ e \in Stops(s, nm, pt, k) /\ s[At(k, e)].id # Empty
  BY <1>1, EndIs DEF Found
<1>3. QED
  BY <1>1, <1>2, AtBucket DEF Stops

(* The slot of a key that no other slot matches is found. *)
LEMMA FindsOnly ==
  ASSUME NEW s, NEW nm, NEW pt, NEW k \in Keys, NEW b \in Buckets,
         Holds(s, b), s[b].key = k, Reached(s, b), Matches(s, nm, pt, b, k),
         \A c \in Buckets : Matches(s, nm, pt, c, k) => c = b
  PROVE  Found(s, nm, pt, k) /\ At(k, End(s, nm, pt, k)) = b
<1>1. PICK d \in Buckets : /\ At(k, d) = b
                           /\ \A e \in Buckets : e < d => At(k, e) # b /\ s[At(k, e)].id # Empty
  BY DEF Reached, Chain
<1>2. PICK n : n = End(s, nm, pt, k)
  OBVIOUS
<1>3. d \in Nat /\ d < Capacity
  BY BucketIs
<1>4. d \in Stops(s, nm, pt, k)
  BY <1>1 DEF Stops
<1>5. \A e \in Buckets : e < d => e \notin Stops(s, nm, pt, k)
  <2>1. SUFFICES ASSUME NEW e \in Buckets, e < d PROVE e \notin Stops(s, nm, pt, k)
    OBVIOUS
  <2>2. At(k, e) \in Buckets
    BY AtBucket, BucketIs
  <2>3. QED
    BY <1>1, <2>1, <2>2 DEF Stops
<1>6. n \in Nat /\ n <= Capacity /\ Capacity \in Nat /\ (n < Capacity => n \in Stops(s, nm, pt, k))
      /\ \A e \in Buckets : e < n => e \notin Stops(s, nm, pt, k)
  BY <1>2, EndIs, Sizes
<1>7. ~ (d < n)
  BY <1>4, <1>6
<1>8. n < Capacity /\ n \in Buckets
  BY <1>3, <1>6, <1>7, BucketIs
<1>9. n = d
  BY <1>3, <1>5, <1>6, <1>7, <1>8
<1>10. s[At(k, d)].id # Empty
  BY <1>1, RegistryMarkers DEF Holds
<1>11. QED
  BY <1>1, <1>2, <1>8, <1>9, <1>10 DEF Found

(* Where an insertion writes. *)
LEMMA InsertIs ==
  ASSUME NEW s, Slots(s), NEW nm, NEW pt, NEW k \in Keys, Fits(s, nm, pt, k)
  PROVE  /\ InsertAt(s, nm, pt, k) \in Buckets /\ At(k, InsertAt(s, nm, pt, k)) \in Buckets
         /\ Found(s, nm, pt, k) => /\ InsertAt(s, nm, pt, k) = End(s, nm, pt, k)
                                   /\ Matches(s, nm, pt, At(k, InsertAt(s, nm, pt, k)), k)
         /\ ~ Found(s, nm, pt, k) =>
              /\ s[At(k, InsertAt(s, nm, pt, k))].id \in {Empty, Tomb}
              /\ \A e \in Buckets : e < InsertAt(s, nm, pt, k) =>
                   /\ At(k, e) # At(k, InsertAt(s, nm, pt, k)) /\ s[At(k, e)].id # Empty
<1>1. PICK n : n = End(s, nm, pt, k)
  OBVIOUS
<1>2. PICK T : T = {d \in Buckets : d < n /\ s[At(k, d)].id = Tomb}
  OBVIOUS
<1>3. PICK d : d = InsertAt(s, nm, pt, k)
  OBVIOUS
<1>4. d = IF ~ Found(s, nm, pt, k) /\ T # {} THEN First(T) ELSE n
  BY <1>1, <1>2, <1>3 DEF InsertAt
<1>5. n \in Nat /\ n <= Capacity /\ Capacity \in Nat /\ (n < Capacity => n \in Stops(s, nm, pt, k))
      /\ \A e \in Buckets : e < n => e \notin Stops(s, nm, pt, k)
  BY <1>1, EndIs, Sizes
<1>6. T \subseteq Buckets /\ Buckets \subseteq Nat
  BY <1>2, Sizes
<1>7. d < Capacity
  BY <1>3 DEF Fits
<1>8. CASE Found(s, nm, pt, k)
  <2>1. d = n /\ d \in Buckets
    BY <1>4, <1>5, <1>7, <1>8, BucketIs
  <2>2. QED
    BY <1>1, <1>3, <1>8, <2>1, FoundIs
<1>9. CASE ~ Found(s, nm, pt, k)
  <2>1. d \in Buckets /\ d <= n /\ s[At(k, d)].id \in {Empty, Tomb}
        /\ \A e \in Buckets : e < d => s[At(k, e)].id # Tomb
    <3>1. CASE T # {}
      <4>1. d \in T /\ \A e \in T : d <= e
        BY <1>4, <1>6, <1>9, <3>1, FirstIs
      <4>2. d \in Nat /\ d < n
        BY <1>2, <1>6, <4>1
      <4>3. \A e \in Buckets : e < d => e \notin T /\ e < n
        BY <1>5, <1>6, <4>1, <4>2
      <4>4. QED
        BY <1>2, <1>5, <4>1, <4>2, <4>3
    <3>2. CASE T = {}
      <4>1. d = n /\ d \in Buckets
        BY <1>4, <1>5, <1>7, <3>2, BucketIs
      <4>2. s[At(k, d)].id = Empty
        BY <1>1, <1>7, <1>9, <4>1 DEF Found
      <4>3. QED
        BY <1>2, <1>5, <3>2, <4>1, <4>2
    <3>3. QED
      BY <3>1, <3>2
  <2>2. ASSUME NEW e \in Buckets, e < d
        PROVE  At(k, e) # At(k, d) /\ s[At(k, e)].id # Empty
    <3>1. e < n
      BY <1>5, <1>6, <2>1, <2>2
    <3>2. e \notin Stops(s, nm, pt, k)
      BY <1>5, <3>1
    <3>3. s[At(k, e)].id # Empty
      BY <3>2 DEF Stops
    <3>4. s[At(k, e)].id # Tomb
      BY <2>1, <2>2
    <3>5. QED
      BY <2>1, <3>3, <3>4
  <2>3. At(k, d) \in Buckets
    BY <2>1, AtBucket, BucketIs
  <2>4. QED
    BY <1>3, <1>9, <2>1, <2>2, <2>3
<1>10. QED
  BY <1>8, <1>9

-----------------------------------------------------------------------------
(* What an insertion and a removal make of the slots. *)

LEMMA InsertedIs ==
  ASSUME NEW s, Slots(s), NEW nm, NEW pt, NEW k \in Keys, NEW i \in Ids, Fits(s, nm, pt, k)
  PROVE  \E c \in Buckets :
           /\ Inserted(s, nm, pt, k, i) = Put(s, c, k, i)
           /\ Slots(Inserted(s, nm, pt, k, i))
           /\ Found(s, nm, pt, k) => Matches(s, nm, pt, c, k)
           /\ ~ Found(s, nm, pt, k) =>
                s[c].id \in {Empty, Tomb} /\ Chain(s, k, c)
<1>1. PICK d \in Buckets : d = InsertAt(s, nm, pt, k)
  BY InsertIs
<1>2. PICK c \in Buckets : c = At(k, d)
  BY <1>1, InsertIs
<1>3. [key |-> k, id |-> i] \in SlotRec
  BY DEF SlotRec, Keys, NameSet
<1>4. Slots(Put(s, c, k, i))
  BY <1>3 DEF Slots, Put
<1>5. Inserted(s, nm, pt, k, i) = Put(s, c, k, i)
  BY <1>1, <1>2 DEF Inserted, Put
<1>6. /\ Found(s, nm, pt, k) => Matches(s, nm, pt, c, k)
      /\ ~ Found(s, nm, pt, k) => s[c].id \in {Empty, Tomb}
           /\ \A e \in Buckets : e < d => At(k, e) # c /\ s[At(k, e)].id # Empty
  BY <1>1, <1>2, InsertIs
<1>7. ~ Found(s, nm, pt, k) => Chain(s, k, c)
  BY <1>2, <1>6 DEF Chain
<1>8. QED
  BY <1>4, <1>5, <1>6, <1>7

LEMMA RemovedIs ==
  ASSUME NEW s, Slots(s), NEW nm, NEW pt, NEW k \in Keys
  PROVE  /\ Slots(Removed(s, nm, pt, k))
         /\ ~ Found(s, nm, pt, k) => Removed(s, nm, pt, k) = s
         /\ Found(s, nm, pt, k) => \E c \in Buckets :
              /\ Removed(s, nm, pt, k) = Put(s, c, k, Tomb)
              /\ Matches(s, nm, pt, c, k) /\ c = At(k, End(s, nm, pt, k))
<1>1. [key |-> k, id |-> Tomb] \in SlotRec
  BY DEF SlotRec, Keys, NameSet
<1>2. CASE Found(s, nm, pt, k)
  <2>1. PICK c \in Buckets : c = At(k, End(s, nm, pt, k)) /\ Matches(s, nm, pt, c, k)
    BY <1>2, FoundIs
  <2>2. Removed(s, nm, pt, k) = Put(s, c, k, Tomb)
    BY <1>2, <2>1 DEF Removed, Put
  <2>3. QED
    BY <1>1, <1>2, <2>1, <2>2 DEF Slots, Put
<1>3. CASE ~ Found(s, nm, pt, k)
  BY <1>3 DEF Removed, Put
<1>4. QED
  BY <1>2, <1>3

LEMMA LiveSize ==
  ASSUME NEW s
  PROVE  IsFiniteSet(LiveOf(s)) /\ Cardinality(LiveOf(s)) \in Nat /\ Cardinality(LiveOf(s)) <= Capacity
<1>1. 0 \in Int /\ Capacity - 1 \in Int /\ Capacity \in Nat /\ Capacity > 0
  BY Sizes
<1>2. /\ IsFiniteSet(0 .. Capacity - 1)
      /\ Cardinality(0 .. Capacity - 1) = IF 0 > Capacity - 1 THEN 0 ELSE Capacity - 1 - 0 + 1
  BY <1>1, FS_Interval
<1>3. Cardinality(0 .. Capacity - 1) = Capacity
  BY <1>1, <1>2
<1>4. IsFiniteSet(Buckets) /\ Cardinality(Buckets) = Capacity
  BY <1>2, <1>3, Zenon DEF Buckets
<1>5. LiveOf(s) \subseteq Buckets
  BY DEF LiveOf
<1>6. IsFiniteSet(LiveOf(s)) /\ Cardinality(LiveOf(s)) <= Cardinality(Buckets)
  BY <1>4, <1>5, FS_Subset
<1>7. QED
  BY <1>4, <1>6, FS_CardinalityType

LEMMA InsertCounts ==
  ASSUME NEW s, Slots(s), NEW nm, NEW pt, NEW k \in Keys, NEW i \in Ids, Fits(s, nm, pt, k)
  PROVE  Cardinality(LiveOf(Inserted(s, nm, pt, k, i))) = Cardinality(LiveOf(s)) + Grown(s, nm, pt, k)
<1>1. PICK c \in Buckets :
        /\ Inserted(s, nm, pt, k, i) = Put(s, c, k, i)
        /\ Found(s, nm, pt, k) => Matches(s, nm, pt, c, k)
        /\ ~ Found(s, nm, pt, k) => s[c].id \in {Empty, Tomb}
  BY InsertedIs
<1>2. PICK t : t = Put(s, c, k, i)
  OBVIOUS
<1>3. Holds(t, c) /\ \A b \in Buckets : b # c => t[b] = s[b]
  BY <1>2 DEF Slots, Holds, Put
<1>4. LiveOf(t) = LiveOf(s) \cup {c}
  BY <1>3 DEF LiveOf, Holds
<1>5. Cardinality(LiveOf(s)) \in Nat /\ IsFiniteSet(LiveOf(s))
  BY LiveSize
<1>6. CASE Found(s, nm, pt, k)
  <2>1. c \in LiveOf(s)
    BY <1>1, <1>6 DEF Matches, LiveOf, Holds
  <2>2. LiveOf(t) = LiveOf(s) /\ Grown(s, nm, pt, k) = 0
    BY <1>4, <1>6, <2>1 DEF Grown
  <2>3. QED
    BY <1>1, <1>2, <1>5, <2>2
<1>7. CASE ~ Found(s, nm, pt, k)
  <2>1. c \notin LiveOf(s)
    BY <1>1, <1>7, SlotType DEF LiveOf
  <2>2. Cardinality(LiveOf(s) \cup {c}) = Cardinality(LiveOf(s)) + 1
    BY <1>5, <2>1, FS_AddElement
  <2>3. Grown(s, nm, pt, k) = 1
    BY <1>7 DEF Grown
  <2>4. QED
    BY <1>1, <1>2, <1>4, <2>2, <2>3
<1>8. QED
  BY <1>6, <1>7

LEMMA RemoveCounts ==
  ASSUME NEW s, Slots(s), NEW nm, NEW pt, NEW k \in Keys
  PROVE  Cardinality(LiveOf(Removed(s, nm, pt, k))) = Shrunk(s, nm, pt, k, Cardinality(LiveOf(s)))
<1>1. Cardinality(LiveOf(s)) \in Nat /\ IsFiniteSet(LiveOf(s))
  BY LiveSize
<1>2. CASE Found(s, nm, pt, k)
  <2>1. PICK c \in Buckets : /\ Removed(s, nm, pt, k) = Put(s, c, k, Tomb)
                             /\ Matches(s, nm, pt, c, k)
    BY <1>2, RemovedIs
  <2>2. PICK t : t = Put(s, c, k, Tomb)
    OBVIOUS
  <2>3. ~ Holds(t, c) /\ \A b \in Buckets : b # c => t[b] = s[b]
    BY <2>2, RegistryMarkers DEF Slots, Holds, Put
  <2>4. LiveOf(t) = LiveOf(s) \ {c} /\ c \in LiveOf(s)
    BY <2>1, <2>3 DEF LiveOf, Holds, Matches
  <2>5. Cardinality(LiveOf(s) \ {c}) = Cardinality(LiveOf(s)) - 1
    BY <1>1, <2>4, FS_RemoveElement
  <2>6. Cardinality(LiveOf(s)) # 0
    BY <1>1, <2>4, FS_EmptySet
  <2>7. Shrunk(s, nm, pt, k, Cardinality(LiveOf(s))) = Cardinality(LiveOf(s)) - 1
    BY <1>1, <1>2, <2>6 DEF Shrunk
  <2>8. QED
    BY <2>1, <2>2, <2>4, <2>5, <2>7
<1>3. CASE ~ Found(s, nm, pt, k)
  BY <1>3, RemovedIs DEF Shrunk
<1>4. QED
  BY <1>2, <1>3

-----------------------------------------------------------------------------
(* Looking up. *)

LEMMA LiveKey ==
  ASSUME NEW s, Slots(s), NEW nm, NEW pt, Own(s, nm, pt), NEW b \in Buckets, Holds(s, b)
  PROVE  s[b].key \in Keys /\ s[b].key = <<pt[s[b].id], nm[s[b].id]>> /\ Matches(s, nm, pt, b, s[b].key)
<1>1. s[b].key \in Partitions \X NameSet
  BY SlotType DEF SlotRec
<1>2. s[b].key = <<pt[s[b].id], nm[s[b].id]>> /\ nm[s[b].id] \in Names /\ s[b].id \in Ids
  BY DEF Own, Holds
<1>3. s[b].key \in Keys
  BY <1>1, <1>2 DEF Keys
<1>4. QED
  BY <1>2, <1>3 DEF Matches

LEMMA FindsLive ==
  ASSUME NEW s, Slots(s), NEW nm, NEW pt, IndexOK(s, nm, pt), NEW b \in Buckets, Holds(s, b)
  PROVE  Found(s, nm, pt, s[b].key) /\ At(s[b].key, End(s, nm, pt, s[b].key)) = b
<1>1. PICK k \in Keys : k = s[b].key /\ Matches(s, nm, pt, b, k)
  BY LiveKey DEF IndexOK
<1>2. \A c \in Buckets : Matches(s, nm, pt, c, k) => c = b
  BY <1>1 DEF Matches, IndexOK, Single, Holds
<1>3. QED
  BY <1>1, <1>2, FindsOnly DEF IndexOK, Chained

LEMMA FoundLive ==
  ASSUME NEW s, Slots(s), NEW nm, NEW pt, NEW k \in Keys, Found(s, nm, pt, k)
  PROVE  \E b \in Buckets : b = At(k, End(s, nm, pt, k)) /\ Holds(s, b) /\ s[b].key = k
  BY FoundIs DEF Matches, Holds

(* With half of the buckets for the points, one is always free. *)
LEMMA AlwaysFits ==
  ASSUME NEW s, Slots(s), NEW nm, NEW pt, IndexOK(s, nm, pt), NEW k \in Keys, NEW i \in Ids
  PROVE  Fits(s, nm, pt, k)
<1>1. SUFFICES ASSUME ~ Fits(s, nm, pt, k) PROVE FALSE
  OBVIOUS
<1>2. PICK n : n = End(s, nm, pt, k)
  OBVIOUS
<1>3. n \in Nat /\ n <= Capacity /\ Capacity \in Nat /\ (n < Capacity => n \in Stops(s, nm, pt, k))
      /\ \A e \in Buckets : e < n => e \notin Stops(s, nm, pt, k)
  BY <1>2, EndIs, Sizes
<1>4. PICK T : T = {d \in Buckets : d < n /\ s[At(k, d)].id = Tomb}
  OBVIOUS
<1>5. InsertAt(s, nm, pt, k) = IF ~ Found(s, nm, pt, k) /\ T # {} THEN First(T) ELSE n
  BY <1>2, <1>4 DEF InsertAt
<1>6. n = Capacity
  <2>1. CASE ~ Found(s, nm, pt, k) /\ T # {}
    <3>1. First(T) \in T
      BY <1>4, <2>1, FirstIs, Sizes
    <3>2. First(T) < Capacity
      BY <1>4, <3>1, BucketIs
    <3>3. QED
      BY <1>1, <1>5, <2>1, <3>2 DEF Fits
  <2>2. CASE ~ (~ Found(s, nm, pt, k) /\ T # {})
    <3>1. InsertAt(s, nm, pt, k) = n
      BY <1>5, <2>2, Zenon
    <3>2. QED
      BY <1>1, <1>3, <3>1 DEF Fits
  <2>3. QED
    BY <2>1, <2>2
<1>7. T = {}
  <2>1. ~ Found(s, nm, pt, k)
    BY <1>2, <1>3, <1>6 DEF Found
  <2>2. SUFFICES ASSUME T # {} PROVE FALSE
    OBVIOUS
  <2>3. First(T) \in T /\ InsertAt(s, nm, pt, k) = First(T)
    BY <1>4, <1>5, <2>1, <2>2, FirstIs, Sizes
  <2>4. First(T) < Capacity
    BY <1>4, <2>3, BucketIs
  <2>5. QED
    BY <1>1, <2>3, <2>4 DEF Fits
<1>8. \A b \in Buckets : Holds(s, b)
  <2>1. TAKE b \in Buckets
  <2>2. PICK d \in Buckets : At(k, d) = b
    BY ProbesAll
  <2>3. d < n
    BY <1>6, BucketIs
  <2>4. d \notin Stops(s, nm, pt, k) /\ d \notin T
    BY <1>3, <1>7, <2>3
  <2>5. s[b].id # Empty /\ s[b].id # Tomb
    BY <1>4, <2>2, <2>3, <2>4 DEF Stops
  <2>6. QED
    BY <2>5, SlotType
<1> DEFINE f == [b \in Buckets |-> s[b].id]
<1>9. f \in Injection(Buckets, Ids)
  <2>1. f \in [Buckets -> Ids]
    BY <1>8 DEF Holds
  <2>2. ASSUME NEW b \in Buckets, NEW c \in Buckets, f[b] = f[c] PROVE b = c
    BY <1>8, <2>2 DEF IndexOK, Single
  <2>3. QED
    BY <2>1, <2>2 DEF Injection, IsInjective
<1>10. Cardinality(Buckets) <= Cardinality(Ids)
  BY <1>9, Sizes, FS_Injection
<1>11. Cardinality(Buckets) = Capacity
  <2>1. 0 \in Int /\ Capacity - 1 \in Int /\ Capacity > 0
    BY Sizes
  <2>2. Cardinality(0 .. Capacity - 1) = IF 0 > Capacity - 1 THEN 0 ELSE Capacity - 1 - 0 + 1
    BY <2>1, FS_Interval
  <2>3. Cardinality(0 .. Capacity - 1) = Capacity
    BY <1>3, <2>1, <2>2
  <2>4. QED
    BY <2>3, Zenon DEF Buckets
<1>12. Cardinality(Ids) # 0
  BY Sizes, FS_EmptySet
<1>13. Capacity <= Cardinality(Ids)
  BY <1>10, <1>11
<1>14. QED
  BY <1>12, <1>13, Sizes

-----------------------------------------------------------------------------
(* Insertions and removals keep the index. *)

(* A chain is not cut by a slot that is taken or becomes a tombstone. *)
LEMMA ReachedStays ==
  ASSUME NEW s, Slots(s), NEW b \in Buckets, Reached(s, b), s[b].key \in Keys,
         NEW c \in Buckets, c # b, NEW k, NEW i, i # Empty
  PROVE  Reached(Put(s, c, k, i), b)
<1>1. PICK d \in Buckets : /\ At(s[b].key, d) = b
                           /\ \A e \in Buckets : e < d => At(s[b].key, e) # b /\ s[At(s[b].key, e)].id # Empty
  BY DEF Reached, Chain
<1>2. PICK t : t = Put(s, c, k, i)
  OBVIOUS
<1>3. t[b] = s[b] /\ t[c].id = i /\ \A a \in Buckets : a # c => t[a] = s[a]
  BY <1>2 DEF Slots, Put
<1>4. ASSUME NEW e \in Buckets, e < d
      PROVE  At(t[b].key, e) # b /\ t[At(t[b].key, e)].id # Empty
  <2>1. At(s[b].key, e) \in Buckets
    BY AtBucket, BucketIs
  <2>2. QED
    BY <1>1, <1>3, <1>4, <2>1
<1>5. Reached(t, b)
  BY <1>1, <1>3, <1>4 DEF Reached, Chain
<1>6. QED
  BY <1>2, <1>5

LEMMA IndexFrame ==
  ASSUME NEW s, NEW nm, NEW pt, IndexOK(s, nm, pt), NEW nm2, NEW pt2,
         \A j \in Ids : Has(s, j) => nm2[j] = nm[j] /\ pt2[j] = pt[j]
  PROVE  IndexOK(s, nm2, pt2)
<1>1. Own(s, nm2, pt2)
  BY DEF Own, IndexOK, Has, Holds
<1>2. QED
  BY <1>1 DEF IndexOK

(* A key that only i may have, and a slot that is free. *)
LEMMA AddIndex ==
  ASSUME NEW s, Slots(s), NEW nm, NEW pt, IndexOK(s, nm, pt), NEW k \in Keys, NEW i \in Ids,
         nm[i] \in Names, <<pt[i], nm[i]>> = k, ~ Has(s, i),
         \A b \in Buckets : Holds(s, b) => s[b].key # k,
         NEW c \in Buckets, s[c].id \in {Empty, Tomb}, Chain(s, k, c),
         NEW t, t = Put(s, c, k, i)
  PROVE  /\ IndexOK(t, nm, pt) /\ Has(t, i)
         /\ \A j \in Ids : j # i => (Has(t, j) <=> Has(s, j))
<1>1. /\ t[c].key = k /\ t[c].id = i /\ \A b \in Buckets : b # c => t[b] = s[b]
      /\ ~ Holds(s, c)
  BY SlotType DEF Slots, Put
<1>2. \A b \in Buckets : Holds(t, b) => b = c \/ (Holds(s, b) /\ b # c)
  BY <1>1 DEF Holds
<1>3. Own(t, nm, pt)
  BY <1>1, <1>2 DEF Own, IndexOK
<1>4. Chained(t)
  <2>1. SUFFICES ASSUME NEW b \in Buckets, Holds(t, b) PROVE Reached(t, b)
    BY DEF Chained
  <2>2. CASE b = c
    <3>0. PICK d \in Buckets : At(k, d) = c /\
            \A e \in Buckets : e < d => At(k, e) # c /\ s[At(k, e)].id # Empty
      BY DEF Chain
    <3>1. ASSUME NEW e \in Buckets, e < d
          PROVE  At(t[c].key, e) # c /\ t[At(t[c].key, e)].id # Empty
      <4>1. At(k, e) \in Buckets
        BY AtBucket, BucketIs
      <4>2. QED
        BY <1>1, <3>0, <3>1, <4>1
    <3>2. QED
      BY <1>1, <2>2, <3>0, <3>1 DEF Reached, Chain
  <2>3. CASE b # c
    <3>1. Holds(s, b)
      BY <1>2, <2>1, <2>3
    <3>2. Reached(s, b) /\ s[b].key \in Keys
      BY <3>1, LiveKey DEF IndexOK, Chained
    <3>3. i # Empty
      BY RegistryMarkers
    <3>4. QED
      BY <2>3, <3>2, <3>3, ReachedStays
  <2>4. QED
    BY <2>2, <2>3
<1>5. Single(t)
  <2>1. SUFFICES ASSUME NEW a \in Buckets, NEW b \in Buckets, Holds(t, a), Holds(t, b),
                        t[a].id = t[b].id \/ t[a].key = t[b].key
                 PROVE  a = b
    BY DEF Single
  <2>2. CASE a # c /\ b # c
    BY <1>1, <1>2, <2>1, <2>2 DEF IndexOK, Single
  <2>3. ASSUME NEW x \in Buckets, x # c, Holds(t, x) PROVE t[x].id # i /\ t[x].key # k
    BY <1>1, <1>2, <2>3 DEF Has
  <2>4. CASE a = c /\ b # c
    <3>1. t[b].id # i /\ t[b].key # k
      BY <2>1, <2>3, <2>4
    <3>2. QED
      BY <1>1, <2>1, <2>4, <3>1
  <2>5. CASE a # c /\ b = c
    <3>1. t[a].id # i /\ t[a].key # k
      BY <2>1, <2>3, <2>5
    <3>2. QED
      BY <1>1, <2>1, <2>5, <3>1
  <2>6. QED
    BY <2>2, <2>4, <2>5
<1>6. Has(t, i) /\ \A j \in Ids : j # i => (Has(t, j) <=> Has(s, j))
  BY <1>1, RegistryMarkers DEF Has, Holds
<1>7. QED
  BY <1>3, <1>4, <1>5, <1>6 DEF IndexOK

LEMMA InsertIndex ==
  ASSUME NEW s, Slots(s), NEW nm, NEW pt, IndexOK(s, nm, pt), NEW k \in Keys, NEW i \in Ids,
         nm[i] \in Names, <<pt[i], nm[i]>> = k, Avail(s, k, i), Fits(s, nm, pt, k)
  PROVE  /\ IndexOK(Inserted(s, nm, pt, k, i), nm, pt) /\ Has(Inserted(s, nm, pt, k, i), i)
         /\ \A j \in Ids : j # i => (Has(Inserted(s, nm, pt, k, i), j) <=> Has(s, j))
         /\ Has(s, i) => Inserted(s, nm, pt, k, i) = s
<1>1. PICK c \in Buckets :
        /\ Inserted(s, nm, pt, k, i) = Put(s, c, k, i)
        /\ Found(s, nm, pt, k) => Matches(s, nm, pt, c, k)
        /\ ~ Found(s, nm, pt, k) =>
             s[c].id \in {Empty, Tomb} /\ Chain(s, k, c)
  BY InsertedIs
<1>2. PICK t : t = Put(s, c, k, i)
  OBVIOUS
<1>3. CASE Found(s, nm, pt, k)
  <2>1. s[c].key = k /\ s[c].id = i /\ s[c] \in SlotRec
    BY <1>1, <1>3, SlotType DEF Matches, Avail, Holds
  <2>2. s[c] = [key |-> k, id |-> i]
    BY <2>1 DEF SlotRec
  <2>3. t = s
    BY <1>2, <2>2 DEF Slots, Put
  <2>4. Has(s, i)
    BY <2>1 DEF Has
  <2>5. QED
    BY <1>1, <1>2, <2>3, <2>4
<1>4. CASE ~ Found(s, nm, pt, k)
  <2>1. \A b \in Buckets : Holds(s, b) => s[b].key # k
    BY <1>4, FindsLive
  <2>2. ~ Has(s, i)
    <3>1. SUFFICES ASSUME NEW b \in Buckets, s[b].id = i PROVE FALSE
      BY DEF Has
    <3>2. Holds(s, b)
      BY <3>1 DEF Holds
    <3>3. s[b].key = k
      BY <3>1, <3>2 DEF IndexOK, Own
    <3>4. QED
      BY <2>1, <3>2, <3>3
  <2>3. s[c].id \in {Empty, Tomb} /\ Chain(s, k, c)
    BY <1>1, <1>4
  <2>4. /\ IndexOK(t, nm, pt) /\ Has(t, i)
        /\ \A j \in Ids : j # i => (Has(t, j) <=> Has(s, j))
    BY <1>2, <2>1, <2>2, <2>3, AddIndex
  <2>5. QED
    BY <1>1, <1>2, <2>2, <2>4
<1>5. QED
  BY <1>3, <1>4

(* The slot b becomes a tombstone. *)
LEMMA DropIndex ==
  ASSUME NEW s, Slots(s), NEW nm, NEW pt, IndexOK(s, nm, pt), NEW b \in Buckets, Holds(s, b),
         NEW k, NEW t, t = Put(s, b, k, Tomb)
  PROVE  /\ IndexOK(t, nm, pt) /\ ~ Has(t, s[b].id)
         /\ \A j \in Ids : j # s[b].id => (Has(t, j) <=> Has(s, j))
<1>1. t[b].id = Tomb /\ ~ Holds(t, b) /\ \A a \in Buckets : a # b => t[a] = s[a]
  BY RegistryMarkers DEF Slots, Holds, Put
<1>2. \A a \in Buckets : Holds(t, a) => a # b /\ Holds(s, a)
  BY <1>1 DEF Holds
<1>3. Own(t, nm, pt) /\ Single(t)
  BY <1>1, <1>2 DEF IndexOK, Own, Single
<1>4. Chained(t)
  <2>1. SUFFICES ASSUME NEW a \in Buckets, Holds(t, a) PROVE Reached(t, a)
    BY DEF Chained
  <2>2. a # b /\ Holds(s, a)
    BY <1>2, <2>1
  <2>3. Reached(s, a) /\ s[a].key \in Keys
    BY <2>2, LiveKey DEF IndexOK, Chained
  <2>4. Tomb # Empty
    BY RegistryMarkers
  <2>5. QED
    BY <2>2, <2>3, <2>4, ReachedStays
<1>5. ~ Has(t, s[b].id)
  <2>1. SUFFICES ASSUME NEW a \in Buckets, t[a].id = s[b].id PROVE FALSE
    BY DEF Has
  <2>2. Holds(t, a)
    BY <2>1 DEF Holds
  <2>3. QED
    BY <1>1, <1>2, <2>1, <2>2 DEF IndexOK, Single
<1>6. \A j \in Ids : j # s[b].id => (Has(t, j) <=> Has(s, j))
  BY <1>1, RegistryMarkers DEF Has
<1>7. QED
  BY <1>3, <1>4, <1>5, <1>6 DEF IndexOK

LEMMA RemoveIndex ==
  ASSUME NEW s, Slots(s), NEW nm, NEW pt, IndexOK(s, nm, pt), NEW i \in Ids, Has(s, i)
  PROVE  LET k == <<pt[i], nm[i]>>
             t == Removed(s, nm, pt, k)
         IN  /\ k \in Keys /\ Found(s, nm, pt, k)
             /\ IndexOK(t, nm, pt) /\ ~ Has(t, i)
             /\ \A j \in Ids : j # i => (Has(t, j) <=> Has(s, j))
<1>1. PICK b \in Buckets : s[b].id = i /\ Holds(s, b)
  BY DEF Has, Holds
<1>2. PICK k \in Keys : k = <<pt[i], nm[i]>> /\ s[b].key = k
  BY <1>1, LiveKey DEF IndexOK
<1>3. Found(s, nm, pt, k) /\ At(k, End(s, nm, pt, k)) = b
  BY <1>1, <1>2, FindsLive
<1>4. Removed(s, nm, pt, k) = Put(s, b, k, Tomb)
  BY <1>3 DEF Removed, Put
<1>5. PICK t : t = Removed(s, nm, pt, k)
  OBVIOUS
<1>6. /\ IndexOK(t, nm, pt) /\ ~ Has(t, i)
      /\ \A j \in Ids : j # i => (Has(t, j) <=> Has(s, j))
  BY <1>1, <1>4, <1>5, DropIndex
<1>7. QED
  BY <1>2, <1>3, <1>5, <1>6

(* The new key goes in while the record still has the old name. *)
LEMMA RenameIndex ==
  ASSUME NEW s, Slots(s), NEW nm, NEW pt, IndexOK(s, nm, pt), NEW i \in Ids, Has(s, i),
         NEW n \in Names, n # nm[i], NEW k \in Keys, k = <<pt[i], n>>, Avail(s, k, i),
         Fits(s, nm, pt, k), NEW nm2, nm2[i] = n, \A j \in Ids : j # i => nm2[j] = nm[j]
  PROVE  LET old == <<pt[i], nm[i]>>
             u == Inserted(s, nm, pt, k, i)
             t == Removed(u, nm, pt, old)
         IN  /\ old \in Keys /\ ~ Found(s, nm, pt, k) /\ Found(u, nm, pt, old)
             /\ IndexOK(t, nm2, pt) /\ \A j \in Ids : Has(t, j) <=> Has(s, j)
<1>1. PICK b \in Buckets : s[b].id = i /\ Holds(s, b)
  BY DEF Has, Holds
<1>2. PICK old \in Keys : old = <<pt[i], nm[i]>> /\ s[b].key = old /\ Matches(s, nm, pt, b, old)
  BY <1>1, LiveKey DEF IndexOK
<1>3. old # k
  BY <1>2
<1>4. \A a \in Buckets : Holds(s, a) => s[a].key # k
  BY <1>1, <1>2, <1>3 DEF Avail, IndexOK, Single
<1>5. ~ Found(s, nm, pt, k)
  BY <1>4, FoundLive
<1>6. PICK c \in Buckets :
        /\ Inserted(s, nm, pt, k, i) = Put(s, c, k, i)
        /\ s[c].id \in {Empty, Tomb} /\ Chain(s, k, c)
  BY <1>5, InsertedIs
<1>7. PICK u : u = Inserted(s, nm, pt, k, i) /\ Slots(u)
  BY InsertedIs
<1>8. /\ u[c].key = k /\ u[c].id = i /\ \A a \in Buckets : a # c => u[a] = s[a]
      /\ ~ Holds(s, c) /\ c # b
  BY <1>1, <1>6, <1>7, SlotType DEF Slots, Put
<1>9. Found(u, nm, pt, old) /\ At(old, End(u, nm, pt, old)) = b
  <2>1. Holds(u, b) /\ u[b].key = old /\ Matches(u, nm, pt, b, old)
    BY <1>1, <1>2, <1>8 DEF Holds, Matches
  <2>2. Reached(u, b)
    <3>1. Reached(s, b) /\ s[b].key \in Keys
      BY <1>1, <1>2 DEF IndexOK, Chained
    <3>2. i # Empty
      BY RegistryMarkers
    <3>3. QED
      BY <1>6, <1>7, <1>8, <3>1, <3>2, ReachedStays
  <2>3. ASSUME NEW a \in Buckets, Matches(u, nm, pt, a, old) PROVE a = b
    <3>1. a # c /\ Holds(s, a) /\ s[a].key = old
      BY <1>3, <1>8, <2>3 DEF Matches, Holds
    <3>2. QED
      BY <1>1, <1>2, <3>1 DEF IndexOK, Single
  <2>4. QED
    BY <2>1, <2>2, <2>3, FindsOnly
<1>10. PICK t : t = Removed(u, nm, pt, old)
  OBVIOUS
<1>11. t = Put(u, b, old, Tomb)
  BY <1>9, <1>10 DEF Removed, Put
<1>12. PICK w : w = Put(s, b, old, Tomb)
  OBVIOUS
<1>13. IndexOK(w, nm, pt) /\ ~ Has(w, i) /\ (\A j \in Ids : j # i => (Has(w, j) <=> Has(s, j)))
       /\ Slots(w)
  <2>1. [key |-> old, id |-> Tomb] \in SlotRec
    BY DEF SlotRec, Keys, NameSet
  <2>2. Slots(w)
    BY <1>12, <2>1 DEF Slots, Put
  <2>3. QED
    BY <1>1, <1>12, <2>2, DropIndex
<1>14. /\ w[b].id = Tomb /\ w[b].key = old /\ \A a \in Buckets : a # b => w[a] = s[a]
  BY <1>12 DEF Slots, Put
<1>15. t = Put(w, c, k, i)
  BY <1>6, <1>7, <1>8, <1>11, <1>12 DEF Slots, Put
<1>16. IndexOK(w, nm2, pt)
  <2>1. \A j \in Ids : Has(w, j) => nm2[j] = nm[j] /\ pt[j] = pt[j]
    BY <1>13
  <2>2. QED
    BY <1>13, <2>1, IndexFrame
<1>17. PICK d \in Buckets : At(k, d) = c /\
          \A e \in Buckets : e < d => At(k, e) # c /\ s[At(k, e)].id # Empty
  BY <1>6 DEF Chain
<1>18. \A e \in Buckets : e < d => At(k, e) # c /\ w[At(k, e)].id # Empty
  <2>1. SUFFICES ASSUME NEW e \in Buckets, e < d PROVE w[At(k, e)].id # Empty
    BY <1>17
  <2>2. At(k, e) \in Buckets
    BY AtBucket, BucketIs
  <2>3. QED
    BY <1>14, <1>17, <2>1, <2>2, RegistryMarkers
<1>19. /\ w[c].id \in {Empty, Tomb}
       /\ \A a \in Buckets : Holds(w, a) => w[a].key # k
  BY <1>4, <1>6, <1>8, <1>14, RegistryMarkers DEF Holds
<1>20. /\ IndexOK(t, nm2, pt) /\ Has(t, i)
       /\ \A j \in Ids : j # i => (Has(t, j) <=> Has(w, j))
  <2>1. nm2[i] \in Names /\ <<pt[i], nm2[i]>> = k /\ ~ Has(w, i) /\ Slots(w)
    BY <1>13
  <2>2. Chain(w, k, c)
    BY <1>17, <1>18 DEF Chain
  <2>3. QED
    BY <1>15, <1>16, <1>19, <2>1, <2>2, AddIndex
<1>21. \A j \in Ids : Has(t, j) <=> Has(s, j)
  BY <1>13, <1>20
<1>22. QED
  BY <1>2, <1>5, <1>7, <1>9, <1>10, <1>20, <1>21

-----------------------------------------------------------------------------
(* The shape of the state is kept. *)

LEMMA Words ==
  /\ NoCall \in CallType /\ NoCall.at = "none" /\ NoCall.op = "none" /\ NoCall.id = None
  /\ NoName \notin Names /\ None \notin Ids /\ None \notin Keys
  /\ {"check", "lock", "index", "undo", "log"} \subseteq Steps
  /\ \A op \in {"none", "create", "delete", "rename", "load"} : StepsOf(op) \subseteq Steps \ {"none"}
<1>1. 0 \in 0 .. MaxRetry - 1 /\ 0 \in Partitions
  BY Sizes
<1>2. QED
  BY <1>1, RegistryMarkers DEF NoCall, CallType, Steps, StepsOf, NameSet

LEMMA BaseIs ==
  /\ Len(Base) \in Nat /\ DOMAIN Base = 1 .. Len(Base)
  /\ \A j \in DOMAIN Base : Base[j].id \in Ids /\ Base[j].name \in Names
<1>1. PICK S : S = [id : Ids, name : Names]
  OBVIOUS
<1>2. Base \in Seq(S)
  BY <1>1, RegistryBounds
<1>3. /\ Len(Base) \in Nat /\ DOMAIN Base = 1 .. Len(Base)
      /\ \A j \in DOMAIN Base : Base[j] \in S
  BY <1>2
<1>4. QED
  BY <1>1, <1>3

LEMMA LogIs ==
  ASSUME LogInv
  PROVE  /\ Len(log) \in Nat /\ DOMAIN log = 1 .. Len(log)
         /\ \A j \in DOMAIN log : log[j] \in Logged
  BY DEF LogInv

(* A call goes on to another of its steps. *)
LEMMA GoesOn ==
  ASSUME ShapeInv, call.at # "none", NEW st \in Steps \ {"none"}, st \in StepsOf(call.op), GoTo(st),
         mode' = mode, log' = log,
         st \in {"index", "undo"} => name'[call.id] = call.name /\ part'[call.id] = call.part
  PROVE  /\ CallInv' /\ call # NoCall /\ call' # NoCall
         /\ call'.op = call.op /\ call'.id = call.id /\ call'.name = call.name
         /\ call'.part = call.part /\ call'.at = st /\ call'.tries = 0 /\ Key' = Key /\ Record' = Record
<1>1. PICK c \in CallType : c = call
  BY DEF ShapeInv, CallInv
<1>2. 0 \in 0 .. MaxRetry - 1
  BY Sizes
<1>3. /\ call' \in CallType /\ call'.op = call.op /\ call'.id = call.id /\ call'.name = call.name
      /\ call'.part = call.part /\ call'.at = st /\ call'.tries = 0
  BY <1>1, <1>2 DEF GoTo, CallType
<1>4. call # NoCall /\ call' # NoCall /\ cursor' = cursor
  BY <1>3, Words DEF GoTo
<1>5. Key' = Key /\ Record' = Record
  BY <1>3 DEF Key, Record
<1>6. /\ call.op # "none" /\ call.id \in Ids
      /\ call.op = "delete" => call.name = NoName
      /\ call.op # "delete" => call.name \in Names
      /\ call.op = "load" => /\ mode \in {"loading", "failing"} /\ call.part = 0
                             /\ cursor \in DOMAIN Base
                             /\ Base[cursor].id = call.id /\ Base[cursor].name = call.name
      /\ call.op # "load" => mode \in {"replaying", "serving"}
      /\ mode = "replaying" => call.part = 0 /\ cursor \in DOMAIN log /\ (log[cursor].whole => log[cursor] = Record)
  BY DEF ShapeInv, CallInv
<1>7. CallInv'
  BY <1>3, <1>4, <1>5, <1>6 DEF CallInv
<1>8. QED
  BY <1>3, <1>4, <1>5, <1>7

LEMMA CallEnds == ASSUME call' = NoCall PROVE CallInv'
<1>1. call' \in CallType /\ call'.at = "none"
  BY Words
<1>2. QED
  BY <1>1 DEF CallInv

(* What a step leaves when the process is not stopped or dead. *)
LEMMA PlaceStays ==
  ASSUME ShapeInv, call.at # "none", mode' = mode \/ (mode' = "failing" /\ mode \in {"loading", "failing"}),
         log' = log \/ mode = "serving", cursor' \in {cursor, cursor + 1}
  PROVE  PlaceInv'
<1>1. /\ call.op = "load" => mode \in {"loading", "failing"} /\ cursor \in DOMAIN Base
      /\ call.op # "load" => mode \in {"replaying", "serving"}
      /\ mode = "replaying" => cursor \in DOMAIN log
  BY DEF ShapeInv, CallInv
<1>2. mode' \in {"loading", "failing"} => cursor' \in 1 .. Len(Base) + 1
  BY <1>1, BaseIs
<1>3. mode' = "replaying" => cursor' \in 1 .. Len(log') + 1
  BY <1>1, LogIs DEF ShapeInv
<1>4. mode' # "stopped" /\ mode' # "crashed"
  BY <1>1
<1>5. QED
  BY <1>2, <1>3, <1>4 DEF PlaceInv

LEMMA LogStays ==
  ASSUME ShapeInv, log' = log, calls' = calls, mode' = "serving" => mode = "serving" \/ call' = NoCall,
         call = NoCall => call' = NoCall
  PROVE  LogInv'
<1>1. Len(log) \in Nat /\ calls \in Nat /\ Len(log) <= calls
  BY LogIs DEF ShapeInv, TypeOK, LogInv
<1>2. mode = "serving" /\ call # NoCall => Len(log) + 1 <= calls
  BY DEF ShapeInv, LogInv
<1>3. QED
  BY <1>1, <1>2 DEF LogInv, ShapeInv

Fields ==
  /\ name \in [Ids -> NameSet] /\ part \in [Ids -> Partitions]
  /\ Slots(slots) /\ count = Cardinality(LiveOf(slots))
  /\ mode \in {"loading", "failing", "replaying", "serving", "stopped", "crashed", "refused"}
  /\ cursor \in Nat /\ flaw \subseteq Flaws

LEMMA ShapeGives ==
  ASSUME ShapeInv
  PROVE  /\ Fields /\ CallInv /\ PlaceInv /\ LogInv /\ call.id \in Ids \cup {None}
         /\ call.at # "none" => call # NoCall /\ call.id \in Ids /\ call.part \in Partitions
         /\ call.at # "none" /\ call.op # "delete" => Key \in Keys
<1>1. PICK c \in CallType : c = call
  BY DEF ShapeInv, CallInv
<1>2. call.part \in Partitions /\ call.id \in Ids \cup {None}
  BY <1>1 DEF CallType
<1>3. Fields
  BY DEF ShapeInv, TypeOK, Fields, Slots, SlotRec, NameSet
<1>4. call.at # "none" => call # NoCall /\ call.id \in Ids /\ (call.op # "delete" => call.name \in Names)
  BY Words DEF ShapeInv, CallInv
<1>5. QED
  BY <1>2, <1>3, <1>4 DEF ShapeInv, Key, Keys

LEMMA ShapeKept ==
  ASSUME Fields', CallInv', PlaceInv', LogInv'
  PROVE  ShapeInv'
<1>1. PICK c \in CallType : c = call'
  BY DEF CallInv
<1>2. call'.at \in Steps /\ call'.tries \in 0 .. MaxRetry - 1
  BY <1>1 DEF CallType
<1>3. PICK S : S = Logged
  OBVIOUS
<1>4. log' \in Seq(S) /\ Len(log') <= calls'
  <2>1. log' \in Seq(S) /\ Len(log') \in Nat /\ calls' \in Nat
    BY <1>3 DEF LogInv
  <2>2. Len(log') + (IF mode' = "serving" /\ call' # NoCall THEN 1 ELSE 0) <= calls'
    BY DEF LogInv
  <2>3. QED
    BY <2>1, <2>2
<1>5. \A r \in S : r.op \in {"create", "delete", "rename"} /\ r.whole \in BOOLEAN
  BY <1>3 DEF Logged, Records
<1>6. \A j \in DOMAIN log' : log'[j].op \in {"create", "delete", "rename"} /\ log'[j].whole \in BOOLEAN
  BY <1>4, <1>5
<1>7. PICK n : n = Cardinality(LiveOf(slots'))
  OBVIOUS
<1>8. count' \in 0 .. Capacity
  <2>1. n \in Nat /\ n <= Capacity /\ Capacity \in Nat
    BY <1>7, LiveSize, Sizes
  <2>2. count' = n
    BY <1>7 DEF Fields
  <2>3. QED
    BY <2>1, <2>2
<1>9. TypeOK'
  BY <1>2, <1>4, <1>6, <1>8 DEF TypeOK, Fields, Slots, SlotRec, NameSet
<1>10. QED
  BY <1>9 DEF ShapeInv, Fields

LEMMA FreshIs ==
  ASSUME NEW s, s = [b \in Buckets |-> [key |-> <<0, NoName>>, id |-> Empty]]
  PROVE  /\ Slots(s) /\ Cardinality(LiveOf(s)) = 0 /\ \A b \in Buckets : ~ Holds(s, b)
         /\ [i \in Ids |-> NoName] \in [Ids -> NameSet] /\ [i \in Ids |-> 0] \in [Ids -> Partitions]
<1>1. [key |-> <<0, NoName>>, id |-> Empty] \in SlotRec
  BY Sizes DEF SlotRec, NameSet
<1>2. Slots(s)
  BY <1>1 DEF Slots
<1>3. \A b \in Buckets : ~ Holds(s, b)
  BY RegistryMarkers DEF Holds
<1>4. LiveOf(s) = {}
  BY <1>3 DEF LiveOf
<1>5. QED
  BY <1>2, <1>3, <1>4, FS_EmptySet, Sizes DEF NameSet

LEMMA ShapeInit == ASSUME Init PROVE ShapeInv
<1>2. Slots(slots) /\ Cardinality(LiveOf(slots)) = 0 /\ name \in [Ids -> NameSet] /\ part \in [Ids -> Partitions]
  BY FreshIs DEF Init, Fresh
<1>3. CallInv
  BY Words DEF Init, CallInv
<1>4. PlaceInv
  BY BaseIs DEF Init, PlaceInv
<1>5. log \in Seq(Logged) /\ Len(log) = 0 /\ DOMAIN log = {}
  BY DEF Init
<1>6. LogInv
  BY <1>5 DEF Init, LogInv
<1>7. 0 \in 0 .. Capacity
  BY Sizes
<1>8. call.at \in Steps /\ call.tries \in 0 .. MaxRetry - 1
  BY Sizes DEF Init, NoCall, Steps
<1>9. TypeOK
  BY <1>2, <1>5, <1>7, <1>8 DEF Init, Fresh, TypeOK, Slots, SlotRec, NameSet
<1>10. QED
  BY <1>2, <1>3, <1>4, <1>6, <1>9 DEF ShapeInv, Init, Fresh

(* Steps that only move the call. *)
LEMMA FieldsStay ==
  ASSUME Fields, UNCHANGED segment, flaw' \subseteq Flaws, cursor' \in Nat,
         mode' \in {"loading", "failing", "replaying", "serving", "stopped", "crashed", "refused"}
  PROVE  Fields'
  BY DEF Fields, segment, Slots

LEMMA ReturnIs ==
  ASSUME ShapeInv, Return
  PROVE  CallInv' /\ call' = NoCall /\ cursor' \in Nat
  BY CallEnds DEF Return, ShapeInv, TypeOK

LEMMA ShapeRequest == ASSUME ShapeInv, Request PROVE ShapeInv'
<1>1. call = NoCall /\ mode = "serving" /\ mode' = mode /\ log' = log /\ calls' = calls + 1 /\ cursor' = cursor
  BY DEF Request
<1>2. CallInv'
  <2>0. 0 \in 0 .. MaxRetry - 1
    BY Sizes
  <2>1. PICK i \in Ids, q \in Partitions :
          \/ \E n \in Names : \E op \in {"create", "rename"} : call' = Call(op, q, i, n, "check")
          \/ call' = Call("delete", q, i, NoName, "lock")
    BY DEF Request
  <2>2. CASE \E n \in Names : \E op \in {"create", "rename"} : call' = Call(op, q, i, n, "check")
    <3>1. PICK n \in Names, op \in {"create", "rename"} : call' = Call(op, q, i, n, "check")
      BY <2>2
    <3>2. /\ call' \in CallType /\ call'.op \in {"create", "rename"} /\ call'.id = i /\ call'.name = n
          /\ call'.at = "check" /\ call'.part = q
      BY <2>0, <3>1 DEF Call, CallType, Steps, NameSet
    <3>3. "check" \in StepsOf(call'.op)
      BY <3>2 DEF StepsOf
    <3>4. QED
      BY <1>1, <3>2, <3>3 DEF CallInv
  <2>3. CASE call' = Call("delete", q, i, NoName, "lock")
    <3>2. /\ call' \in CallType /\ call'.op = "delete" /\ call'.id = i /\ call'.name = NoName
          /\ call'.at = "lock" /\ call'.part = q
      BY <2>0, <2>3 DEF Call, CallType, Steps, NameSet
    <3>3. "lock" \in StepsOf(call'.op)
      BY <3>2 DEF StepsOf
    <3>4. QED
      BY <1>1, <3>2, <3>3 DEF CallInv
  <2>4. QED
    BY <2>1, <2>2, <2>3
<1>3. PlaceInv'
  BY <1>1 DEF PlaceInv
<1>4. LogInv'
  <2>1. Len(log) \in Nat /\ calls \in Nat /\ Len(log) <= calls
    BY LogIs DEF ShapeInv, TypeOK, LogInv
  <2>2. Len(log') + (IF mode' = "serving" /\ call' # NoCall THEN 1 ELSE 0) <= calls' /\ calls' \in Nat
    BY <1>1, <2>1
  <2>3. QED
    BY <1>1, <2>2 DEF LogInv, ShapeInv
<1>5. Fields'
  BY ShapeGives DEF Request, Fields, segment, Slots
<1>6. QED
  BY <1>2, <1>3, <1>4, <1>5, ShapeKept

LEMMA ShapeCheck == ASSUME ShapeInv, Check \/ CheckBusy PROVE ShapeInv'
<1>1. /\ call.at = "check" /\ call # NoCall /\ mode' = mode /\ log' = log /\ calls' = calls
      /\ UNCHANGED segment /\ flaw' \subseteq Flaws /\ (Return \/ GoTo("lock"))
  BY ShapeGives DEF Check, CheckBusy, bounds, Fields, Flaws
<1>2. CASE Return
  <2>1. LogInv'
    BY <1>1, <1>2, LogStays DEF Return
  <2>2. PlaceInv'
    BY <1>1, <1>2, PlaceStays DEF Return
  <2>3. CallInv' /\ cursor' \in Nat
    BY <1>2, ReturnIs
  <2>4. Fields'
    BY <1>1, <2>3, FieldsStay, ShapeGives DEF Fields
  <2>5. QED
    BY <2>1, <2>2, <2>3, <2>4, ShapeKept
<1>3. CASE GoTo("lock")
  <2>1. "lock" \in StepsOf(call.op) /\ "lock" \in Steps \ {"none"}
    BY <1>1, Words DEF ShapeInv, CallInv, StepsOf
  <2>2. CallInv' /\ call' # NoCall /\ cursor' = cursor
    BY <1>1, <1>3, <2>1, GoesOn DEF GoTo
  <2>3. LogInv'
    BY <1>1, <2>2, LogStays
  <2>4. PlaceInv'
    BY <1>1, <2>2, PlaceStays
  <2>5. Fields'
    BY <1>1, <2>2, FieldsStay, ShapeGives DEF Fields
  <2>6. QED
    BY <2>2, <2>3, <2>4, <2>5, ShapeKept
<1>4. QED
  BY <1>1, <1>2, <1>3

(* A step that changes the segment and then goes on or returns. *)
LEMMA ShapeStep ==
  ASSUME ShapeInv, call.at # "none", Fields', log' = log, calls' = calls,
         Return \/ (\E st \in StepsOf(call.op) : GoTo(st) /\
                      (st \in {"index", "undo"} => name'[call.id] = call.name /\ part'[call.id] = call.part)),
         mode' = mode
  PROVE  ShapeInv'
<1>1. call # NoCall
  BY ShapeGives
<1>2. CASE Return
  <2>1. LogInv'
    BY <1>1, <1>2, LogStays DEF Return
  <2>2. PlaceInv'
    BY <1>1, <1>2, PlaceStays DEF Return
  <2>3. CallInv' /\ cursor' \in Nat
    BY <1>2, ReturnIs
  <2>5. QED
    BY <2>1, <2>2, <2>3, ShapeKept
<1>3. CASE ~ Return
  <2>0. PICK st \in StepsOf(call.op) : GoTo(st) /\
           (st \in {"index", "undo"} => name'[call.id] = call.name /\ part'[call.id] = call.part)
    BY <1>3
  <2>1. call.op \in {"none", "create", "delete", "rename", "load"}
    BY DEF ShapeInv, CallInv, CallType
  <2>2. st \in Steps \ {"none"}
    BY <2>1, Words
  <2>3. CallInv' /\ call' # NoCall /\ cursor' = cursor
    BY <2>0, <2>2, GoesOn DEF GoTo
  <2>4. LogInv'
    BY <1>1, <2>3, LogStays
  <2>5. PlaceInv'
    BY <1>1, <2>3, PlaceStays
  <2>6. QED
    BY <2>3, <2>4, <2>5, ShapeKept
<1>4. QED
  BY <1>2, <1>3

LEMMA CursorIs == ASSUME ShapeInv, Return \/ cursor' = cursor PROVE cursor' \in Nat
  BY ShapeGives DEF Fields, Return

LEMMA ShapeCreateRecord == ASSUME ShapeInv, CreateRecord PROVE ShapeInv'
<1>1. /\ call.op = "create" /\ call.at = "lock" /\ call.id \in Ids /\ call.part \in Partitions
      /\ call.name \in Names
  BY ShapeGives DEF CreateRecord, CallInv
<1>2. /\ slots' = slots /\ count' = count /\ log' = log /\ mode' = mode /\ calls' = calls /\ flaw' = flaw
  BY DEF CreateRecord, bounds
<1>3. name' \in [Ids -> NameSet] /\ part' \in [Ids -> Partitions]
  BY <1>1, ShapeGives DEF CreateRecord, Fields, NameSet
<1>4. Return \/ (GoTo("index") /\ name'[call.id] = call.name /\ part'[call.id] = call.part)
  BY <1>1, ShapeGives DEF CreateRecord, Fields
<1>5. Fields'
  BY <1>2, <1>3, <1>4, ShapeGives, CursorIs DEF Fields, GoTo, Slots
<1>6. "index" \in StepsOf(call.op)
  BY <1>1 DEF StepsOf
<1>7. QED
  BY <1>1, <1>2, <1>4, <1>5, <1>6, ShapeStep

(* An insertion, as creation and loading do it. *)
LEMMA FieldsInsert ==
  ASSUME ShapeInv, call.at # "none", call.op # "delete", Fits(slots, name, part, Key),
         slots' = Inserted(slots, name, part, Key, call.id),
         count' = count + Grown(slots, name, part, Key),
         name' = name, part' = part, cursor' \in Nat, flaw' = flaw, mode' = mode
  PROVE  Fields'
<1>1. Slots(slots') /\ Cardinality(LiveOf(slots')) = Cardinality(LiveOf(slots)) + Grown(slots, name, part, Key)
  BY ShapeGives, InsertedIs, InsertCounts DEF Fields
<1>2. QED
  BY <1>1, ShapeGives DEF Fields

LEMMA ShapeCreateIndex == ASSUME ShapeInv, CreateIndex PROVE ShapeInv'
<1>1. /\ call.op = "create" /\ call.at = "index" /\ name' = name /\ part' = part
      /\ log' = log /\ mode' = mode /\ calls' = calls /\ flaw' = flaw /\ cursor' = cursor
      /\ cursor' \in Nat
  BY ShapeGives DEF CreateIndex, bounds, GoTo, Fields
<1>2. Fields'
  <2>1. CASE UNCHANGED <<slots, count>>
    BY <1>1, <2>1, ShapeGives DEF Fields, Slots
  <2>2. CASE ~ UNCHANGED <<slots, count>>
    BY <1>1, <2>2, FieldsInsert DEF CreateIndex
  <2>3. QED
    BY <2>1, <2>2
<1>3. name'[call.id] = call.name /\ part'[call.id] = call.part
  BY <1>1, ShapeGives DEF CallInv
<1>4. GoTo("log") \/ GoTo("undo")
  BY DEF CreateIndex
<1>5. "log" \in StepsOf(call.op) /\ "undo" \in StepsOf(call.op)
  BY <1>1 DEF StepsOf
<1>6. QED
  BY <1>1, <1>2, <1>3, <1>4, <1>5, ShapeStep

LEMMA ShapeCreateUndo == ASSUME ShapeInv, CreateUndo PROVE ShapeInv'
<1>1. /\ call.at = "undo" /\ name' = [name EXCEPT ![call.id] = NoName] /\ part' = part
      /\ log' = log /\ mode' = mode /\ calls' = calls /\ flaw' = flaw /\ Return
      /\ slots' = slots /\ count' = count
  BY DEF CreateUndo, bounds
<1>2. Fields'
  BY <1>1, ShapeGives, CursorIs DEF Fields, Slots, NameSet
<1>3. QED
  BY <1>1, <1>2, ShapeStep

LEMMA ShapeDelete == ASSUME ShapeInv, Delete PROVE ShapeInv'
<1>1. /\ call.op = "delete" /\ call.at = "lock" /\ part' = part /\ call.id \in Ids
      /\ log' = log /\ mode' = mode /\ calls' = calls /\ flaw' = flaw
  BY ShapeGives DEF Delete, bounds
<1>2. PICK k : k = <<part[call.id], name[call.id]>>
  OBVIOUS
<1>3. \/ Return /\ name' = name /\ slots' = slots /\ count' = count
      \/ /\ name[call.id] # NoName /\ slots' = Removed(slots, name, part, k)
         /\ count' = Shrunk(slots, name, part, k, count)
         /\ name' = [name EXCEPT ![call.id] = NoName] /\ GoTo("log")
  BY <1>2 DEF Delete
<1>4. CASE Return /\ name' = name /\ slots' = slots /\ count' = count
  <2>1. Fields'
    BY <1>1, <1>4, ShapeGives, CursorIs DEF Fields, Slots
  <2>2. QED
    BY <1>1, <1>4, <2>1, ShapeStep
<1>5. CASE /\ name[call.id] # NoName /\ slots' = Removed(slots, name, part, k)
           /\ count' = Shrunk(slots, name, part, k, count)
           /\ name' = [name EXCEPT ![call.id] = NoName] /\ GoTo("log")
  <2>1. k \in Keys
    BY <1>1, <1>2, <1>5, ShapeGives DEF Fields, Keys, NameSet
  <2>2. Slots(slots') /\ Cardinality(LiveOf(slots')) = Shrunk(slots, name, part, k, Cardinality(LiveOf(slots)))
    BY <1>5, <2>1, ShapeGives, RemovedIs, RemoveCounts DEF Fields
  <2>3. name' \in [Ids -> NameSet]
    BY <1>5, ShapeGives DEF Fields, NameSet
  <2>4. Fields'
    BY <1>1, <1>5, <2>2, <2>3, ShapeGives DEF Fields, GoTo
  <2>5. "log" \in StepsOf(call.op)
    BY <1>1 DEF StepsOf
  <2>6. QED
    BY <1>1, <1>5, <2>4, <2>5, ShapeStep
<1>6. QED
  BY <1>3, <1>4, <1>5

LEMMA ShapeRename == ASSUME ShapeInv, Rename PROVE ShapeInv'
<1>1. /\ call.op = "rename" /\ call.at = "lock" /\ part' = part /\ call.id \in Ids
      /\ log' = log /\ mode' = mode /\ calls' = calls /\ flaw' = flaw
      /\ Key \in Keys /\ call.part \in Partitions /\ call.name \in Names
  BY ShapeGives DEF Rename, bounds, CallInv
<1>2. PICK old, s : old = <<call.part, name[call.id]>> /\ s = Inserted(slots, name, part, Key, call.id)
  OBVIOUS
<1>3. \/ Return /\ name' = name /\ slots' = slots /\ count' = count
      \/ /\ name[call.id] # NoName /\ Fits(slots, name, part, Key)
         /\ slots' = Removed(s, name, part, old)
         /\ count' = Shrunk(s, name, part, old, count + Grown(slots, name, part, Key))
         /\ name' = [name EXCEPT ![call.id] = call.name] /\ GoTo("log")
  BY <1>2 DEF Rename
<1>4. CASE Return /\ name' = name /\ slots' = slots /\ count' = count
  <2>1. Fields'
    BY <1>1, <1>4, ShapeGives, CursorIs DEF Fields, Slots
  <2>2. QED
    BY <1>1, <1>4, <2>1, ShapeStep
<1>5. CASE /\ name[call.id] # NoName /\ Fits(slots, name, part, Key)
           /\ slots' = Removed(s, name, part, old)
           /\ count' = Shrunk(s, name, part, old, count + Grown(slots, name, part, Key))
           /\ name' = [name EXCEPT ![call.id] = call.name] /\ GoTo("log")
  <2>1. old \in Keys
    BY <1>1, <1>2, <1>5, ShapeGives DEF Fields, Keys, NameSet
  <2>2. Slots(s) /\ Cardinality(LiveOf(s)) = Cardinality(LiveOf(slots)) + Grown(slots, name, part, Key)
    BY <1>1, <1>2, <1>5, ShapeGives, InsertedIs, InsertCounts DEF Fields
  <2>3. Slots(slots') /\ Cardinality(LiveOf(slots')) = Shrunk(s, name, part, old, Cardinality(LiveOf(s)))
    BY <1>5, <2>1, <2>2, RemovedIs, RemoveCounts
  <2>4. name' \in [Ids -> NameSet]
    BY <1>1, <1>5, ShapeGives DEF Fields, NameSet
  <2>5. count' = Cardinality(LiveOf(slots'))
    BY <1>5, <2>2, <2>3, ShapeGives DEF Fields
  <2>6. Fields'
    BY <1>1, <1>5, <2>3, <2>4, <2>5, ShapeGives DEF Fields, GoTo
  <2>7. "log" \in StepsOf(call.op)
    BY <1>1 DEF StepsOf
  <2>8. QED
    BY <1>1, <1>5, <2>6, <2>7, ShapeStep
<1>6. QED
  BY <1>3, <1>4, <1>5

(* Another try of the same step. *)
LEMMA TriesAgain ==
  ASSUME ShapeInv, call.at # "none", NEW st \in {call.at, "lock"}, st \in StepsOf(call.op),
         call' = [call EXCEPT !.at = st, !.tries = @ + 1], call.tries + 1 < MaxRetry,
         name' = name, part' = part, log' = log, mode' = mode, cursor' = cursor
  PROVE  CallInv' /\ call' # NoCall /\ Record' = Record /\ call'.op = call.op /\ call'.at = st
         /\ call'.id = call.id /\ Key' = Key
<1>1. PICK c \in CallType : c = call
  BY DEF ShapeInv, CallInv
<1>2. PICK n : n = c.tries + 1
  OBVIOUS
<1>3. n \in 0 .. MaxRetry - 1
  BY <1>1, <1>2, Sizes DEF CallType
<1>4. call' = [c EXCEPT !.at = st, !.tries = n]
  BY <1>1, <1>2
<1>5. st \in Steps \ {"none"}
  BY <1>1, Words DEF CallType
<1>6. /\ call' \in CallType /\ call'.op = c.op /\ call'.id = c.id /\ call'.name = c.name
      /\ call'.part = c.part /\ call'.at = st
  BY <1>3, <1>4, <1>5 DEF CallType
<1>7. Record' = Record /\ Key' = Key /\ call' # NoCall
  BY <1>1, <1>5, <1>6, Words DEF Record, Key
<1>8. CallInv'
  BY <1>1, <1>5, <1>6, <1>7 DEF CallInv, ShapeInv
<1>9. QED
  BY <1>1, <1>6, <1>7, <1>8

LEMMA ShapeLockBusy == ASSUME ShapeInv, LockBusy PROVE ShapeInv'
<1>1. /\ call.op # "load" /\ call.at \in {"lock", "index", "undo"} /\ call # NoCall
      /\ name' = name /\ part' = part /\ slots' = slots /\ count' = count
      /\ log' = log /\ mode' = mode /\ calls' = calls /\ flaw' \subseteq Flaws
  BY ShapeGives DEF LockBusy, segment, Fields, Flaws
<1>2. call.at \in StepsOf(call.op)
  BY <1>1 DEF ShapeInv, CallInv
<1>3. CASE call.at = "index"
  <2>1. call.op = "create" /\ GoTo("undo")
    BY <1>1, <1>2, <1>3 DEF LockBusy, ShapeInv, CallInv, CallType, StepsOf
  <2>2. name'[call.id] = call.name /\ part'[call.id] = call.part /\ "undo" \in StepsOf(call.op)
    BY <1>1, <1>3, <2>1 DEF ShapeInv, CallInv, StepsOf
  <2>3. Fields'
    BY <1>1, <2>1, ShapeGives DEF Fields, GoTo, Slots
  <2>4. QED
    BY <1>1, <2>1, <2>2, <2>3, ShapeStep
<1>4. CASE Return
  <2>1. Fields'
    BY <1>1, <1>4, ShapeGives, CursorIs DEF Fields, Slots
  <2>2. QED
    BY <1>1, <1>4, <2>1, ShapeStep
<1>5. CASE call.at # "index" /\ ~ Return
  <2>1. /\ call.tries + 1 < MaxRetry /\ call' = [call EXCEPT !.tries = @ + 1] /\ cursor' = cursor
    BY <1>1, <1>5 DEF LockBusy
  <2>2. call' = [call EXCEPT !.at = call.at, !.tries = @ + 1]
    BY <2>1 DEF ShapeInv, CallInv, CallType
  <2>3. CallInv' /\ call' # NoCall
    BY <1>1, <1>2, <2>1, <2>2, TriesAgain
  <2>4. PlaceInv'
    BY <1>1, <2>1, PlaceStays
  <2>5. LogInv'
    BY <1>1, <2>3, LogStays
  <2>6. Fields'
    BY <1>1, <2>1, ShapeGives DEF Fields, Slots
  <2>7. QED
    BY <2>3, <2>4, <2>5, <2>6, ShapeKept
<1>6. QED
  BY <1>3, <1>4, <1>5

LEMMA RecordIs ==
  ASSUME ShapeInv, call.at # "none", call.op # "load"
  PROVE  Record \in Change /\ Record \in Logged /\ Piece \in Logged
<1>1. /\ call.op \in {"create", "delete", "rename"} /\ call.id \in Ids
      /\ call.op = "delete" => call.name = NoName
      /\ call.op # "delete" => call.name \in Names
  BY DEF ShapeInv, CallInv, CallType
<1>2. QED
  BY <1>1 DEF Record, Piece, Change, Logged, Records

LEMMA AtLog ==
  ASSUME ShapeInv, call.at = "log"
  PROVE  call.op \in {"create", "delete", "rename"} /\ mode \in {"replaying", "serving"} /\ call # NoCall
  BY ShapeGives DEF CallInv, CallType, StepsOf

LEMMA ShapeDeltaLog == ASSUME ShapeInv, DeltaLog PROVE ShapeInv'
<1>1. /\ call.at = "log" /\ Return /\ UNCHANGED segment /\ mode' = mode /\ calls' = calls
      /\ call # NoCall /\ call.op # "load"
  BY AtLog DEF DeltaLog
<1>2. CallInv' /\ call' = NoCall /\ cursor' \in Nat /\ cursor' \in {cursor, cursor + 1}
  BY <1>1, ReturnIs DEF Return
<1>3. log' = log \/ mode = "serving"
  BY DEF DeltaLog, Logs
<1>4. PlaceInv'
  BY <1>1, <1>2, <1>3, PlaceStays
<1>5. flaw' \subseteq Flaws
  BY ShapeGives DEF DeltaLog, Fields, Flaws
<1>6. Fields'
  BY <1>1, <1>2, <1>5, FieldsStay, ShapeGives DEF Fields
<1>7. LogInv'
  <2>1. CASE log' = log
    BY <1>1, <1>2, <2>1, LogStays
  <2>2. CASE log' # log
    <3>1. mode = "serving" /\ \E r \in {Record, Piece} : log' = Append(log, r)
      BY <2>2 DEF DeltaLog, Logs
    <3>2. PICK S : S = Logged
      OBVIOUS
    <3>3. PICK r \in S : log' = Append(log, r)
      BY <1>1, <3>1, <3>2, RecordIs
    <3>4. log \in Seq(S) /\ calls \in Nat /\ Len(log) \in Nat
      BY <3>2, LogIs DEF ShapeInv, LogInv
    <3>5. Len(log) + 1 <= calls
      BY <1>1, <3>1 DEF ShapeInv, LogInv
    <3>6. log' \in Seq(S) /\ Len(log') = Len(log) + 1
      BY <3>3, <3>4
    <3>7. Len(log') + (IF mode' = "serving" /\ call' # NoCall THEN 1 ELSE 0) <= calls'
      BY <1>1, <1>2, <3>4, <3>5, <3>6
    <3>8. QED
      BY <1>1, <3>2, <3>4, <3>6, <3>7 DEF LogInv
  <2>3. QED
    BY <2>1, <2>2
<1>8. QED
  BY <1>2, <1>4, <1>6, <1>7, ShapeKept

LEMMA ShapeLoadNext == ASSUME ShapeInv, LoadNext PROVE ShapeInv'
<1>1. /\ mode \in {"loading", "failing"} /\ call = NoCall /\ UNCHANGED segment /\ log' = log
      /\ calls' = calls /\ flaw' = flaw
  BY DEF LoadNext, bounds
<1>2. cursor \in 1 .. Len(Base) + 1
  BY <1>1 DEF ShapeInv, PlaceInv
<1>3. CASE cursor <= Len(Base)
  <2>1. /\ call' = Call("load", 0, Base[cursor].id, Base[cursor].name, "lock")
        /\ mode' = mode /\ cursor' = cursor /\ cursor \in DOMAIN Base
    BY <1>2, <1>3, BaseIs DEF LoadNext
  <2>2. PICK i \in Ids, n \in Names : i = Base[cursor].id /\ n = Base[cursor].name
    BY <2>1, BaseIs
  <2>3. 0 \in Partitions /\ 0 \in 0 .. MaxRetry - 1
    BY Sizes
  <2>4. /\ call' \in CallType /\ call'.op = "load" /\ call'.at = "lock" /\ call'.id = i
        /\ call'.name = n /\ call'.part = 0
    BY <2>1, <2>2, <2>3 DEF Call, CallType, Steps, NameSet
  <2>5. "lock" \in StepsOf(call'.op)
    BY <2>4 DEF StepsOf
  <2>6. CallInv'
    BY <1>1, <2>1, <2>2, <2>4, <2>5 DEF CallInv
  <2>7. PlaceInv'
    BY <1>1, <1>2, <2>1 DEF PlaceInv
  <2>8. LogInv'
    BY <1>1, <2>1 DEF ShapeInv, LogInv
  <2>9. Fields'
    BY <1>1, <2>1, ShapeGives, FieldsStay DEF Fields
  <2>10. QED
    BY <2>6, <2>7, <2>8, <2>9, ShapeKept
<1>4. CASE cursor > Len(Base)
  <2>1. mode' \in {"replaying", "refused"} /\ cursor' = 1 /\ call' = NoCall
    BY <1>1, <1>2, <1>4, BaseIs DEF LoadNext
  <2>2. CallInv'
    BY <2>1, CallEnds
  <2>3. PlaceInv'
    BY <1>1, <2>1, LogIs DEF PlaceInv, ShapeInv
  <2>4. LogInv'
    BY <1>1, <2>1 DEF ShapeInv, LogInv
  <2>5. Fields'
    BY <1>1, <2>1, ShapeGives, FieldsStay DEF Fields
  <2>6. QED
    BY <2>2, <2>3, <2>4, <2>5, ShapeKept
<1>5. QED
  BY <1>2, <1>3, <1>4, BaseIs

LEMMA ShapeLoadRecord == ASSUME ShapeInv, LoadRecord PROVE ShapeInv'
<1>1. /\ call.op = "load" /\ call.at = "lock" /\ call.id \in Ids /\ call.part = 0
      /\ call.name \in Names /\ call # NoCall
  BY ShapeGives DEF LoadRecord, CallInv
<1>2. /\ slots' = slots /\ count' = count /\ log' = log /\ mode' = mode /\ calls' = calls
      /\ flaw' \subseteq Flaws /\ cursor' = cursor
  BY ShapeGives DEF LoadRecord, bounds, Fields, Flaws
<1>3. name' \in [Ids -> NameSet] /\ part' \in [Ids -> Partitions]
  BY <1>1, ShapeGives, Sizes DEF LoadRecord, Fields, NameSet
<1>4. name'[call.id] = call.name /\ part'[call.id] = call.part
  BY <1>1, ShapeGives DEF LoadRecord, Fields
<1>5. Fields'
  BY <1>2, <1>3, ShapeGives DEF Fields, Slots
<1>6. PICK c \in CallType : c = call
  BY DEF ShapeInv, CallInv
<1>7. call' = [c EXCEPT !.at = "index"]
  BY <1>6 DEF LoadRecord
<1>8. /\ call' \in CallType /\ call'.at = "index" /\ call'.op = c.op /\ call'.id = c.id
      /\ call'.name = c.name /\ call'.part = c.part
  BY <1>7 DEF CallType, Steps
<1>9. /\ mode \in {"loading", "failing"} /\ cursor \in DOMAIN Base
      /\ Base[cursor].id = call.id /\ Base[cursor].name = call.name
  BY <1>1 DEF ShapeInv, CallInv
<1>10. CallInv'
  BY <1>1, <1>2, <1>4, <1>6, <1>8, <1>9 DEF CallInv, StepsOf
<1>11. PlaceInv'
  BY <1>1, <1>2, PlaceStays
<1>12. LogInv'
  BY <1>1, <1>2, LogStays
<1>13. QED
  BY <1>5, <1>10, <1>11, <1>12, ShapeKept

LEMMA ShapeLoadIndex == ASSUME ShapeInv, LoadIndex PROVE ShapeInv'
<1>1. /\ call.op = "load" /\ call.at = "index" /\ name' = name /\ part' = part
      /\ log' = log /\ calls' = calls /\ flaw' = flaw /\ mode \in {"loading", "failing"}
  BY DEF LoadIndex, bounds, ShapeInv, CallInv
<1>2. CASE mode' = mode /\ Return
  <2>1. Fields'
    BY <1>1, <1>2, FieldsInsert, CursorIs DEF LoadIndex
  <2>2. QED
    BY <1>1, <1>2, <2>1, ShapeStep
<1>3. CASE mode' = "refused" /\ call' = NoCall /\ UNCHANGED <<slots, count, cursor>>
  <2>1. Fields'
    BY <1>1, <1>3, ShapeGives DEF Fields, Slots
  <2>2. PlaceInv' /\ LogInv'
    BY <1>1, <1>3 DEF PlaceInv, LogInv, ShapeInv
  <2>3. QED
    BY <1>3, <2>1, <2>2, CallEnds, ShapeKept
<1>4. QED
  BY <1>2, <1>3 DEF LoadIndex

LEMMA ShapeLoadBusy == ASSUME ShapeInv, LoadBusy PROVE ShapeInv'
<1>1. /\ call.op = "load" /\ call.at \in {"lock", "index"} /\ UNCHANGED segment
      /\ log' = log /\ calls' = calls /\ flaw' = flaw /\ mode \in {"loading", "failing"}
      /\ call # NoCall
  BY ShapeGives DEF LoadBusy, CallInv
<1>2. CASE mode' = mode /\ cursor' = cursor /\ call.tries + 1 < MaxRetry
           /\ call' = [call EXCEPT !.at = "lock", !.tries = @ + 1]
  <2>1. "lock" \in StepsOf(call.op) /\ name' = name /\ part' = part
    BY <1>1 DEF StepsOf, segment
  <2>2. CallInv' /\ call' # NoCall
    BY <1>1, <1>2, <2>1, TriesAgain
  <2>3. PlaceInv'
    BY <1>1, <1>2, PlaceStays
  <2>4. LogInv'
    BY <1>1, <1>2, <2>2, LogStays
  <2>5. Fields'
    BY <1>1, <1>2, ShapeGives, FieldsStay DEF Fields
  <2>6. QED
    BY <2>2, <2>3, <2>4, <2>5, ShapeKept
<1>3. CASE mode' = "failing" /\ Return
  <2>1. CallInv' /\ call' = NoCall /\ cursor' \in Nat /\ cursor' \in {cursor, cursor + 1}
    BY <1>1, <1>3, ReturnIs DEF Return
  <2>2. PlaceInv'
    BY <1>1, <1>3, <2>1, PlaceStays
  <2>3. LogInv'
    BY <1>1, <1>3, <2>1, LogStays
  <2>4. Fields'
    BY <1>1, <1>3, <2>1, ShapeGives, FieldsStay DEF Fields
  <2>5. QED
    BY <2>1, <2>2, <2>3, <2>4, ShapeKept
<1>4. QED
  BY <1>1, <1>2, <1>3 DEF LoadBusy

(* The record that a replay applies, of those that the log may hold. *)
LEMMA ReplayReads ==
  ASSUME ShapeInv, ReplayNext
  PROVE  \/ \E r \in Logged : /\ cursor \in DOMAIN log /\ (log[cursor].whole => log[cursor] = r)
                               /\ r.whole = log[cursor].whole /\ Apply(r.op, r.id, r.name)
         \/ ~Read(cursor) /\ ReplayEnd
<1>1. CASE Read(cursor) /\ Apply(log[cursor].op, log[cursor].id, log[cursor].name)
  BY <1>1, LogIs DEF Read, ShapeInv
<1>2. ASSUME Merged(cursor), NEW n \in IF log[cursor].op = "delete" THEN {NoName} ELSE Names,
             Apply(log[cursor].op, log[cursor].id, n)
      PROVE  \E r \in Logged : /\ cursor \in DOMAIN log /\ (log[cursor].whole => log[cursor] = r)
                               /\ r.whole = log[cursor].whole /\ Apply(r.op, r.id, r.name)
  <2>1. cursor \in DOMAIN log /\ ~log[cursor].whole
    <3>1. mode = "replaying"
      BY DEF ReplayNext
    <3>2. cursor \in 1 .. Len(log) + 1 /\ cursor + 1 \in 1 .. Len(log)
      BY <1>2, <3>1, LogIs DEF Merged, ShapeInv, PlaceInv
    <3>3. QED
      BY <1>2, <3>2, LogIs DEF Merged, ShapeInv
  <2>2. PICK l \in Logged : l = log[cursor]
    BY <2>1, LogIs DEF ShapeInv
  <2>3. PICK r : r = [op |-> l.op, id |-> l.id, name |-> n, whole |-> FALSE]
    OBVIOUS
  <2>4. r \in Logged
    BY <1>2, <2>2, <2>3 DEF Logged, Records
  <2>5. r.op = l.op /\ r.id = l.id /\ r.name = n /\ r.whole = log[cursor].whole
    <3>1. log[cursor].whole = FALSE
      BY <2>1, <2>2 DEF Logged, Records
    <3>2. QED
      BY <2>3, <3>1
  <2>6. QED
    BY <1>2, <2>1, <2>2, <2>4, <2>5
<1>3. QED
  BY <1>1, <1>2 DEF ReplayNext

LEMMA ShapeReplayNext == ASSUME ShapeInv, ReplayNext PROVE ShapeInv'
<1>1. /\ mode = "replaying" /\ call = NoCall /\ UNCHANGED segment /\ log' = log
      /\ calls' = calls /\ flaw' \subseteq Flaws
  BY ShapeGives DEF ReplayNext, Apply, ReplayEnd, bounds, Fields, Flaws
<1>2. ASSUME NEW r \in Logged, cursor \in DOMAIN log, log[cursor].whole => log[cursor] = r,
             r.whole = log[cursor].whole, Apply(r.op, r.id, r.name)
      PROVE  ShapeInv'
  <2>1. mode' = mode /\ cursor' = cursor
    BY <1>2 DEF Apply
  <2>3. /\ r.op \in {"create", "rename", "delete"} /\ r.id \in Ids
        /\ r.op = "delete" => r.name = NoName
        /\ r.op # "delete" => r.name \in Names
        /\ r = [op |-> r.op, id |-> r.id, name |-> r.name, whole |-> r.whole]
        /\ r.whole \in BOOLEAN
    BY DEF Logged, Records
  <2>4. PICK st : st = IF r.op = "delete" THEN "lock" ELSE "check"
    OBVIOUS
  <2>5. st \in StepsOf(r.op) /\ st \in {"lock", "check"}
    BY <2>3, <2>4 DEF StepsOf
  <2>6. 0 \in Partitions /\ 0 \in 0 .. MaxRetry - 1
    BY Sizes
  <2>7. /\ call' \in CallType /\ call'.op = r.op /\ call'.at = st /\ call'.id = r.id
        /\ call'.name = r.name /\ call'.part = 0
    BY <1>2, <2>3, <2>4, <2>5, <2>6 DEF Apply, Call, CallType, Steps, NameSet
  <2>8. log'[cursor'].whole => log'[cursor'] = Record'
    <3>1. SUFFICES ASSUME log[cursor].whole PROVE log[cursor] = Record'
      BY <1>1, <2>1
    <3>2. log[cursor] = r /\ r.whole = TRUE
      BY <1>2, <2>3, <3>1
    <3>3. QED
      BY <2>3, <2>7, <3>2 DEF Record
  <2>9. CallInv'
    BY <1>1, <1>2, <2>1, <2>3, <2>5, <2>7, <2>8 DEF CallInv
  <2>10. PlaceInv'
    BY <1>1, <2>1 DEF PlaceInv, ShapeInv
  <2>11. LogInv'
    BY <1>1, <2>1 DEF LogInv, ShapeInv
  <2>12. Fields'
    BY <1>1, <2>1, ShapeGives, FieldsStay DEF Fields
  <2>13. QED
    BY <2>9, <2>10, <2>11, <2>12, ShapeKept
<1>3. CASE ReplayEnd
  <2>1. mode' = "serving" /\ cursor' = 0 /\ call' = call
    BY <1>3 DEF ReplayEnd
  <2>2. PlaceInv'
    BY <2>1 DEF PlaceInv
  <2>3. LogInv'
    BY <1>1, <2>1, LogStays
  <2>4. Fields'
    BY <1>1, <2>1, ShapeGives, FieldsStay
  <2>5. QED
    BY <1>1, <2>1, <2>2, <2>3, <2>4, CallEnds, ShapeKept
<1>4. QED
  BY <1>2, <1>3, ReplayReads

LEMMA ShapeStop == ASSUME ShapeInv, Stop PROVE ShapeInv'
<1>1. /\ mode = "serving" /\ call = NoCall /\ mode' = "stopped" /\ log' = log /\ calls' = calls
      /\ call' = call /\ flaw' = flaw /\ cursor' = cursor
  BY DEF Stop, bounds
<1>2. Fresh'
  BY DEF Stop, Fresh
<1>3. PlaceInv'
  BY <1>1, <1>2 DEF PlaceInv
<1>4. LogInv'
  BY <1>1, LogStays
<1>5. Fields'
  <2>1. Slots(slots') /\ Cardinality(LiveOf(slots')) = 0 /\ name' \in [Ids -> NameSet] /\ part' \in [Ids -> Partitions]
    BY FreshIs DEF Stop
  <2>2. QED
    BY <1>1, <2>1, ShapeGives DEF Fields, Stop
<1>6. QED
  BY <1>1, <1>3, <1>4, <1>5, CallEnds, ShapeKept

LEMMA ShapeCrash == ASSUME ShapeInv, Crash PROVE ShapeInv'
<1>1. /\ mode' = "crashed" /\ call' = NoCall /\ log' = log /\ calls' = calls
      /\ UNCHANGED segment /\ cursor' = cursor /\ flaw' \subseteq Flaws /\ "crashed" \in flaw'
  BY ShapeGives DEF Crash, bounds, Fields, Flaws
<1>2. PlaceInv'
  BY <1>1 DEF PlaceInv
<1>3. LogInv'
  BY <1>1, LogStays
<1>4. Fields'
  BY <1>1, ShapeGives, FieldsStay DEF Fields
<1>5. QED
  BY <1>1, <1>2, <1>3, <1>4, CallEnds, ShapeKept

LEMMA ShapeStart == ASSUME ShapeInv, Start PROVE ShapeInv'
<1>1. /\ mode \in {"stopped", "crashed"} /\ mode' = "loading" /\ cursor' = 1 /\ UNCHANGED segment
      /\ log' = log /\ call' = call /\ calls' = calls /\ flaw' = flaw
  BY DEF Start
<1>2. call = NoCall
  BY <1>1 DEF ShapeInv, CallInv
<1>3. PlaceInv'
  BY <1>1, BaseIs DEF PlaceInv
<1>4. LogInv'
  BY <1>1, <1>2, LogStays
<1>5. Fields'
  BY <1>1, ShapeGives, FieldsStay DEF Fields
<1>6. QED
  BY <1>1, <1>2, <1>3, <1>4, <1>5, CallEnds, ShapeKept

LEMMA ShapeNext == ASSUME ShapeInv, [Next]_vars PROVE ShapeInv'
<1>1. CASE UNCHANGED vars
  <2>1. /\ call' = call /\ log' = log /\ mode' = mode /\ cursor' = cursor /\ name' = name /\ part' = part
        /\ slots' = slots /\ count' = count /\ flaw' = flaw /\ calls' = calls
    BY <1>1 DEF vars, segment, bounds
  <2>2. Record' = Record
    BY <2>1 DEF Record
  <2>3. CallInv' /\ PlaceInv' /\ LogInv'
    BY <2>1, <2>2 DEF ShapeInv, CallInv, PlaceInv, LogInv, Fresh
  <2>4. Fields'
    BY <2>1, ShapeGives DEF Fields, Slots
  <2>5. QED
    BY <2>3, <2>4, ShapeKept
<1>2. CASE Next
  BY <1>2, ShapeRequest, ShapeCheck, ShapeCreateRecord, ShapeCreateIndex, ShapeCreateUndo,
     ShapeDelete, ShapeRename, ShapeLockBusy, ShapeDeltaLog, ShapeLoadNext, ShapeLoadRecord,
     ShapeLoadIndex, ShapeLoadBusy, ShapeReplayNext, ShapeStop, ShapeCrash, ShapeStart DEF Next
<1>3. QED
  BY <1>1, <1>2

LEMMA ShapeHolds == Spec => []ShapeInv
  BY ShapeInit, ShapeNext, PTL DEF Spec

\* The shape of the registry, for every number of points, buckets, requests and
\* lives: the index counts its live slots whatever insertions, rollbacks and
\* removals made of it, and a call and a record are where the process is.
THEOREM TypeCorrect == Spec => []TypeOK
<1>1. ShapeInv => TypeOK
  BY DEF ShapeInv
<1>2. QED
  BY <1>1, ShapeHolds, PTL

-----------------------------------------------------------------------------
(* The index stays right while the history is clean. *)

LEMMA CleanBack == ASSUME [Next]_vars, Clean' PROVE Clean
<1>1. CASE UNCHANGED vars
  BY <1>1 DEF vars, Clean
<1>2. CASE Next
  <2>1. flaw \ {"crashed"} \subseteq flaw'
    BY <1>2 DEF Next, Request, Check, CheckBusy, CreateRecord, CreateIndex, CreateUndo, Delete, Rename,
       LockBusy, DeltaLog, LoadNext, LoadRecord, LoadIndex, LoadBusy, ReplayNext, Apply, ReplayEnd, Stop, Crash, Start
  <2>2. QED
    BY <2>1 DEF Clean
<1>3. QED
  BY <1>1, <1>2

(* A name that is not taken is available. *)
LEMMA FreeName ==
  ASSUME Slots(slots), IndexOK(slots, name, part), NEW k, NEW i, ~ Taken(k, i)
  PROVE  Avail(slots, k, i)
<1>1. SUFFICES ASSUME NEW b \in Buckets, Holds(slots, b), slots[b].key = k PROVE slots[b].id = i
  BY DEF Avail
<1>2. Found(slots, name, part, k) /\ At(k, End(slots, name, part, k)) = b
  BY <1>1, FindsLive
<1>3. Lookup(k) = slots[b].id
  BY <1>2 DEF Lookup, Found
<1>4. slots[b].id # None
  BY <1>1, RegistryMarkers DEF Holds
<1>5. QED
  BY <1>3, <1>4 DEF Taken

(* What the invariant says of a call. *)
LEMMA IndexGives ==
  ASSUME ShapeInv, IndexInv, Clean
  PROVE  /\ Slots(slots) /\ IndexOK(slots, name, part) /\ MissInv /\ StepInv
         /\ name \in [Ids -> NameSet] /\ part \in [Ids -> Partitions]
         /\ mode \in {"replaying", "serving"} => \A i \in Ids : name[i] = NoName \/ Indexed(i) \/ Making(i)
         /\ \A i \in Ids : Indexed(i) => name[i] \in Names
<1>1. Slots(slots) /\ IndexOK(slots, name, part) /\ MissInv /\ StepInv
      /\ name \in [Ids -> NameSet] /\ part \in [Ids -> Partitions]
  BY ShapeGives DEF IndexInv, Fields
<1>2. \A i \in Ids : Indexed(i) => name[i] \in Names
  BY <1>1 DEF Indexed, Has, IndexOK, Own, Holds
<1>3. QED
  BY <1>1, <1>2 DEF MissInv

LEMMA IndexFrom ==
  ASSUME Clean' => IndexOK(slots', name', part') /\ MissInv' /\ StepInv'
  PROVE  IndexInv'
  BY DEF IndexInv, Clean, IndexOK, Own, Chained, Single

(* Steps that leave the segment. *)
LEMMA IndexSame ==
  ASSUME ShapeInv, IndexInv, Clean, UNCHANGED segment
  PROVE  /\ IndexOK(slots', name', part') /\ \A i \in Ids : Indexed(i)' <=> Indexed(i)
         /\ \A i \in Ids : name'[i] = name[i]
  BY IndexGives DEF segment, Indexed

(* Requests and replayed records that end, or that have not changed anything. *)
LEMMA IndexIdle ==
  ASSUME ShapeInv, IndexInv, Clean, UNCHANGED segment, mode \in {"replaying", "serving"},
         \A i \in Ids : ~ Making(i), call'.at \in {"none", "check", "log"}
            \/ (call'.op = "delete" /\ call'.at # "index")
  PROVE  IndexOK(slots', name', part') /\ MissInv' /\ StepInv'
<1>1. \A i \in Ids : name'[i] = NoName \/ Indexed(i)'
  BY IndexSame, IndexGives
<1>2. MissInv'
  BY <1>1 DEF MissInv
<1>3. StepInv'
  BY DEF StepInv
<1>4. QED
  BY <1>2, <1>3, IndexSame

LEMMA IndexRequest == ASSUME ShapeInv, IndexInv, Request PROVE IndexInv'
<1>1. SUFFICES ASSUME Clean' PROVE IndexOK(slots', name', part') /\ MissInv' /\ StepInv'
  BY IndexFrom
<1>2. Clean /\ UNCHANGED segment /\ mode = "serving" /\ call = NoCall
  BY <1>1 DEF Request, Clean
<1>3. \A i \in Ids : ~ Making(i)
  BY <1>2, Words DEF Making
<1>4. call'.at \in {"none", "check"} \/ (call'.op = "delete" /\ call'.at # "index")
  BY DEF Request, Call
<1>5. QED
  BY <1>2, <1>3, <1>4, IndexIdle

LEMMA IndexCheck == ASSUME ShapeInv, IndexInv, Check \/ CheckBusy PROVE IndexInv'
<1>1. SUFFICES ASSUME Clean' PROVE IndexOK(slots', name', part') /\ MissInv' /\ StepInv'
  BY IndexFrom
<1>2. /\ Clean /\ UNCHANGED segment /\ call.at = "check" /\ call.op \in {"create", "rename"}
      /\ mode \in {"replaying", "serving"} /\ mode' = mode /\ log' = log
  <2>1. Clean
    BY <1>1 DEF Check, CheckBusy, Clean
  <2>2. QED
    BY <2>1 DEF Check, CheckBusy, ShapeInv, CallInv, CallType, StepsOf
<1>3. \A i \in Ids : ~ Making(i)
  BY <1>2 DEF Making
<1>4. CASE Return
  <2>1. call'.at = "none"
    BY <1>4, Words DEF Return
  <2>2. QED
    BY <1>2, <1>3, <2>1, IndexIdle
<1>5. CASE GoTo("lock") /\ ~ Taken(Key, call.id)
  <2>1. "lock" \in StepsOf(call.op) /\ "lock" \in Steps \ {"none"}
    BY <1>2, Words DEF StepsOf
  <2>2. call'.at = "lock" /\ call'.op = call.op /\ call'.id = call.id /\ Key' = Key
    BY <1>2, <1>5, <2>1, GoesOn
  <2>3. Avail(slots, Key, call.id)
    BY <1>2, <1>5, IndexGives, FreeName
  <2>4. Avail(slots', Key', call'.id)
    BY <1>2, <2>2, <2>3 DEF segment
  <2>5. StepInv'
    BY <2>2, <2>4 DEF StepInv, Avail, Holds
  <2>6. \A i \in Ids : name'[i] = NoName \/ Indexed(i)'
    BY <1>2, <1>3, IndexSame, IndexGives
  <2>7. MissInv'
    BY <2>6 DEF MissInv
  <2>8. QED
    BY <1>2, <2>5, <2>7, IndexSame
<1>6. QED
  <2>1. GoTo("lock") /\ Taken(Key, call.id) => "unchecked" \in flaw' \/ Return
    BY DEF Check, CheckBusy
  <2>2. "unchecked" \notin flaw'
    BY <1>1 DEF Clean
  <2>3. Return \/ GoTo("lock")
    BY DEF Check, CheckBusy
  <2>4. QED
    BY <1>4, <1>5, <2>1, <2>2, <2>3

(* A locked step of a request or record begins with every point indexed. *)
LEMMA IndexLocked ==
  ASSUME ShapeInv, IndexInv, Clean, call.at = "lock", call.op \in {"create", "delete", "rename"}
  PROVE  /\ mode \in {"replaying", "serving"}
         /\ \A i \in Ids : ~ Making(i) /\ (name[i] = NoName \/ Indexed(i))
<1>1. mode \in {"replaying", "serving"}
  BY DEF ShapeInv, CallInv
<1>2. QED
  BY <1>1, IndexGives DEF Making

LEMMA IndexCreateRecord == ASSUME ShapeInv, IndexInv, CreateRecord PROVE IndexInv'
<1>1. SUFFICES ASSUME Clean' PROVE IndexOK(slots', name', part') /\ MissInv' /\ StepInv'
  BY IndexFrom
<1>2. /\ Clean /\ call.op = "create" /\ call.at = "lock" /\ slots' = slots /\ mode' = mode /\ log' = log
      /\ call.id \in Ids /\ call.name \in Names
  BY <1>1, ShapeGives DEF CreateRecord, Clean, CallInv
<1>3. mode \in {"replaying", "serving"} /\ \A i \in Ids : ~ Making(i) /\ (name[i] = NoName \/ Indexed(i))
  BY <1>2, IndexLocked
<1>4. CASE Return /\ UNCHANGED <<name, part>>
  <2>1. call'.at = "none"
    BY <1>4, Words DEF Return
  <2>2. UNCHANGED segment
    BY <1>2, <1>4 DEF segment, CreateRecord
  <2>3. QED
    BY <1>2, <1>3, <2>1, <2>2, IndexIdle
<1>5. CASE /\ name[call.id] = NoName /\ GoTo("index")
           /\ name' = [name EXCEPT ![call.id] = call.name]
           /\ part' = [part EXCEPT ![call.id] = call.part]
  <2>1. ~ Indexed(call.id) /\ Avail(slots, Key, call.id)
    BY <1>2, <1>5, IndexGives, Words DEF StepInv
  <2>2. \A j \in Ids : j # call.id => name'[j] = name[j] /\ part'[j] = part[j]
    BY <1>2, <1>5, IndexGives
  <2>3. IndexOK(slots', name', part')
    BY <1>2, <2>1, <2>2, IndexGives, IndexFrame DEF Indexed
  <2>4. "index" \in StepsOf(call.op) /\ "index" \in Steps \ {"none"}
    BY <1>2, Words DEF StepsOf
  <2>5. name'[call.id] = call.name /\ part'[call.id] = call.part
    BY <1>2, <1>5, IndexGives
  <2>6. call'.op = call.op /\ call'.id = call.id /\ call'.at = "index" /\ Key' = Key
    BY <1>2, <1>5, <2>4, <2>5, GoesOn
  <2>7. StepInv'
    BY <1>2, <2>1, <2>6 DEF StepInv, Avail, Holds, Indexed, Has
  <2>8. \A i \in Ids : name'[i] = NoName \/ Indexed(i)' \/ Making(i)'
    BY <1>2, <1>3, <2>2, <2>6 DEF Making, Indexed, Has
  <2>9. MissInv'
    BY <1>2, <1>3, <2>8 DEF MissInv
  <2>10. QED
    BY <2>3, <2>7, <2>9
<1>6. QED
  BY <1>4, <1>5 DEF CreateRecord

(* An insertion for the call's point. *)
LEMMA IndexFills ==
  ASSUME ShapeInv, IndexInv, Clean, call.at = "index",
         Fits(slots, name, part, Key), slots' = Inserted(slots, name, part, Key, call.id),
         name' = name, part' = part
  PROVE  /\ IndexOK(slots', name', part') /\ Has(slots', call.id)
         /\ \A j \in Ids : Has(slots', j) <=> j = call.id \/ Has(slots, j)
         /\ Has(slots, call.id) => slots' = slots
<1>1. /\ call.id \in Ids /\ Key \in Keys /\ call.name \in Names
      /\ name[call.id] = call.name /\ part[call.id] = call.part
  BY ShapeGives DEF CallInv, StepsOf
<1>2. Avail(slots, Key, call.id)
  BY IndexGives DEF StepInv
<1>3. <<part[call.id], name[call.id]>> = Key
  BY <1>1 DEF Key
<1>4. PICK t : t = Inserted(slots, name, part, Key, call.id)
  OBVIOUS
<1>5. /\ IndexOK(t, name, part) /\ Has(t, call.id)
      /\ \A j \in Ids : j # call.id => (Has(t, j) <=> Has(slots, j))
      /\ Has(slots, call.id) => t = slots
  BY <1>1, <1>2, <1>3, <1>4, IndexGives, InsertIndex
<1>6. IndexOK(slots', name', part')
  BY <1>4, <1>5
<1>7. /\ Has(slots', call.id) /\ \A j \in Ids : Has(slots', j) <=> j = call.id \/ Has(slots, j)
      /\ Has(slots, call.id) => slots' = slots
  BY <1>4, <1>5
<1>8. QED
  BY <1>6, <1>7

LEMMA IndexCreateIndex == ASSUME ShapeInv, IndexInv, CreateIndex PROVE IndexInv'
<1>1. SUFFICES ASSUME Clean' PROVE IndexOK(slots', name', part') /\ MissInv' /\ StepInv'
  BY IndexFrom
<1>2. /\ Clean /\ call.op = "create" /\ call.at = "index" /\ mode' = mode /\ log' = log
      /\ name' = name /\ part' = part /\ call.id \in Ids
  BY <1>1, ShapeGives DEF CreateIndex, Clean
<1>3. mode \in {"replaying", "serving"}
  BY <1>2 DEF ShapeInv, CallInv
<1>4. Fits(slots, name, part, Key)
  BY <1>2, AlwaysFits, ShapeGives, IndexGives
<1>5. slots' = Inserted(slots, name, part, Key, call.id) /\ GoTo("log")
  BY <1>4 DEF CreateIndex
<1>6. /\ IndexOK(slots', name', part') /\ Has(slots', call.id)
      /\ \A j \in Ids : Has(slots, j) => Has(slots', j)
  BY <1>2, <1>4, <1>5, IndexFills
<1>7. "log" \in StepsOf(call.op) /\ "log" \in Steps \ {"none"}
  BY <1>2, Words DEF StepsOf
<1>8. call'.at = "log"
  BY <1>2, <1>5, <1>7, GoesOn
<1>9. \A i \in Ids : name'[i] = NoName \/ Indexed(i)'
  BY <1>2, <1>3, <1>6, IndexGives DEF Indexed, Making
<1>10. MissInv' /\ StepInv'
  BY <1>8, <1>9 DEF MissInv, StepInv
<1>11. QED
  BY <1>6, <1>10

LEMMA IndexCreateUndo == ASSUME ShapeInv, IndexInv, CreateUndo PROVE IndexInv'
<1>1. SUFFICES ASSUME Clean' PROVE IndexOK(slots', name', part') /\ MissInv' /\ StepInv'
  BY IndexFrom
<1>2. /\ Clean /\ call.at = "undo" /\ slots' = slots /\ part' = part /\ Return /\ mode' = mode
      /\ name' = [name EXCEPT ![call.id] = NoName] /\ call.id \in Ids
  BY <1>1, ShapeGives DEF CreateUndo, Clean
<1>3. call.op = "create" /\ mode \in {"replaying", "serving"}
  BY <1>2 DEF ShapeInv, CallInv, CallType, StepsOf
<1>4. ~ Has(slots, call.id)
  BY <1>2, <1>3, IndexGives DEF StepInv, Indexed
<1>5. name'[call.id] = NoName /\ \A j \in Ids : j # call.id => name'[j] = name[j] /\ part'[j] = part[j]
  BY <1>2, IndexGives
<1>6. IndexOK(slots', name', part')
  BY <1>2, <1>4, <1>5, IndexGives, IndexFrame
<1>7. \A i \in Ids : name'[i] = NoName \/ Indexed(i)'
  BY <1>2, <1>3, <1>5, IndexGives DEF Indexed, Making
<1>8. call'.at = "none"
  BY <1>2, Words DEF Return
<1>9. MissInv' /\ StepInv'
  BY <1>7, <1>8 DEF MissInv, StepInv
<1>10. QED
  BY <1>6, <1>9

(* A removal of the call's point. *)
LEMMA IndexDrops ==
  ASSUME ShapeInv, IndexInv, Clean, call.at = "lock", call.op = "delete", name[call.id] # NoName,
         slots' = Removed(slots, name, part, <<part[call.id], name[call.id]>>),
         name' = [name EXCEPT ![call.id] = NoName], part' = part
  PROVE  /\ IndexOK(slots', name', part') /\ Has(slots, call.id)
         /\ \A j \in Ids : Has(slots', j) <=> j # call.id /\ Has(slots, j)
<1>1. call.id \in Ids
  BY ShapeGives
<1>2. Has(slots, call.id)
  BY <1>1, IndexLocked DEF Indexed
<1>3. PICK t : t = Removed(slots, name, part, <<part[call.id], name[call.id]>>)
  OBVIOUS
<1>4. /\ IndexOK(t, name, part) /\ ~ Has(t, call.id)
      /\ \A j \in Ids : j # call.id => (Has(t, j) <=> Has(slots, j))
  BY <1>1, <1>2, <1>3, IndexGives, RemoveIndex
<1>5. \A j \in Ids : Has(t, j) => name'[j] = name[j] /\ part'[j] = part[j]
  BY <1>1, <1>4, IndexGives
<1>6. IndexOK(t, name', part')
  BY <1>4, <1>5, IndexFrame
<1>7. QED
  BY <1>2, <1>3, <1>4, <1>6

LEMMA IndexDelete == ASSUME ShapeInv, IndexInv, Delete PROVE IndexInv'
<1>1. SUFFICES ASSUME Clean' PROVE IndexOK(slots', name', part') /\ MissInv' /\ StepInv'
  BY IndexFrom
<1>2. /\ Clean /\ call.op = "delete" /\ call.at = "lock" /\ part' = part /\ mode' = mode
      /\ log' = log /\ call.id \in Ids
  BY <1>1, ShapeGives DEF Delete, Clean
<1>3. mode \in {"replaying", "serving"} /\ \A i \in Ids : ~ Making(i) /\ (name[i] = NoName \/ Indexed(i))
  BY <1>2, IndexLocked
<1>4. CASE Return /\ UNCHANGED <<name, slots, count>>
  <2>1. call'.at = "none"
    BY <1>4, Words DEF Return
  <2>2. UNCHANGED segment
    BY <1>2, <1>4 DEF segment
  <2>3. QED
    BY <1>2, <1>3, <2>1, <2>2, IndexIdle
<1>5. CASE /\ name[call.id] # NoName
           /\ slots' = Removed(slots, name, part, <<part[call.id], name[call.id]>>)
           /\ name' = [name EXCEPT ![call.id] = NoName] /\ GoTo("log")
  <2>1. /\ IndexOK(slots', name', part') /\ \A j \in Ids : Has(slots', j) <=> j # call.id /\ Has(slots, j)
    BY <1>2, <1>5, IndexDrops
  <2>2. \A i \in Ids : name'[i] = NoName \/ Indexed(i)'
    BY <1>2, <1>3, <1>5, <2>1, IndexGives DEF Indexed
  <2>3. "log" \in StepsOf(call.op) /\ "log" \in Steps \ {"none"}
    BY <1>2, Words DEF StepsOf
  <2>4. call'.at = "log"
    BY <1>2, <1>5, <2>3, GoesOn
  <2>5. MissInv' /\ StepInv'
    BY <2>2, <2>4 DEF MissInv, StepInv
  <2>6. QED
    BY <2>1, <2>5
<1>6. QED
  BY <1>4, <1>5 DEF Delete

(* A renaming of the call's point. *)
Renamed(old) == Removed(Inserted(slots, name, part, Key, call.id), name, part, old)
LEMMA IndexRenames ==
  ASSUME ShapeInv, IndexInv, Clean, call.at = "lock", call.op = "rename",
         name[call.id] \notin {NoName, call.name}, part[call.id] = call.part,
         Fits(slots, name, part, Key), slots' = Renamed(<<part[call.id], name[call.id]>>),
         name' = [name EXCEPT ![call.id] = call.name], part' = part
  PROVE  /\ IndexOK(slots', name', part') /\ Has(slots, call.id)
         /\ \A j \in Ids : Has(slots', j) <=> Has(slots, j)
<1>1. PICK i \in Ids, n \in Names, k \in Keys : i = call.id /\ n = call.name /\ k = Key
  BY ShapeGives DEF CallInv
<1>2. Has(slots, i) /\ Avail(slots, k, i)
  BY <1>1, IndexLocked, IndexGives DEF Indexed, StepInv
<1>3. n # name[i] /\ k = <<part[i], n>> /\ Fits(slots, name, part, k)
  BY <1>1 DEF Key
<1>4. name'[i] = n /\ (\A j \in Ids : j # i => name'[j] = name[j])
  BY <1>1, IndexGives
<1>5. PICK t : t = Removed(Inserted(slots, name, part, k, i), name, part, <<part[i], name[i]>>)
  OBVIOUS
<1>6. IndexOK(t, name', part) /\ \A j \in Ids : Has(t, j) <=> Has(slots, j)
  <2>1. Slots(slots) /\ IndexOK(slots, name, part)
    BY IndexGives
  <2>2. PICK nm : nm = name'
    OBVIOUS
  <2>3. nm[i] = n /\ (\A j \in Ids : j # i => nm[j] = name[j])
    BY <1>4, <2>2
  <2>4. IndexOK(t, nm, part) /\ \A j \in Ids : Has(t, j) <=> Has(slots, j)
    BY <1>2, <1>3, <1>5, <2>1, <2>3, RenameIndex
  <2>5. QED
    BY <2>2, <2>4
<1>7. slots' = t
  BY <1>1, <1>5 DEF Renamed
<1>8. QED
  BY <1>1, <1>2, <1>6, <1>7

LEMMA IndexRename == ASSUME ShapeInv, IndexInv, Rename PROVE IndexInv'
<1>1. SUFFICES ASSUME Clean' PROVE IndexOK(slots', name', part') /\ MissInv' /\ StepInv'
  BY IndexFrom
<1>2. /\ Clean /\ call.op = "rename" /\ call.at = "lock" /\ part' = part /\ mode' = mode
      /\ log' = log /\ call.id \in Ids /\ call.name \in Names
  BY <1>1, ShapeGives DEF Rename, Clean, CallInv
<1>3. mode \in {"replaying", "serving"} /\ \A i \in Ids : ~ Making(i) /\ (name[i] = NoName \/ Indexed(i))
  BY <1>2, IndexLocked
<1>4. CASE Return /\ UNCHANGED <<name, slots, count>>
  <2>1. call'.at = "none"
    BY <1>4, Words DEF Return
  <2>2. UNCHANGED segment
    BY <1>2, <1>4 DEF segment
  <2>3. QED
    BY <1>2, <1>3, <2>1, <2>2, IndexIdle
<1>5. CASE /\ name[call.id] \notin {NoName, call.name} /\ part[call.id] = call.part
           /\ Fits(slots, name, part, Key) /\ slots' = Renamed(<<call.part, name[call.id]>>)
           /\ name' = [name EXCEPT ![call.id] = call.name] /\ GoTo("log")
  <2>1. /\ IndexOK(slots', name', part') /\ \A j \in Ids : Has(slots', j) <=> Has(slots, j)
        /\ Has(slots, call.id)
    BY <1>2, <1>5, IndexRenames
  <2>2. \A i \in Ids : name'[i] = NoName \/ Indexed(i)'
    BY <1>2, <1>3, <1>5, <2>1, IndexGives DEF Indexed
  <2>3. "log" \in StepsOf(call.op) /\ "log" \in Steps \ {"none"}
    BY <1>2, Words DEF StepsOf
  <2>4. call'.at = "log"
    BY <1>2, <1>5, <2>3, GoesOn
  <2>5. MissInv' /\ StepInv'
    BY <2>2, <2>4 DEF MissInv, StepInv
  <2>6. QED
    BY <2>1, <2>5
<1>6. QED
  BY <1>4, <1>5 DEF Rename, Renamed

LEMMA IndexLockBusy == ASSUME ShapeInv, IndexInv, LockBusy PROVE IndexInv'
<1>1. SUFFICES ASSUME Clean' PROVE IndexOK(slots', name', part') /\ MissInv' /\ StepInv'
  BY IndexFrom
<1>2. /\ Clean /\ call.op # "load" /\ call.at \in {"lock", "index", "undo"} /\ UNCHANGED segment
      /\ mode' = mode /\ log' = log /\ name' = name /\ part' = part
  BY <1>1 DEF LockBusy, Clean, segment
<1>3. mode \in {"replaying", "serving"} /\ call.op \in {"create", "rename", "delete"} /\ call.at \in StepsOf(call.op)
  BY <1>2 DEF ShapeInv, CallInv, CallType
<1>4. CASE call.at = "index"
  <2>1. call.op = "create" /\ GoTo("undo")
    BY <1>2, <1>3, <1>4 DEF LockBusy, StepsOf
  <2>2. "undo" \in StepsOf(call.op) /\ "undo" \in Steps \ {"none"}
    BY <2>1, Words DEF StepsOf
  <2>3. name'[call.id] = call.name /\ part'[call.id] = call.part
    BY <1>2, <1>4 DEF ShapeInv, CallInv
  <2>4. call'.op = "create" /\ call'.id = call.id /\ call'.at = "undo"
    BY <1>2, <2>1, <2>2, <2>3, GoesOn
  <2>5. ~ Has(slots', call'.id)
    BY <1>2, <1>4, <2>1, <2>4, IndexGives DEF StepInv, Indexed, segment
  <2>6. StepInv'
    BY <2>4, <2>5 DEF StepInv, Indexed
  <2>7. \A i \in Ids : name'[i] = NoName \/ Indexed(i)' \/ Making(i)'
    BY <1>2, <1>3, <2>4, IndexSame, IndexGives DEF Making
  <2>8. MissInv'
    BY <1>2, <1>3, <2>7 DEF MissInv
  <2>9. QED
    BY <1>2, <2>6, <2>8, IndexSame
<1>5. CASE Return
  <2>1. call'.at = "none"
    BY <1>5, Words DEF Return
  <2>2. call.at = "lock"
    <3>1. CASE call.at = "undo"
      <4>1. "orphan" \in flaw'
        BY <2>1, <3>1 DEF LockBusy
      <4>2. QED
        BY <1>1, <4>1 DEF Clean
    <3>2. CASE call.at = "index"
      <4>1. call'.at = "undo"
        BY <1>2, <3>2 DEF LockBusy, GoTo, ShapeInv, CallInv, CallType
      <4>2. QED
        BY <2>1, <4>1
    <3>3. QED
      BY <1>2, <3>1, <3>2
  <2>3. \A i \in Ids : ~ Making(i)
    BY <2>2 DEF Making
  <2>4. QED
    BY <1>2, <1>3, <2>1, <2>3, IndexIdle
<1>6. CASE call.at # "index" /\ ~ Return
  <2>1. call' = [call EXCEPT !.tries = @ + 1] /\ cursor' = cursor
    BY <1>2, <1>6 DEF LockBusy
  <2>2. /\ call'.op = call.op /\ call'.at = call.at /\ call'.id = call.id
        /\ call'.name = call.name /\ call'.part = call.part
    BY <2>1 DEF ShapeInv, CallInv, CallType
  <2>3. StepInv'
    BY <1>2, <2>2, IndexGives DEF StepInv, Indexed, Has, Avail, Holds, Key, segment
  <2>4. \A i \in Ids : name'[i] = NoName \/ Indexed(i)' \/ Making(i)'
    BY <1>2, <1>3, <2>2, IndexSame, IndexGives DEF Making
  <2>5. MissInv'
    BY <1>2, <1>3, <2>4 DEF MissInv
  <2>6. QED
    BY <1>2, <2>3, <2>5, IndexSame
<1>7. QED
  BY <1>4, <1>5, <1>6

LEMMA IndexDeltaLog == ASSUME ShapeInv, IndexInv, DeltaLog PROVE IndexInv'
<1>1. SUFFICES ASSUME Clean' PROVE IndexOK(slots', name', part') /\ MissInv' /\ StepInv'
  BY IndexFrom
<1>2. Clean /\ call.at = "log" /\ UNCHANGED segment /\ Return
  BY <1>1 DEF DeltaLog, Clean
<1>3. mode \in {"replaying", "serving"} /\ call'.at = "none" /\ \A i \in Ids : ~ Making(i)
  BY <1>2, AtLog, Words DEF Return, Making
<1>4. QED
  BY <1>2, <1>3, IndexIdle

(* Loading: what is not indexed yet is an entry still to come. *)
LEMMA IndexLoading ==
  ASSUME ShapeInv, IndexInv, Clean, UNCHANGED segment, mode \in {"loading", "failing"},
         mode' = mode \/ mode' = "failing", mode' = "loading" => cursor' <= cursor, cursor \in Nat, cursor' \in Nat,
         call'.at # "index", call'.op = "load" \/ call'.at = "none"
  PROVE  IndexOK(slots', name', part') /\ MissInv' /\ StepInv'
<1>1. \A i \in Ids : name'[i] # NoName /\ ~ Indexed(i)' => Awaited(i)
  BY IndexSame, IndexGives DEF MissInv
<1>2. \A j \in DOMAIN Base : j \in Nat
  BY BaseIs
<1>3. \A i \in Ids : Awaited(i) => Awaited(i)'
  BY <1>2 DEF Awaited
<1>4. MissInv'
  BY <1>1, <1>3 DEF MissInv
<1>5. StepInv'
  BY DEF StepInv
<1>6. QED
  BY <1>4, <1>5, IndexSame

LEMMA IndexLoadNext == ASSUME ShapeInv, IndexInv, LoadNext PROVE IndexInv'
<1>1. SUFFICES ASSUME Clean' PROVE IndexOK(slots', name', part') /\ MissInv' /\ StepInv'
  BY IndexFrom
<1>2. /\ Clean /\ call = NoCall /\ UNCHANGED segment /\ mode \in {"loading", "failing"} /\ cursor \in Nat
  BY <1>1, ShapeGives DEF LoadNext, Clean, Fields
<1>3. CASE cursor <= Len(Base)
  <2>1. /\ call'.op = "load" /\ call'.at = "lock" /\ mode' = mode /\ cursor' = cursor
    BY <1>2, <1>3, BaseIs DEF LoadNext, Call
  <2>2. QED
    BY <1>2, <2>1, IndexLoading
<1>4. CASE cursor > Len(Base)
  <2>1. /\ mode' = (IF mode = "loading" THEN "replaying" ELSE "refused") /\ call' = NoCall
    BY <1>2, <1>4, BaseIs DEF LoadNext
  <2>2. mode = "loading" => \A i \in Ids : ~ Awaited(i)
    BY <1>2, <1>4, BaseIs DEF Awaited
  <2>3. mode = "loading" => \A i \in Ids : name'[i] = NoName \/ Indexed(i)'
    BY <1>2, <2>2, IndexSame, IndexGives DEF MissInv
  <2>4. MissInv'
    BY <1>2, <2>1, <2>3 DEF MissInv
  <2>5. StepInv'
    BY <2>1, Words DEF StepInv
  <2>6. QED
    BY <1>2, <2>4, <2>5, IndexSame
<1>5. QED
  BY <1>2, <1>3, <1>4, BaseIs

LEMMA IndexLoadRecord == ASSUME ShapeInv, IndexInv, LoadRecord PROVE IndexInv'
<1>1. SUFFICES ASSUME Clean' PROVE IndexOK(slots', name', part') /\ MissInv' /\ StepInv'
  BY IndexFrom
<1>2. Clean
  BY <1>1 DEF LoadRecord, Clean
<1>3. /\ call.op = "load" /\ call.at = "lock" /\ slots' = slots /\ mode' = mode /\ cursor' = cursor
      /\ call' = [call EXCEPT !.at = "index"] /\ call.id \in Ids /\ call.part = 0 /\ call.name \in Names
      /\ mode \in {"loading", "failing"} /\ cursor \in DOMAIN Base /\ Base[cursor].id = call.id
  BY ShapeGives DEF LoadRecord, CallInv
<1>4. /\ name[call.id] = NoName \/ <<part[call.id], name[call.id]>> = Key
      /\ ~ Taken(Key, call.id)
  BY <1>1 DEF LoadRecord, Clean
<1>5. Avail(slots, Key, call.id)
  BY <1>2, <1>4, IndexGives, FreeName
<1>6. /\ name'[call.id] = call.name /\ part'[call.id] = 0
      /\ \A j \in Ids : j # call.id => name'[j] = name[j] /\ part'[j] = part[j]
  BY <1>2, <1>3, IndexGives DEF LoadRecord
<1>7. Indexed(call.id) => name[call.id] = call.name /\ part[call.id] = 0
  BY <1>2, <1>3, <1>4, IndexGives, Words DEF Key
<1>8. IndexOK(slots', name', part')
  BY <1>2, <1>3, <1>6, <1>7, IndexGives, IndexFrame DEF Indexed
<1>9. /\ call'.op = call.op /\ call'.at = "index" /\ call'.id = call.id /\ call'.name = call.name
      /\ call'.part = call.part
  BY <1>3 DEF ShapeInv, CallInv, CallType
<1>10. StepInv'
  BY <1>3, <1>5, <1>9 DEF StepInv, Avail, Holds, Key
<1>11. MissInv'
  <2>1. SUFFICES ASSUME NEW i \in Ids, name'[i] # NoName, ~ Indexed(i)' PROVE Awaited(i)'
    BY <1>3 DEF MissInv
  <2>2. CASE i = call.id
    BY <1>3, <2>2, BaseIs DEF Awaited
  <2>3. CASE i # call.id
    <3>1. Awaited(i)
      BY <1>2, <1>3, <1>6, <2>1, <2>3, IndexGives DEF MissInv, Indexed
    <3>2. QED
      BY <1>3, <3>1 DEF Awaited
  <2>4. QED
    BY <2>2, <2>3
<1>12. QED
  BY <1>8, <1>10, <1>11

LEMMA IndexLoadIndex == ASSUME ShapeInv, IndexInv, LoadIndex PROVE IndexInv'
<1>1. SUFFICES ASSUME Clean' PROVE IndexOK(slots', name', part') /\ MissInv' /\ StepInv'
  BY IndexFrom
<1>2. /\ Clean /\ call.op = "load" /\ call.at = "index" /\ name' = name /\ part' = part /\ call.id \in Ids
      /\ mode \in {"loading", "failing"} /\ cursor \in DOMAIN Base /\ Base[cursor].id = call.id /\ Key \in Keys
  BY <1>1, ShapeGives DEF LoadIndex, Clean, CallInv
<1>3. Fits(slots, name, part, Key)
  BY <1>2, AlwaysFits, ShapeGives, IndexGives
<1>4. slots' = Inserted(slots, name, part, Key, call.id) /\ Return /\ mode' = mode
  BY <1>3 DEF LoadIndex
<1>5. /\ IndexOK(slots', name', part') /\ Has(slots', call.id)
      /\ \A j \in Ids : Has(slots', j) <=> j = call.id \/ Has(slots, j)
  BY <1>2, <1>3, <1>4, IndexFills
<1>6. call' = NoCall /\ cursor' = cursor + 1
  BY <1>2, <1>4 DEF Return
<1>7. StepInv'
  BY <1>6, Words DEF StepInv
<1>8. MissInv'
  <2>1. SUFFICES ASSUME NEW i \in Ids, name'[i] # NoName, ~ Indexed(i)' PROVE Awaited(i)'
    BY <1>2, <1>4 DEF MissInv
  <2>2. i # call.id /\ ~ Indexed(i)
    BY <1>5, <2>1 DEF Indexed
  <2>3. Awaited(i)
    BY <1>2, <2>1, <2>2, IndexGives DEF MissInv
  <2>4. PICK j \in DOMAIN Base : Base[j].id = i /\ (mode = "loading" => j >= cursor)
    BY <2>3 DEF Awaited
  <2>5. mode = "loading" => j >= cursor + 1
    BY <1>2, <2>2, <2>4, BaseIs
  <2>6. QED
    BY <1>4, <1>6, <2>4, <2>5 DEF Awaited
<1>9. QED
  BY <1>5, <1>7, <1>8

LEMMA IndexLoadBusy == ASSUME ShapeInv, IndexInv, LoadBusy PROVE IndexInv'
<1>1. SUFFICES ASSUME Clean' PROVE IndexOK(slots', name', part') /\ MissInv' /\ StepInv'
  BY IndexFrom
<1>2. /\ Clean /\ call.op = "load" /\ UNCHANGED segment /\ mode \in {"loading", "failing"} /\ cursor \in Nat
  BY <1>1, ShapeGives DEF LoadBusy, Clean, CallInv, Fields
<1>3. CASE call' = [call EXCEPT !.at = "lock", !.tries = @ + 1] /\ UNCHANGED <<mode, cursor>>
  <2>1. call'.at = "lock" /\ call'.op = "load"
    BY <1>2, <1>3 DEF ShapeInv, CallInv, CallType
  <2>2. QED
    BY <1>2, <1>3, <2>1, IndexLoading
<1>4. CASE mode' = "failing" /\ Return
  <2>1. call'.at = "none" /\ cursor' \in Nat
    BY <1>2, <1>4, Words DEF Return
  <2>2. QED
    BY <1>2, <1>4, <2>1, IndexLoading
<1>5. QED
  BY <1>3, <1>4 DEF LoadBusy

LEMMA IndexReplayNext == ASSUME ShapeInv, IndexInv, ReplayNext PROVE IndexInv'
<1>1. SUFFICES ASSUME Clean' PROVE IndexOK(slots', name', part') /\ MissInv' /\ StepInv'
  BY IndexFrom
<1>2. Clean /\ UNCHANGED segment /\ mode = "replaying" /\ call = NoCall
  BY <1>1 DEF ReplayNext, Apply, ReplayEnd, Clean
<1>3. \A i \in Ids : ~ Making(i)
  BY <1>2, Words DEF Making
<1>4. call'.at \in {"none", "check"} \/ (call'.op = "delete" /\ call'.at # "index")
  BY <1>2, Words DEF ReplayNext, Apply, ReplayEnd, Call
<1>5. QED
  BY <1>2, <1>3, <1>4, IndexIdle

LEMMA IndexStop == ASSUME ShapeInv, IndexInv, Stop PROVE IndexInv'
<1>1. \A b \in Buckets : ~ Holds(slots', b)
  BY FreshIs DEF Stop
<1>2. IndexOK(slots', name', part')
  BY <1>1 DEF IndexOK, Own, Chained, Single
<1>3. \A i \in Ids : name'[i] = NoName
  BY DEF Stop
<1>4. call' = NoCall
  BY DEF Stop
<1>5. MissInv' /\ StepInv'
  BY <1>3, <1>4, Words DEF MissInv, StepInv
<1>6. QED
  BY <1>2, <1>5, IndexFrom

LEMMA IndexCrash == ASSUME ShapeInv, IndexInv, Crash PROVE IndexInv'
<1>1. SUFFICES ASSUME Clean' PROVE IndexOK(slots', name', part') /\ MissInv' /\ StepInv'
  BY IndexFrom
<1>2. /\ Clean /\ UNCHANGED segment /\ call' = NoCall /\ mode' = "crashed"
      /\ mode \in {"loading", "failing", "replaying", "serving"}
  BY <1>1 DEF Crash, Clean
<1>3. \A i \in Ids : ~ Making(i)
  BY <1>1 DEF Crash, Clean, Making
<1>4. \A i \in Ids : name'[i] # NoName /\ ~ Indexed(i)' => Awaited(i)
  BY <1>2, <1>3, IndexSame, IndexGives DEF MissInv
<1>5. MissInv'
  BY <1>2, <1>4 DEF MissInv, Awaited
<1>6. StepInv'
  BY <1>2, Words DEF StepInv
<1>7. QED
  BY <1>2, <1>5, <1>6, IndexSame

LEMMA IndexStart == ASSUME ShapeInv, IndexInv, Start PROVE IndexInv'
<1>1. SUFFICES ASSUME Clean' PROVE IndexOK(slots', name', part') /\ MissInv' /\ StepInv'
  BY IndexFrom
<1>2. /\ Clean /\ UNCHANGED segment /\ call' = call /\ mode' = "loading" /\ cursor' = 1
      /\ mode \in {"stopped", "crashed"}
  BY <1>1 DEF Start, Clean
<1>3. \A i \in Ids : name'[i] # NoName /\ ~ Indexed(i)' => Awaited(i)
  BY <1>2, IndexSame, IndexGives DEF MissInv
<1>4. \A j \in DOMAIN Base : j \in Nat /\ j >= 1
  BY BaseIs
<1>5. \A i \in Ids : Awaited(i) => Awaited(i)'
  BY <1>2, <1>4 DEF Awaited
<1>6. MissInv'
  BY <1>2, <1>3, <1>5 DEF MissInv
<1>7. call = NoCall
  BY <1>2 DEF ShapeInv, CallInv
<1>8. StepInv'
  BY <1>2, <1>7, Words DEF StepInv
<1>9. QED
  BY <1>2, <1>6, <1>8, IndexSame

LEMMA IndexInit == ASSUME Init PROVE IndexInv
<1>1. \A b \in Buckets : ~ Holds(slots, b)
  BY FreshIs DEF Init, Fresh
<1>2. IndexOK(slots, name, part)
  BY <1>1 DEF IndexOK, Own, Chained, Single
<1>3. MissInv /\ StepInv
  BY Words DEF Init, Fresh, MissInv, StepInv
<1>4. QED
  BY <1>2, <1>3 DEF IndexInv

LEMMA IndexNext == ASSUME ShapeInv, IndexInv, [Next]_vars PROVE IndexInv'
<1>1. CASE UNCHANGED vars
  <2>1. SUFFICES ASSUME Clean' PROVE IndexOK(slots', name', part') /\ MissInv' /\ StepInv'
    BY IndexFrom
  <2>2. /\ Clean /\ UNCHANGED segment /\ call' = call /\ mode' = mode /\ cursor' = cursor
    BY <1>1, <2>1 DEF vars, Clean
  <2>3. MissInv'
    BY <2>2, IndexGives DEF MissInv, Making, Awaited, Indexed, Has, segment
  <2>4. StepInv'
    BY <2>2, IndexGives DEF StepInv, Avail, Indexed, Has, Holds, Key, segment
  <2>5. QED
    BY <2>2, <2>3, <2>4, IndexSame
<1>2. CASE Next
  BY <1>2, IndexRequest, IndexCheck, IndexCreateRecord, IndexCreateIndex, IndexCreateUndo,
     IndexDelete, IndexRename, IndexLockBusy, IndexDeltaLog, IndexLoadNext, IndexLoadRecord,
     IndexLoadIndex, IndexLoadBusy, IndexReplayNext, IndexStop, IndexCrash, IndexStart DEF Next
<1>3. QED
  BY <1>1, <1>2

LEMMA FindsPoint ==
  ASSUME Slots(slots), IndexOK(slots, name, part), NEW i \in Ids, Indexed(i)
  PROVE  Lookup(<<part[i], name[i]>>) = i
<1>1. PICK b \in Buckets : slots[b].id = i /\ Holds(slots, b)
  BY DEF Indexed, Has, Holds
<1>2. PICK k : k = slots[b].key /\ k = <<part[i], name[i]>>
  BY <1>1 DEF IndexOK, Own
<1>3. Found(slots, name, part, k) /\ At(k, End(slots, name, part, k)) = b
  <2>1. Found(slots, name, part, slots[b].key) /\ At(slots[b].key, End(slots, name, part, slots[b].key)) = b
    BY <1>1, FindsLive
  <2>2. QED
    BY <1>2, <2>1
<1>4. Lookup(k) = i
  BY <1>1, <1>3 DEF Lookup, Found
<1>5. QED
  BY <1>2, <1>4

(* Points and live slots are as many. *)
LEMMA AsMany ==
  ASSUME Slots(slots), IndexOK(slots, name, part), \A i \in Named : Indexed(i)
  PROVE  Cardinality(Live) = Cardinality(Named)
<1>1. PICK f : f = [b \in Live |-> slots[b].id]
  OBVIOUS
<1>2. \A b \in Live : slots[b].id \in Named
  BY RegistryMarkers DEF Live, Named, IndexOK, Own, Holds
<1>3. \A b, c \in Live : slots[b].id = slots[c].id => b = c
  BY DEF Live, IndexOK, Single, Holds
<1>4. \A i \in Named : \E b \in Live : slots[b].id = i
  BY DEF Live, Named, Indexed, Has
<1>5. f \in [Live -> Named] /\ (\A b \in Live : f[b] = slots[b].id)
  BY <1>1, <1>2
<1>6. (\A b, c \in Live : f[b] = f[c] => b = c) /\ (\A i \in Named : \E b \in Live : f[b] = i)
  BY <1>3, <1>4, <1>5
<1>7. f \in Bijection(Live, Named)
  BY <1>5, <1>6, Zenon DEF Bijection, Injection, Surjection, IsInjective
<1>8. ExistsBijection(Live, Named)
  BY <1>7, Zenon DEF ExistsBijection
<1>9. Live = LiveOf(slots) /\ IsFiniteSet(LiveOf(slots))
  BY LiveSize DEF Live, LiveOf, Holds
<1>10. IsFiniteSet(Live)
  BY <1>9
<1>11. QED
  BY <1>8, <1>10, FS_Bijection

LEMMA Exactly == ASSUME ShapeInv, IndexInv PROVE IndexExact
<1>1. SUFFICES ASSUME mode = "serving", call = NoCall, Clean PROVE Exact
  BY DEF IndexExact, Clean
<1>2. \A i \in Named : i \in Ids /\ Indexed(i)
  BY <1>1, IndexGives, Words DEF Named, Making
<1>3. \A i \in Named : Lookup(<<part[i], name[i]>>) = i
  BY <1>1, <1>2, IndexGives, FindsPoint
<1>4. Cardinality(Live) = Cardinality(Named)
  BY <1>1, <1>2, IndexGives, AsMany
<1>5. Live = LiveOf(slots)
  BY DEF Live, LiveOf, Holds
<1>6. count = Cardinality(Live)
  BY <1>5 DEF ShapeInv
<1>7. QED
  BY <1>3, <1>4, <1>6 DEF Exact

LEMMA IndexHolds == Spec => [](ShapeInv /\ IndexInv)
<1>1. Init => ShapeInv /\ IndexInv
  BY ShapeInit, IndexInit
<1>2. ShapeInv /\ IndexInv /\ [Next]_vars => (ShapeInv /\ IndexInv)'
  BY ShapeNext, IndexNext
<1>3. QED
  BY <1>1, <1>2, PTL DEF Spec

\* Whatever creations, deletions, renames, rollbacks, failed locks, crashes and
\* restarts came before, between two calls every point is found by its name
\* (irt_index_lookup over the tombstones of irt_index_remove_locked) and the index
\* holds as many slots as there are points, unless the history is one of the three
\* that the property leaves out.
THEOREM IndexCorrect == Spec => []IndexExact
<1>1. ShapeInv /\ IndexInv => IndexExact
  BY Exactly
<1>2. QED
  BY <1>1, IndexHolds, PTL

-----------------------------------------------------------------------------
(* The registry implements the directory: while the history is clean, an id    *)
(* has a key exactly when it has a slot.                                       *)

KeyAt(i) == IF Indexed(i) THEN <<part[i], name[i]>> ELSE None
Stutters == \A i \in Ids : KeyOf(i)' = KeyOf(i)

LEMMA FoundId ==
  ASSUME NEW k \in Keys, NEW i \in Ids, Lookup(k) = i
  PROVE  Indexed(i)
<1>1. PICK e : e = End(slots, name, part, k)
  OBVIOUS
<1>2. i # None
  BY RegistryMarkers
<1>3. slots[At(k, e)].id = i /\ e < Capacity
  BY <1>1, <1>2 DEF Lookup
<1>4. At(k, e) \in Buckets
  BY <1>1, <1>3, EndIs, AtBucket
<1>5. QED
  BY <1>3, <1>4 DEF Indexed, Has

LEMMA KeysAre == ShapeInv /\ IndexInv /\ Clean => \A i \in Ids : KeyOf(i) = KeyAt(i)
<1>1. SUFFICES ASSUME ShapeInv, IndexInv, Clean, NEW i \in Ids PROVE KeyOf(i) = KeyAt(i)
  OBVIOUS
<1>2. CASE Indexed(i)
  <2>1. Lookup(<<part[i], name[i]>>) = i /\ name[i] \in Names
    BY <1>1, <1>2, IndexGives, FindsPoint
  <2>2. name[i] # NoName
    BY <2>1, Words
  <2>3. QED
    BY <1>2, <2>1, <2>2 DEF KeyOf, KeyAt
<1>3. CASE ~ Indexed(i)
  <2>1. CASE name[i] = NoName
    BY <1>3, <2>1 DEF KeyOf, KeyAt
  <2>2. CASE name[i] # NoName
    <3>1. <<part[i], name[i]>> \in Keys
      BY <1>1, <2>2, IndexGives DEF Keys, NameSet
    <3>2. Lookup(<<part[i], name[i]>>) # i
      BY <1>3, <3>1, FoundId
    <3>3. QED
      BY <1>3, <3>2 DEF KeyOf, KeyAt
  <2>3. QED
    BY <2>1, <2>2
<1>4. QED
  BY <1>2, <1>3

LEMMA KeysThen == (ShapeInv /\ IndexInv /\ Clean)' => (\A i \in Ids : KeyOf(i) = KeyAt(i))'
  BY KeysAre, PTL

(* What a look-up finds before and after a step, in terms of the slots. *)
LEMMA KeyStep ==
  ASSUME ShapeInv, IndexInv, Clean, Clean', [Next]_vars
  PROVE  \A i \in Ids : /\ KeyOf(i) = IF Has(slots, i) THEN <<part[i], name[i]>> ELSE None
                        /\ KeyOf(i)' = IF Has(slots', i) THEN <<part'[i], name'[i]>> ELSE None
<1>1. ShapeInv' /\ IndexInv'
  BY ShapeNext, IndexNext
<1>2. \A i \in Ids : KeyOf(i) = KeyAt(i)
  BY KeysAre
<1>3. \A i \in Ids : KeyOf(i)' = KeyAt(i)'
  BY <1>1, KeysThen
<1>4. QED
  BY <1>2, <1>3 DEF KeyAt, Indexed

LEMMA KeysKept ==
  ASSUME ShapeInv, IndexInv, Clean, Clean', [Next]_vars,
         \A i \in Ids : Has(slots', i) <=> Has(slots, i),
         \A i \in Ids : Has(slots, i) => name'[i] = name[i] /\ part'[i] = part[i]
  PROVE  Stutters
<1>1. \A i \in Ids : KeyOf(i)' = KeyOf(i)
  BY KeyStep
<1>2. QED
  BY <1>1 DEF Stutters

LEMMA SegmentKept ==
  ASSUME ShapeInv, IndexInv, Clean, Clean', [Next]_vars, UNCHANGED segment
  PROVE  Stutters
  BY KeysKept DEF segment

(* An id that was not found gets a key that no id has. *)
LEMMA InsertRefines ==
  ASSUME ShapeInv, IndexInv, Clean, Clean', Next, call.at = "index",
         Fits(slots, name, part, Key), slots' = Inserted(slots, name, part, Key, call.id),
         name' = name, part' = part
  PROVE  Stutters \/ \E i \in Ids : Abstract!Create(i)
<1>1. /\ Has(slots', call.id)
      /\ \A j \in Ids : Has(slots', j) <=> j = call.id \/ Has(slots, j)
      /\ Has(slots, call.id) => slots' = slots
  BY IndexFills
<1>2. CASE Has(slots, call.id)
  BY <1>1, <1>2, KeysKept
<1>3. CASE ~ Has(slots, call.id)
  <2>1. PICK i \in Ids, k \in Keys : i = call.id /\ k = Key /\ k = <<part[i], name[i]>>
    BY ShapeGives DEF CallInv, Key, StepsOf
  <2>2. KeyOf(i) = None /\ KeyOf(i)' = k
    BY <1>1, <1>3, <2>1, KeyStep
  <2>3. \A j \in Ids \ {i} : KeyOf(j)' = KeyOf(j)
    BY <1>1, <2>1, KeyStep
  <2>4. Avail(slots, k, i)
    BY <2>1, IndexGives DEF StepInv
  <2>5. \A j \in Ids : KeyOf(j) # k
    <3>1. SUFFICES ASSUME NEW j \in Ids, KeyOf(j) = k PROVE FALSE
      OBVIOUS
    <3>2. Has(slots, j) /\ <<part[j], name[j]>> = k
      BY <3>1, KeyStep, Words
    <3>3. PICK b \in Buckets : slots[b].id = j /\ Holds(slots, b)
      BY <3>2 DEF Has, Holds
    <3>4. slots[b].key = k
      BY <3>2, <3>3, IndexGives DEF IndexOK, Own
    <3>5. QED
      BY <1>3, <2>1, <2>4, <3>2, <3>3, <3>4 DEF Avail
  <2>6. Abstract!OnlyAt(i)
    BY <2>3 DEF Abstract!OnlyAt
  <2>7. Abstract!Assign(i)
    BY <2>2, <2>5, <2>6 DEF Abstract!Assign
  <2>8. QED
    BY <2>1, <2>2, <2>7 DEF Abstract!Create
<1>4. QED
  BY <1>2, <1>3

LEMMA DeleteRefines ==
  ASSUME ShapeInv, IndexInv, Clean, Clean', Delete
  PROVE  Stutters \/ \E i \in Ids : Abstract!Delete(i)
<1>1. Next /\ call.op = "delete" /\ call.at = "lock" /\ part' = part /\ call.id \in Ids
  BY ShapeGives DEF Next, Delete
<1>2. CASE UNCHANGED <<name, slots, count>>
  BY <1>1, <1>2, KeysKept
<1>3. CASE ~ UNCHANGED <<name, slots, count>>
  <2>1. /\ name[call.id] # NoName
        /\ slots' = Removed(slots, name, part, <<part[call.id], name[call.id]>>)
        /\ name' = [name EXCEPT ![call.id] = NoName]
    BY <1>3 DEF Delete
  <2>2. Has(slots, call.id) /\ \A j \in Ids : Has(slots', j) <=> j # call.id /\ Has(slots, j)
    BY <1>1, <2>1, IndexDrops
  <2>3. PICK i \in Ids : i = call.id
    BY <1>1
  <2>4. <<part[i], name[i]>> \in Keys
    BY <2>2, <2>3, IndexGives DEF Indexed, Keys
  <2>5. KeyOf(i) # None /\ KeyOf(i)' = None
    BY <1>1, <2>2, <2>3, <2>4, KeyStep, Words
  <2>6. \A j \in Ids \ {i} : KeyOf(j)' = KeyOf(j)
    <3>1. \A j \in Ids \ {i} : name'[j] = name[j] /\ part'[j] = part[j] /\ (Has(slots', j) <=> Has(slots, j))
      BY <1>1, <2>1, <2>2, <2>3, IndexGives
    <3>2. QED
      BY <1>1, <3>1, KeyStep
  <2>7. QED
    BY <2>5, <2>6 DEF Abstract!Delete, Abstract!OnlyAt
<1>4. QED
  BY <1>2, <1>3

LEMMA RenameRefines ==
  ASSUME ShapeInv, IndexInv, Clean, Clean', Rename
  PROVE  Stutters \/ \E i \in Ids : Abstract!Rename(i)
<1>1. Next /\ call.op = "rename" /\ call.at = "lock" /\ part' = part /\ call.id \in Ids
  BY ShapeGives DEF Next, Rename
<1>2. CASE UNCHANGED <<name, slots, count>>
  BY <1>1, <1>2, KeysKept
<1>3. CASE ~ UNCHANGED <<name, slots, count>>
  <2>1. /\ name[call.id] \notin {NoName, call.name} /\ part[call.id] = call.part
        /\ Fits(slots, name, part, Key) /\ slots' = Renamed(<<part[call.id], name[call.id]>>)
        /\ name' = [name EXCEPT ![call.id] = call.name]
    BY <1>3 DEF Rename, Renamed
  <2>2. Has(slots, call.id) /\ \A j \in Ids : Has(slots', j) <=> Has(slots, j)
    BY <1>1, <2>1, IndexRenames
  <2>3. PICK i \in Ids, k \in Keys : i = call.id /\ k = Key
    BY <1>1, ShapeGives
  <2>4. name'[i] = call.name /\ k = <<part[i], call.name>> /\ name[i] # call.name
    BY <1>1, <2>1, <2>3, IndexGives DEF Key
  <2>5. <<part[i], name[i]>> \in Keys
    BY <2>2, <2>3, IndexGives DEF Indexed, Keys
  <2>6. KeyOf(i) = <<part[i], name[i]>> /\ KeyOf(i)' = k
    BY <1>1, <2>2, <2>3, <2>4, KeyStep
  <2>7. \A j \in Ids \ {i} : KeyOf(j)' = KeyOf(j)
    <3>1. \A j \in Ids \ {i} : name'[j] = name[j] /\ part'[j] = part[j] /\ (Has(slots', j) <=> Has(slots, j))
      BY <1>1, <2>1, <2>2, <2>3, IndexGives
    <3>2. QED
      BY <1>1, <3>1, KeyStep
  <2>8. Avail(slots, k, i)
    BY <1>1, <2>3, IndexGives DEF StepInv
  <2>9. \A j \in Ids : KeyOf(j) # k
    <3>1. SUFFICES ASSUME NEW j \in Ids, KeyOf(j) = k PROVE FALSE
      OBVIOUS
    <3>2. Has(slots, j) /\ <<part[j], name[j]>> = k
      BY <1>1, <3>1, KeyStep, Words
    <3>3. PICK b \in Buckets : slots[b].id = j /\ Holds(slots, b)
      BY <3>2 DEF Has, Holds
    <3>4. slots[b].key = k
      BY <3>2, <3>3, IndexGives DEF IndexOK, Own
    <3>5. j = i
      BY <2>8, <3>3, <3>4 DEF Avail
    <3>6. QED
      BY <2>4, <3>2, <3>5
  <2>10. Abstract!Assign(i)
    BY <2>6, <2>7, <2>9 DEF Abstract!Assign, Abstract!OnlyAt
  <2>11. KeyOf(i) # None /\ KeyOf(i)'[1] = KeyOf(i)[1]
    BY <2>4, <2>5, <2>6, Words
  <2>12. QED
    BY <2>10, <2>11 DEF Abstract!Rename
<1>4. QED
  BY <1>2, <1>3

LEMMA RecordRefines ==
  ASSUME ShapeInv, IndexInv, Clean, Clean', CreateRecord \/ CreateUndo \/ LoadRecord
  PROVE  Stutters
<1>1. Next /\ slots' = slots /\ call.id \in Ids
  BY ShapeGives DEF Next, CreateRecord, CreateUndo, LoadRecord
<1>2. CASE CreateRecord
  <2>1. CASE UNCHANGED <<name, part>>
    BY <1>1, <2>1, KeysKept
  <2>2. CASE ~ UNCHANGED <<name, part>>
    <3>1. /\ name[call.id] = NoName /\ name' = [name EXCEPT ![call.id] = call.name]
          /\ part' = [part EXCEPT ![call.id] = call.part]
      BY <1>2, <2>2 DEF CreateRecord
    <3>2. ~ Has(slots, call.id)
      BY <1>1, <3>1, IndexGives, Words DEF Indexed
    <3>3. \A i \in Ids : Has(slots, i) => name'[i] = name[i] /\ part'[i] = part[i]
      BY <1>1, <3>1, <3>2, IndexGives
    <3>4. QED
      BY <1>1, <3>3, KeysKept
  <2>3. QED
    BY <2>1, <2>2
<1>3. CASE CreateUndo
  <2>1. call.op = "create" /\ call.at = "undo"
    BY <1>3 DEF CreateUndo, ShapeInv, CallInv, CallType, StepsOf
  <2>2. ~ Has(slots, call.id)
    BY <2>1, IndexGives DEF StepInv, Indexed
  <2>3. \A i \in Ids : Has(slots, i) => name'[i] = name[i] /\ part'[i] = part[i]
    BY <1>1, <1>3, <2>2, IndexGives DEF CreateUndo
  <2>4. QED
    BY <1>1, <2>3, KeysKept
<1>4. CASE LoadRecord
  <2>1. /\ call.part = 0 /\ name' = [name EXCEPT ![call.id] = call.name]
        /\ part' = [part EXCEPT ![call.id] = 0]
        /\ name[call.id] = NoName \/ <<part[call.id], name[call.id]>> = Key
    BY <1>4 DEF LoadRecord, Clean, ShapeInv, CallInv
  <2>2. Has(slots, call.id) => name[call.id] = call.name /\ part[call.id] = 0
    BY <1>1, <2>1, IndexGives, Words DEF Key, Indexed
  <2>3. \A i \in Ids : Has(slots, i) => name'[i] = name[i] /\ part'[i] = part[i]
    BY <1>1, <2>1, <2>2, IndexGives
  <2>4. QED
    BY <1>1, <2>3, KeysKept
<1>5. QED
  BY <1>2, <1>3, <1>4

LEMMA StopRefines ==
  ASSUME ShapeInv, IndexInv, Clean, Clean', Stop
  PROVE  Abstract!Renew
<1>1. Next
  BY DEF Next
<1>2. \A b \in Buckets : ~ Holds(slots', b)
  BY FreshIs DEF Stop
<1>3. \A i \in Ids : ~ Has(slots', i)
  BY <1>2 DEF Has, Holds
<1>4. \A i \in Ids : KeyOf(i)' = None
  BY <1>1, <1>3, KeyStep
<1>5. QED
  BY <1>4 DEF Abstract!Renew

LEMMA CleanRefines ==
  ASSUME ShapeInv, IndexInv, Clean, Clean', Next
  PROVE  Stutters \/ Abstract!Renew \/ \E i \in Ids : Abstract!Create(i) \/ Abstract!Delete(i) \/ Abstract!Rename(i)
<1>1. CASE Request \/ Check \/ CheckBusy \/ LockBusy \/ DeltaLog \/ LoadNext \/ LoadBusy \/ ReplayNext \/ Crash \/ Start
  <2>1. UNCHANGED segment
    BY <1>1 DEF Request, Check, CheckBusy, LockBusy, DeltaLog, LoadNext, LoadBusy, ReplayNext, Apply, ReplayEnd, Crash, Start
  <2>2. QED
    BY <2>1, SegmentKept
<1>2. CASE CreateIndex
  <2>1. call.at = "index" /\ call.op = "create" /\ name' = name /\ part' = part
    BY <1>2 DEF CreateIndex
  <2>2. Fits(slots, name, part, Key)
    BY <2>1, AlwaysFits, ShapeGives, IndexGives
  <2>3. slots' = Inserted(slots, name, part, Key, call.id)
    BY <1>2, <2>2 DEF CreateIndex
  <2>4. QED
    BY <2>1, <2>2, <2>3, InsertRefines
<1>3. CASE LoadIndex
  <2>1. call.at = "index" /\ call.op = "load" /\ name' = name /\ part' = part
    BY <1>3 DEF LoadIndex
  <2>2. Fits(slots, name, part, Key)
    BY <2>1, AlwaysFits, ShapeGives, IndexGives
  <2>3. slots' = Inserted(slots, name, part, Key, call.id)
    BY <1>3, <2>2 DEF LoadIndex
  <2>4. QED
    BY <2>1, <2>2, <2>3, InsertRefines
<1>4. QED
  BY <1>1, <1>2, <1>3, DeleteRefines, RenameRefines, RecordRefines, StopRefines DEF Next

LEMMA DirectoryInit == Init => Abstract!Init
<1>1. SUFFICES ASSUME Init PROVE Abstract!Init
  OBVIOUS
<1>2. \A i \in Ids : KeyOf(i) = None
  BY <1>1 DEF Init, Fresh, KeyOf
<1>3. flaw \cap {"unchecked", "orphan", "overlay"} = {}
  BY <1>1 DEF Init
<1>4. (flaw \cap {"unchecked", "orphan", "overlay"} # {}) = FALSE
  BY <1>3
<1>5. [i \in Ids |-> KeyOf(i)] = [i \in Ids |-> None]
  BY <1>2
<1>6. QED
  BY <1>4, <1>5 DEF Abstract!Init

LEMMA DirectoryNext ==
  ASSUME ShapeInv, IndexInv, [Next]_vars
  PROVE  [Abstract!Next]_(Abstract!vars)
<1>1. CASE UNCHANGED vars
  BY <1>1 DEF vars, segment, Abstract!vars, KeyOf, Lookup
<1>2. CASE ~ Clean'
  <2>1. (flaw \cap {"unchecked", "orphan", "overlay"} # {})' = TRUE
    BY <1>2 DEF Clean
  <2>2. QED
    BY <2>1 DEF Abstract!Next
<1>3. CASE Clean' /\ Next
  <2>1. Clean
    BY <1>3, CleanBack
  <2>2. (flaw \cap {"unchecked", "orphan", "overlay"} # {})' = (flaw \cap {"unchecked", "orphan", "overlay"} # {})
    BY <1>3, <2>1 DEF Clean
  <2>3. CASE Stutters
    <3>1. [i \in Ids |-> KeyOf(i)]' = [i \in Ids |-> KeyOf(i)]
      BY <2>3 DEF Stutters
    <3>2. QED
      BY <2>2, <3>1 DEF Abstract!vars
  <2>4. CASE ~ Stutters
    BY <1>3, <2>1, <2>2, <2>4, CleanRefines DEF Abstract!Next
  <2>5. QED
    BY <2>3, <2>4
<1>4. QED
  BY <1>1, <1>2, <1>3

\* The registry is a directory for everybody who looks names up: a creation (or
\* the loading of an entry), a deletion and a rename are each one step, no key ever
\* leads to two ids, and nothing else changes what a look-up finds, whatever
\* locks fail and whenever the process stops, dies and starts again, until one of
\* the three flaws compromises it.
THEOREM RefinesDirectory == Spec => ImplementsDirectory
<1>1. Init => Abstract!Init
  BY DirectoryInit
<1>2. ShapeInv /\ IndexInv /\ [Next]_vars => [Abstract!Next]_(Abstract!vars)
  BY DirectoryNext
<1>3. QED
  BY <1>1, <1>2, IndexHolds, PTL DEF Spec, ImplementsDirectory, Abstract!Spec

-----------------------------------------------------------------------------
(* The log. *)

LEMMA OrderlyBack == ASSUME [Next]_vars, Orderly' PROVE Orderly /\ Clean
<1>1. CASE UNCHANGED vars
  BY <1>1 DEF vars, Clean, Orderly
<1>2. CASE Next
  <2>1. flaw \ {"crashed"} \subseteq flaw'
    BY <1>2 DEF Next, Request, Check, CheckBusy, CreateRecord, CreateIndex, CreateUndo, Delete, Rename,
       LockBusy, DeltaLog, LoadNext, LoadRecord, LoadIndex, LoadBusy, ReplayNext, Apply, ReplayEnd, Stop, Crash, Start
  <2>2. QED
    BY <2>1 DEF Clean, Orderly
<1>3. QED
  BY <1>1, <1>2

LEMMA ViewIs ==
  \A i \in Ids : View[i] = IF name[i] = NoName THEN None ELSE <<part[i], name[i]>>
  BY DEF View

LEMMA NotNone == ASSUME NEW q, NEW n \in Names, q \in Partitions PROVE <<q, n>> # None
  BY RegistryMarkers DEF Keys

(* A change of one record is a change of one place of the view. *)
LEMMA ViewStep ==
  ASSUME NEW i \in Ids, \A j \in Ids : j # i => name'[j] = name[j] /\ part'[j] = part[j]
  PROVE  View' = [View EXCEPT ![i] = IF name'[i] = NoName THEN None ELSE <<part'[i], name'[i]>>]
  BY DEF View

LEMMA ViewKept == ASSUME name' = name, part' = part PROVE View' = View
  BY DEF View

LEMMA TraceKept ==
  ASSUME NEW f, Trace(f, log), log' = log,
         mode' # "serving" => saved' = f[Len(log)],
         mode' = "serving" => \E v : v = f[Len(log)] /\ Before(v)',
         mode' = "replaying" /\ flaw' = {} => (\E v : v = f[cursor' - 1] /\ Before(v)') /\ call'.at # "undo"
  PROVE  TraceInv(f)'
<1>1. mode' = "serving" => Before(f[Len(log)])'
  BY DEF Before
<1>2. mode' = "replaying" /\ flaw' = {} => Before(f[cursor - 1])'
  BY DEF Before
<1>3. QED
  BY <1>1, <1>2 DEF TraceInv, Trace

(* A step of a call, of a request or of a record that is replayed. *)
LEMMA TraceCall ==
  ASSUME NEW f, TraceInv(f), mode \in {"serving", "replaying"}, mode' = mode, log' = log,
         saved' = saved, flaw' = flaw,
         mode = "serving" \/ flaw = {} =>
           /\ cursor' = cursor /\ \A v : Before(v) => Before(v)'
           /\ mode = "replaying" => call'.at # "undo"
  PROVE  TraceInv(f)'
<1>1. Trace(f, log) /\ (mode' # "serving" => saved' = f[Len(log)])
  BY DEF TraceInv
<1>2. mode' = "serving" => \E v : v = f[Len(log)] /\ Before(v)'
  BY DEF TraceInv
<1>3. mode' = "replaying" /\ flaw' = {} => (\E v : v = f[cursor' - 1] /\ Before(v)') /\ call'.at # "undo"
  BY DEF TraceInv
<1>4. QED
  BY <1>1, <1>2, <1>3, TraceKept

LEMMA LogsFrom ==
  ASSUME Orderly' => /\ ZeroInv' /\ (mode' = "loading" /\ flaw' = {} => LoadedInv')
                     /\ \E f : TraceInv(f)'
  PROVE  LogsInv'
  BY DEF LogsInv, Orderly

(* The record that is replayed changes what the registry holds. *)
LEMMA ReplayEffect ==
  ASSUME ShapeInv, NEW f, TraceInv(f), mode = "replaying", flaw = {}, call.at \in {"check", "lock"}
  PROVE  Effect(View, Record, f[cursor])
<1>1. cursor \in DOMAIN log /\ (log[cursor].whole => log[cursor] = Record)
  BY DEF ShapeInv, CallInv
<1>2. cursor \in 1 .. Len(log)
  BY <1>1, LogIs DEF ShapeInv
<1>3. log[cursor].whole /\ Effect(f[cursor - 1], log[cursor], f[cursor])
  BY <1>2 DEF TraceInv, Trace
<1>4. f[cursor - 1] = View
  BY DEF TraceInv, Before
<1>5. QED
  BY <1>1, <1>3, <1>4

(* A name that somebody carries is taken, and the other way round. *)
LEMMA TakenCarried ==
  ASSUME ShapeInv, IndexInv, Clean, call.at = "check", call.part = 0, Taken(Key, call.id)
  PROVE  Carried(View, call.name)
<1>1. Key \in Keys /\ Key = <<0, call.name>>
  BY ShapeGives DEF CallInv, StepsOf, Key
<1>2. PICK i : i = Lookup(Key) /\ i # None
  BY DEF Taken
<1>3. PICK e : e = End(slots, name, part, Key) /\ e < Capacity /\ i = slots[At(Key, e)].id /\ i # Empty
  BY <1>2 DEF Lookup
<1>4. Found(slots, name, part, Key)
  BY <1>3 DEF Found
<1>5. PICK b \in Buckets : b = At(Key, e) /\ Holds(slots, b) /\ slots[b].key = Key
  BY <1>1, <1>3, <1>4, IndexGives, FoundLive
<1>6. i \in Ids /\ name[i] \in Names /\ <<part[i], name[i]>> = Key
  BY <1>3, <1>5, IndexGives DEF IndexOK, Own, Holds
<1>7. View[i] = Key
  BY <1>6, ViewIs, Words
<1>8. QED
  BY <1>1, <1>6, <1>7 DEF Carried

LEMMA AvailCarried ==
  ASSUME ShapeInv, IndexInv, Clean, mode \in {"replaying", "serving"}, NEW k, NEW i, Avail(slots, k, i),
         \A j \in Ids : Making(j) => j = i
  PROVE  \A j \in Ids : View[j] = k /\ k # None => j = i
<1>1. SUFFICES ASSUME NEW j \in Ids, View[j] = k, k # None, j # i PROVE FALSE
  OBVIOUS
<1>2. name[j] # NoName /\ k = <<part[j], name[j]>>
  BY <1>1, ViewIs
<1>3. Has(slots, j)
  BY <1>1, <1>2, IndexGives DEF Indexed
<1>4. PICK b \in Buckets : slots[b].id = j /\ Holds(slots, b)
  BY <1>3 DEF Has, Holds
<1>5. slots[b].key = k
  BY <1>2, <1>4, IndexGives DEF IndexOK, Own
<1>6. QED
  BY <1>1, <1>4, <1>5 DEF Avail

LEMMA LogsGives ==
  ASSUME LogsInv, Orderly
  PROVE  ZeroInv /\ (mode = "loading" /\ flaw = {} => LoadedInv) /\ \E f : TraceInv(f)
  BY DEF LogsInv

(* Steps of a call that leave the records: the points outside partition 0 stay. *)
LEMMA ZeroKept ==
  ASSUME ZeroInv, name' = name, part' = part, mode' = mode,
         (call'.op = call.op /\ call'.id = call.id /\ call'.part = call.part
           /\ (call.at \in {"index", "undo", "log"} => call'.at \in {"index", "undo", "log"}))
         \/ call.at \in {"none", "check", "lock"} \/ call.op # "create" \/ mode # "serving"
  PROVE  ZeroInv'
  BY DEF ZeroInv

LEMMA LogsRequest == ASSUME ShapeInv, LogsInv, Request PROVE LogsInv'
<1>1. SUFFICES ASSUME Orderly'
               PROVE  ZeroInv' /\ (mode' = "loading" /\ flaw' = {} => LoadedInv') /\ \E f : TraceInv(f)'
  BY LogsFrom
<1>2. /\ Orderly /\ mode = "serving" /\ mode' = mode /\ call = NoCall /\ name' = name /\ part' = part
      /\ log' = log /\ saved' = saved /\ flaw' = flaw /\ cursor' = cursor
  BY <1>1 DEF Request, Orderly, segment
<1>3. PICK f : TraceInv(f)
  BY <1>2, LogsGives
<1>4. call'.at \in {"check", "lock"}
  BY DEF Request, Call
<1>5. View' = View /\ call.at = "none"
  BY <1>2, ViewKept, Words
<1>6. \A v : Before(v) => Before(v)'
  BY <1>4, <1>5 DEF Before
<1>7. TraceInv(f)'
  BY <1>2, <1>3, <1>6, TraceCall
<1>8. ZeroInv'
  BY <1>2, <1>5, LogsGives, ZeroKept
<1>9. QED
  BY <1>2, <1>7, <1>8

LEMMA LogsCheck == ASSUME ShapeInv, IndexInv, LogsInv, Check \/ CheckBusy PROVE LogsInv'
<1>1. SUFFICES ASSUME Orderly'
               PROVE  ZeroInv' /\ (mode' = "loading" /\ flaw' = {} => LoadedInv') /\ \E f : TraceInv(f)'
  BY LogsFrom
<1>2. /\ Orderly /\ Clean /\ call.at = "check" /\ mode' = mode /\ name' = name /\ part' = part
      /\ log' = log /\ saved' = saved /\ (Return \/ GoTo("lock"))
      /\ call.op \in {"create", "rename"} /\ mode \in {"replaying", "serving"} /\ call.id \in Ids
  <2>1. [Next]_vars
    BY DEF Next
  <2>2. Orderly /\ Clean
    BY <1>1, <2>1, OrderlyBack
  <2>3. call.at = "check"
    BY DEF Check, CheckBusy
  <2>4. call.op \in {"create", "rename"} /\ mode \in {"replaying", "serving"} /\ call.id \in Ids
    BY <2>3 DEF ShapeInv, CallInv, CallType, StepsOf
  <2>5. QED
    BY <2>2, <2>3, <2>4 DEF Check, CheckBusy, segment
<1>3. flaw' = flaw /\ (Return => Taken(Key, call.id))
  <2>1. CASE Check
    <3>1. flaw' = flaw /\ (~ Taken(Key, call.id) => GoTo("lock"))
      BY <2>1 DEF Check
    <3>2. GoTo("lock") => call'.at = "lock"
      BY <1>2 DEF GoTo, ShapeInv, CallInv, CallType
    <3>3. Return => call'.at = "none"
      BY Words DEF Return
    <3>4. QED
      BY <3>1, <3>2, <3>3
  <2>2. CASE CheckBusy
    <3>1. ~ Taken(Key, call.id) /\ flaw' = flaw /\ GoTo("lock")
      BY <1>1, <2>2 DEF CheckBusy, Orderly
    <3>2. call'.at = "lock"
      BY <1>2, <3>1 DEF GoTo, ShapeInv, CallInv, CallType
    <3>3. Return => call'.at = "none"
      BY Words DEF Return
    <3>4. QED
      BY <3>1, <3>2, <3>3
  <2>3. QED
    BY <2>1, <2>2
<1>4. PICK f : TraceInv(f)
  BY <1>2, LogsGives
<1>5. call'.at \in {"none", "lock"}
  BY <1>2, Words DEF GoTo, Return, ShapeInv, CallInv, CallType
<1>6. View' = View
  BY <1>2, ViewKept
<1>7. \A v : Before(v) => Before(v)'
  BY <1>2, <1>5, <1>6 DEF Before
<1>8. mode = "replaying" /\ flaw = {} => ~ Return
  <2>1. SUFFICES ASSUME mode = "replaying", flaw = {}, Return PROVE FALSE
    OBVIOUS
  <2>2. Effect(View, Record, f[cursor])
    BY <1>2, <1>4, <2>1, ReplayEffect
  <2>3. ~ Carried(View, call.name)
    BY <1>2, <2>2 DEF Effect, Record
  <2>4. call.part = 0
    BY <1>2, <2>1 DEF ShapeInv, CallInv
  <2>5. QED
    BY <1>2, <1>3, <2>1, <2>3, <2>4, TakenCarried
<1>9. mode = "serving" \/ flaw = {} => cursor' = cursor
  BY <1>2, <1>8 DEF Return, GoTo
<1>10. TraceInv(f)'
  BY <1>2, <1>3, <1>4, <1>5, <1>7, <1>9, TraceCall
<1>11. ZeroInv'
  BY <1>2, LogsGives, ZeroKept
<1>12. QED
  BY <1>2, <1>10, <1>11

(* The part of a named point is 0 when a call begins its locked section. *)
LEMMA ZeroPart ==
  ASSUME ZeroInv, NEW i \in Ids, name[i] # NoName, call.at \in {"none", "check", "lock"} \/ call.op # "create" \/ mode # "serving"
  PROVE  part[i] = 0
  BY DEF ZeroInv

LEMMA LogsCreateRecord == ASSUME ShapeInv, IndexInv, LogsInv, CreateRecord PROVE LogsInv'
<1>1. SUFFICES ASSUME Orderly'
               PROVE  ZeroInv' /\ (mode' = "loading" /\ flaw' = {} => LoadedInv') /\ \E f : TraceInv(f)'
  BY LogsFrom
<1>2. /\ Orderly /\ call.op = "create" /\ call.at = "lock" /\ mode' = mode
      /\ log' = log /\ saved' = saved /\ flaw' = flaw /\ call.id \in Ids /\ call.name \in Names
      /\ mode \in {"replaying", "serving"} /\ (mode = "replaying" => call.part = 0)
  BY <1>1, ShapeGives DEF CreateRecord, Orderly, CallInv
<1>3. PICK f : TraceInv(f)
  BY <1>2, LogsGives
<1>4. CASE Return /\ name[call.id] # NoName /\ UNCHANGED <<name, part>>
  <2>1. call'.at = "none" /\ View' = View
    BY <1>4, ViewKept, Words DEF Return
  <2>2. \A v : Before(v) => Before(v)'
    BY <1>2, <2>1 DEF Before
  <2>3. mode = "replaying" => flaw # {}
    <3>1. SUFFICES ASSUME mode = "replaying", flaw = {} PROVE FALSE
      OBVIOUS
    <3>2. Effect(View, Record, f[cursor])
      BY <1>2, <1>3, <3>1, ReplayEffect
    <3>3. View[call.id] = None
      BY <1>2, <3>2 DEF Effect, Record
    <3>4. part[call.id] \in Partitions /\ name[call.id] \in Names
      BY <1>2, <1>4, ShapeGives DEF Fields, NameSet
    <3>5. QED
      BY <1>2, <1>4, <3>3, <3>4, ViewIs, NotNone
  <2>4. TraceInv(f)'
    BY <1>2, <1>3, <1>4, <2>2, <2>3, TraceCall DEF Return
  <2>5. ZeroInv'
    BY <1>2, <1>4, LogsGives, ZeroKept
  <2>6. QED
    BY <1>2, <2>4, <2>5
<1>5. CASE /\ name[call.id] = NoName /\ GoTo("index")
           /\ name' = [name EXCEPT ![call.id] = call.name]
           /\ part' = [part EXCEPT ![call.id] = call.part]
  <2>1. /\ name'[call.id] = call.name /\ part'[call.id] = call.part
        /\ \A j \in Ids : j # call.id => name'[j] = name[j] /\ part'[j] = part[j]
    BY <1>2, <1>5, ShapeGives DEF Fields
  <2>2. "index" \in StepsOf(call.op) /\ "index" \in Steps \ {"none"}
    BY <1>2, Words DEF StepsOf
  <2>3. call'.op = "create" /\ call'.id = call.id /\ call'.at = "index" /\ call'.part = call.part
        /\ cursor' = cursor
    BY <1>2, <1>5, <2>1, <2>2, GoesOn DEF GoTo
  <2>4. PICK i \in Ids : i = call.id
    BY <1>2
  <2>5. View[i] = None
    BY <1>5, <2>4, ViewIs
  <2>6. PICK w : w = IF name'[i] = NoName THEN None ELSE <<part'[i], name'[i]>>
    OBVIOUS
  <2>7. View' = [View EXCEPT ![i] = w]
    BY <2>1, <2>4, <2>6, ViewStep
  <2>8. View = [View' EXCEPT ![i] = None]
    BY <2>5, <2>7 DEF View
  <2>9. \A v : Before(v) => Before(v)'
    BY <1>2, <2>3, <2>4, <2>8 DEF Before
  <2>10. TraceInv(f)'
    BY <1>2, <1>3, <2>3, <2>9, TraceCall
  <2>11. ZeroInv'
    <3>1. SUFFICES ASSUME NEW j \in Ids, name'[j] # NoName, part'[j] # 0
                   PROVE  call'.id = j /\ call'.part = part'[j] /\ mode' = "serving"
      BY <2>3 DEF ZeroInv
    <3>2. CASE j = i
      BY <1>2, <2>1, <2>3, <2>4, <3>1, <3>2
    <3>3. CASE j # i
      BY <1>2, <2>1, <2>4, <3>1, <3>3, LogsGives DEF ZeroInv
    <3>4. QED
      BY <3>2, <3>3
  <2>12. QED
    BY <1>2, <2>10, <2>11
<1>6. QED
  BY <1>4, <1>5 DEF CreateRecord

(* What the record of a creation or a rename does. *)
LEMMA NewEffect ==
  ASSUME ShapeInv, IndexInv, Clean, mode \in {"replaying", "serving"}, call.op # "delete", call.at # "none",
         call.part = 0, Avail(slots, Key, call.id), \A j \in Ids : Making(j) => j = call.id
  PROVE  \A j \in Ids : View[j] = <<0, call.name>> => j = call.id
<1>1. Key = <<0, call.name>> /\ Key \in Keys /\ Key # None
  BY ShapeGives, Words DEF Key
<1>2. QED
  BY <1>1, AvailCarried

LEMMA LogsCreateIndex == ASSUME ShapeInv, IndexInv, LogsInv, CreateIndex PROVE LogsInv'
<1>1. SUFFICES ASSUME Orderly'
               PROVE  ZeroInv' /\ (mode' = "loading" /\ flaw' = {} => LoadedInv') /\ \E f : TraceInv(f)'
  BY LogsFrom
<1>2. /\ Orderly /\ Clean /\ call.op = "create" /\ call.at = "index" /\ mode' = mode /\ name' = name /\ part' = part
      /\ log' = log /\ saved' = saved /\ flaw' = flaw /\ call.id \in Ids /\ call.name \in Names
      /\ mode \in {"replaying", "serving"} /\ (mode = "replaying" => call.part = 0) /\ cursor' = cursor
      /\ name[call.id] = call.name /\ part[call.id] = call.part
  BY <1>1, ShapeGives DEF CreateIndex, Orderly, Clean, CallInv, GoTo
<1>3. PICK f : TraceInv(f)
  BY <1>2, LogsGives
<1>4. Fits(slots, name, part, Key)
  BY <1>2, AlwaysFits, ShapeGives, IndexGives
<1>5. GoTo("log")
  BY <1>4 DEF CreateIndex
<1>6. "log" \in StepsOf(call.op) /\ "log" \in Steps \ {"none"}
  BY <1>2, Words DEF StepsOf
<1>7. call'.op = "create" /\ call'.id = call.id /\ call'.part = call.part /\ call'.at = "log" /\ Record' = Record
  BY <1>2, <1>5, <1>6, GoesOn
<1>8. View' = View
  BY <1>2, ViewKept
<1>9. ASSUME NEW v, Before(v) PROVE Before(v)'
  <2>1. PICK i \in Ids, n \in Names : i = call.id /\ n = call.name
    BY <1>2
  <2>2. v = [View EXCEPT ![i] = None]
    BY <1>2, <1>9, <2>1 DEF Before
  <2>3. CASE call.part = 0
    <3>1. \A j \in Ids : View[j] = <<0, n>> => j = i
      BY <1>2, <2>1, <2>3, NewEffect, IndexGives DEF StepInv, Making
    <3>2. v[i] = None /\ \A j \in Ids : j # i => v[j] = View[j]
      BY <2>2 DEF View
    <3>3. <<0, n>> # None
      BY Sizes, NotNone
    <3>4. ~ Carried(v, n)
      BY <2>1, <3>1, <3>2, <3>3 DEF Carried
    <3>5. View[i] = <<0, n>>
      BY <1>2, <2>1, <2>3, ViewIs, Words
    <3>6. View = [v EXCEPT ![i] = <<0, n>>]
      BY <2>2, <3>5 DEF View
    <3>7. PICK w : w = View
      OBVIOUS
    <3>8. Effect(v, Record, w)
      BY <1>2, <2>1, <3>2, <3>4, <3>6, <3>7 DEF Effect, Record
    <3>9. QED
      BY <1>7, <1>8, <3>7, <3>8 DEF Before
  <2>4. CASE call.part # 0
    BY <1>7, <2>4 DEF Before
  <2>5. QED
    BY <2>3, <2>4
<1>10. TraceInv(f)'
  BY <1>2, <1>3, <1>7, <1>9, TraceCall
<1>11. ZeroInv'
  BY <1>2, <1>7, LogsGives, ZeroKept
<1>12. QED
  BY <1>2, <1>10, <1>11

LEMMA LogsCreateUndo == ASSUME ShapeInv, IndexInv, LogsInv, CreateUndo PROVE LogsInv'
<1>1. SUFFICES ASSUME Orderly'
               PROVE  ZeroInv' /\ (mode' = "loading" /\ flaw' = {} => LoadedInv') /\ \E f : TraceInv(f)'
  BY LogsFrom
<1>2. /\ Orderly /\ call.at = "undo" /\ mode' = mode /\ part' = part
      /\ log' = log /\ saved' = saved /\ flaw' = flaw /\ call.id \in Ids
      /\ name' = [name EXCEPT ![call.id] = NoName] /\ Return
  BY <1>1, ShapeGives DEF CreateUndo, Orderly
<1>3. mode \in {"replaying", "serving"}
  BY <1>2 DEF ShapeInv, CallInv, CallType, StepsOf
<1>4. PICK f : TraceInv(f)
  BY <1>2, LogsGives
<1>5. PICK i \in Ids : i = call.id
  BY <1>2
<1>6. name'[i] = NoName /\ \A j \in Ids : j # i => name'[j] = name[j] /\ part'[j] = part[j]
  BY <1>2, <1>5, ShapeGives DEF Fields
<1>7. PICK w : w = IF name'[i] = NoName THEN None ELSE <<part'[i], name'[i]>>
  OBVIOUS
<1>8. View' = [View EXCEPT ![i] = w] /\ w = None
  BY <1>6, <1>7, ViewStep
<1>9. call'.at = "none"
  BY <1>2, Words DEF Return
<1>10. \A v : Before(v) => Before(v)'
  BY <1>2, <1>5, <1>8, <1>9 DEF Before
<1>11. mode = "replaying" => flaw # {}
  BY <1>2, <1>4 DEF TraceInv
<1>12. TraceInv(f)'
  BY <1>2, <1>3, <1>4, <1>10, <1>11, TraceCall DEF Return
<1>13. ZeroInv'
  <2>1. \A j \in Ids : name'[j] # NoName => j # i /\ part'[j] = 0
    BY <1>2, <1>5, <1>6, LogsGives DEF ZeroInv
  <2>2. QED
    BY <2>1 DEF ZeroInv
<1>14. QED
  BY <1>3, <1>2, <1>12, <1>13

LEMMA LogsDelete == ASSUME ShapeInv, IndexInv, LogsInv, Delete PROVE LogsInv'
<1>1. SUFFICES ASSUME Orderly'
               PROVE  ZeroInv' /\ (mode' = "loading" /\ flaw' = {} => LoadedInv') /\ \E f : TraceInv(f)'
  BY LogsFrom
<1>2. /\ Orderly /\ call.op = "delete" /\ call.at = "lock" /\ mode' = mode /\ part' = part
      /\ log' = log /\ saved' = saved /\ flaw' = flaw /\ call.id \in Ids
      /\ mode \in {"replaying", "serving"} /\ (mode = "replaying" => call.part = 0)
  BY <1>1, ShapeGives DEF Delete, Orderly, CallInv
<1>3. PICK f : TraceInv(f)
  BY <1>2, LogsGives
<1>4. PICK i \in Ids : i = call.id
  BY <1>2
<1>5. CASE Return /\ (name[call.id] = NoName \/ part[call.id] # call.part) /\ UNCHANGED name
  <2>1. call'.at = "none" /\ View' = View
    BY <1>2, <1>5, ViewKept, Words DEF Return
  <2>2. \A v : Before(v) => Before(v)'
    BY <1>2, <2>1 DEF Before
  <2>3. mode = "replaying" => flaw # {}
    <3>1. SUFFICES ASSUME mode = "replaying", flaw = {} PROVE FALSE
      OBVIOUS
    <3>2. Effect(View, Record, f[cursor])
      BY <1>2, <1>3, <3>1, ReplayEffect
    <3>3. View[i] # None
      BY <1>2, <1>4, <3>2 DEF Effect, Record
    <3>4. name[i] # NoName
      BY <3>3, ViewIs
    <3>5. part[i] = 0
      BY <1>2, <3>4, ZeroPart, LogsGives
    <3>6. QED
      BY <1>2, <1>4, <1>5, <3>1, <3>4, <3>5
  <2>4. TraceInv(f)'
    BY <1>2, <1>3, <1>5, <2>2, <2>3, TraceCall DEF Return
  <2>5. ZeroInv'
    BY <1>2, <1>5, LogsGives, ZeroKept
  <2>6. QED
    BY <1>2, <2>4, <2>5
<1>6. CASE name[call.id] # NoName /\ name' = [name EXCEPT ![call.id] = NoName] /\ GoTo("log")
  <2>1. name'[i] = NoName /\ \A j \in Ids : j # i => name'[j] = name[j] /\ part'[j] = part[j]
    BY <1>2, <1>4, <1>6, ShapeGives DEF Fields
  <2>2. "log" \in StepsOf(call.op) /\ "log" \in Steps \ {"none"}
    BY <1>2, Words DEF StepsOf
  <2>3. /\ call'.op = "delete" /\ call'.id = call.id /\ call'.at = "log" /\ call'.part = call.part
        /\ cursor' = cursor /\ Record' = Record
    BY <1>2, <1>6, <2>2, GoesOn DEF GoTo
  <2>4. PICK w : w = IF name'[i] = NoName THEN None ELSE <<part'[i], name'[i]>>
    OBVIOUS
  <2>5. View' = [View EXCEPT ![i] = w] /\ w = None
    BY <2>1, <2>4, ViewStep
  <2>6. View[i] # None
    <3>1. part[i] \in Partitions /\ name[i] \in Names
      BY <1>4, <1>6, ShapeGives DEF Fields, NameSet
    <3>2. QED
      BY <1>4, <1>6, <3>1, ViewIs, NotNone
  <2>7. PICK u : u = View'
    OBVIOUS
  <2>8. Effect(View, Record, u)
    BY <1>2, <1>4, <2>5, <2>6, <2>7 DEF Effect, Record
  <2>9. \A v : Before(v) => Before(v)'
    BY <1>2, <2>3, <2>7, <2>8 DEF Before
  <2>10. TraceInv(f)'
    BY <1>2, <1>3, <2>3, <2>9, TraceCall
  <2>11. ZeroInv'
    BY <1>2, <2>1, LogsGives DEF ZeroInv
  <2>12. QED
    BY <1>2, <2>10, <2>11
<1>7. QED
  BY <1>5, <1>6 DEF Delete

LEMMA LogsRename == ASSUME ShapeInv, IndexInv, LogsInv, Rename PROVE LogsInv'
<1>1. SUFFICES ASSUME Orderly'
               PROVE  ZeroInv' /\ (mode' = "loading" /\ flaw' = {} => LoadedInv') /\ \E f : TraceInv(f)'
  BY LogsFrom
<1>2. /\ Orderly /\ Clean /\ call.op = "rename" /\ call.at = "lock" /\ mode' = mode /\ part' = part
      /\ log' = log /\ saved' = saved /\ flaw' = flaw /\ call.id \in Ids /\ call.name \in Names
      /\ mode \in {"replaying", "serving"} /\ (mode = "replaying" => call.part = 0)
  BY <1>1, ShapeGives DEF Rename, Orderly, Clean, CallInv
<1>3. PICK f : TraceInv(f)
  BY <1>2, LogsGives
<1>4. PICK i \in Ids, n \in Names : i = call.id /\ n = call.name
  BY <1>2
<1>7. Fits(slots, name, part, Key)
  BY <1>2, AlwaysFits, ShapeGives, IndexGives
<1>5. CASE Return /\ (name[i] \in {NoName, n} \/ part[i] # call.part) /\ UNCHANGED name
  <2>1. call'.at = "none" /\ View' = View
    BY <1>2, <1>5, ViewKept, Words DEF Return
  <2>2. \A v : Before(v) => Before(v)'
    BY <1>2, <2>1 DEF Before
  <2>3. mode = "replaying" => flaw # {}
    <3>1. SUFFICES ASSUME mode = "replaying", flaw = {} PROVE FALSE
      OBVIOUS
    <3>2. Effect(View, Record, f[cursor])
      BY <1>2, <1>3, <3>1, ReplayEffect
    <3>3. View[i] # None /\ ~ Carried(View, n)
      BY <1>2, <1>4, <3>2 DEF Effect, Record
    <3>4. name[i] # NoName
      BY <3>3, ViewIs
    <3>5. part[i] = 0
      BY <1>2, <3>4, ZeroPart, LogsGives
    <3>6. View[i] # <<0, n>>
      BY <3>3 DEF Carried
    <3>7. name[i] # n
      BY <3>4, <3>5, <3>6, ViewIs
    <3>8. QED
      BY <1>2, <1>4, <1>5, <3>1, <3>4, <3>5, <3>7
  <2>4. TraceInv(f)'
    BY <1>2, <1>3, <1>5, <2>2, <2>3, TraceCall DEF Return
  <2>5. ZeroInv'
    BY <1>2, <1>5, LogsGives, ZeroKept
  <2>6. QED
    BY <1>2, <2>4, <2>5
<1>6. CASE /\ name[i] \notin {NoName, n} /\ part[i] = call.part
           /\ name' = [name EXCEPT ![i] = n] /\ GoTo("log")
  <2>1. name'[i] = n /\ \A j \in Ids : j # i => name'[j] = name[j] /\ part'[j] = part[j]
    BY <1>2, <1>4, <1>6, ShapeGives DEF Fields
  <2>2. "log" \in StepsOf(call.op) /\ "log" \in Steps \ {"none"}
    BY <1>2, Words DEF StepsOf
  <2>3. /\ call'.op = "rename" /\ call'.id = call.id /\ call'.at = "log" /\ call'.part = call.part
        /\ cursor' = cursor /\ Record' = Record
    BY <1>2, <1>6, <2>2, GoesOn DEF GoTo
  <2>4. part[i] = 0 /\ call.part = 0
    BY <1>2, <1>6, ZeroPart, LogsGives
  <2>5. PICK w : w = IF name'[i] = NoName THEN None ELSE <<part'[i], name'[i]>>
    OBVIOUS
  <2>6. w = <<0, n>>
    BY <1>2, <2>1, <2>4, <2>5, Words
  <2>7. View' = [View EXCEPT ![i] = w]
    BY <2>1, <2>5, ViewStep
  <2>8. View[i] = <<0, name[i]>> /\ name[i] \in Names
    BY <1>6, <2>4, ViewIs, ShapeGives DEF Fields, NameSet
  <2>9. View[i] # None /\ View[i] # <<0, n>>
    BY <1>6, <2>8, Sizes, NotNone
  <2>10. ~ Carried(View, n)
    <3>1. \A j \in Ids : View[j] = <<0, call.name>> => j = call.id
      BY <1>2, <2>4, NewEffect, IndexGives DEF StepInv, Making
    <3>2. QED
      BY <1>4, <2>9, <3>1 DEF Carried
  <2>11. PICK u : u = View'
    OBVIOUS
  <2>12. Effect(View, Record, u)
    BY <1>2, <1>4, <2>6, <2>7, <2>9, <2>10, <2>11 DEF Effect, Record
  <2>13. \A v : Before(v) => Before(v)'
    BY <1>2, <2>3, <2>11, <2>12 DEF Before
  <2>14. TraceInv(f)'
    BY <1>2, <1>3, <2>3, <2>13, TraceCall
  <2>15. ZeroInv'
    BY <1>2, <2>1, <2>4, LogsGives DEF ZeroInv
  <2>16. QED
    BY <1>2, <2>14, <2>15
<1>8. QED
  BY <1>4, <1>5, <1>6, <1>7 DEF Rename

LEMMA LogsLockBusy == ASSUME ShapeInv, IndexInv, LogsInv, LockBusy PROVE LogsInv'
<1>1. SUFFICES ASSUME Orderly'
               PROVE  ZeroInv' /\ (mode' = "loading" /\ flaw' = {} => LoadedInv') /\ \E f : TraceInv(f)'
  BY LogsFrom
<1>2. /\ call.op # "load" /\ call.at \in {"lock", "index", "undo"} /\ mode' = mode /\ name' = name
      /\ part' = part /\ log' = log /\ saved' = saved
  BY DEF LockBusy, segment
<1>3. /\ mode \in {"replaying", "serving"} /\ call.op \in {"create", "rename", "delete"} /\ call.at \in StepsOf(call.op)
  BY <1>2 DEF ShapeInv, CallInv, CallType
<1>4. /\ Orderly /\ flaw' = flaw
      /\ call.at = "index" \/ call'.at = "none" => call.at # "undo" /\ mode # "replaying"
  BY <1>1 DEF LockBusy, Orderly
<1>5. PICK f : TraceInv(f)
  BY <1>4, LogsGives
<1>6. View' = View
  BY <1>2, ViewKept
<1>7. CASE call.at = "index"
  <2>1. call.op = "create" /\ GoTo("undo") /\ mode = "serving"
    BY <1>2, <1>3, <1>4, <1>7 DEF LockBusy, StepsOf
  <2>2. call'.op = call.op /\ call'.id = call.id /\ call'.at = "undo" /\ call'.part = call.part /\ cursor' = cursor
    BY <2>1 DEF GoTo, ShapeInv, CallInv, CallType
  <2>3. \A v : Before(v) => Before(v)'
    BY <1>6, <1>7, <2>2 DEF Before
  <2>4. TraceInv(f)'
    BY <1>2, <1>3, <1>4, <1>5, <2>1, <2>2, <2>3, TraceCall
  <2>5. ZeroInv'
    BY <1>2, <1>4, <2>2, LogsGives, ZeroKept
  <2>6. QED
    BY <1>2, <1>3, <2>4, <2>5
<1>8. CASE Return /\ call.at # "index"
  <2>1. call'.at = "none"
    BY <1>8, Words DEF Return
  <2>2. call.at = "lock" /\ mode = "serving"
    BY <1>2, <1>3, <1>4, <1>8, <2>1
  <2>3. \A v : Before(v) => Before(v)'
    BY <1>6, <2>1, <2>2 DEF Before
  <2>4. TraceInv(f)'
    BY <1>2, <1>4, <1>5, <1>8, <2>2, <2>3, TraceCall DEF Return
  <2>5. ZeroInv'
    BY <1>2, <1>4, <2>2, LogsGives, ZeroKept
  <2>6. QED
    BY <1>2, <2>2, <2>4, <2>5
<1>9. CASE call.at # "index" /\ ~ Return
  <2>1. call' = [call EXCEPT !.tries = @ + 1] /\ cursor' = cursor
    BY <1>9 DEF LockBusy
  <2>2. /\ call'.op = call.op /\ call'.at = call.at /\ call'.id = call.id
        /\ call'.name = call.name /\ call'.part = call.part
    BY <2>1 DEF ShapeInv, CallInv, CallType
  <2>3. \A v : Before(v) => Before(v)'
    BY <1>2, <1>6, <2>2 DEF Before
  <2>4. mode = "replaying" /\ flaw = {} => call'.at # "undo"
    BY <1>5, <2>2 DEF TraceInv
  <2>5. TraceInv(f)'
    BY <1>2, <1>3, <1>4, <1>5, <2>1, <2>3, <2>4, TraceCall
  <2>6. ZeroInv'
    BY <1>2, <1>4, <2>2, LogsGives, ZeroKept
  <2>7. QED
    BY <1>2, <1>3, <2>5, <2>6
<1>10. QED
  BY <1>7, <1>8, <1>9

LEMMA LogsDeltaLog == ASSUME ShapeInv, IndexInv, LogsInv, DeltaLog PROVE LogsInv'
<1>1. SUFFICES ASSUME Orderly'
               PROVE  ZeroInv' /\ (mode' = "loading" /\ flaw' = {} => LoadedInv') /\ \E f : TraceInv(f)'
  BY LogsFrom
<1>2. /\ call.at = "log" /\ Return /\ mode' = mode /\ name' = name /\ part' = part /\ saved' = saved
      /\ mode \in {"replaying", "serving"} /\ call' = NoCall /\ call'.at = "none"
      /\ (mode = "replaying" => call.part = 0)
  BY AtLog, Words DEF DeltaLog, segment, Return, ShapeInv, CallInv
<1>3. \/ mode = "replaying" /\ log' = log /\ flaw' = flaw
      \/ mode = "serving" /\ log' = Append(log, Record) /\ flaw' = flaw
         /\ ~ (call.part # 0 /\ call.op = "create")
  BY <1>1, <1>2 DEF DeltaLog, Orderly, Logs
<1>4. Orderly
  BY <1>1, <1>3 DEF Orderly
<1>5. PICK f : TraceInv(f)
  BY <1>4, LogsGives
<1>6. View' = View
  BY <1>2, ViewKept
<1>7. ZeroInv'
  BY <1>2, <1>3, <1>4, LogsGives DEF ZeroInv
<1>8. CASE mode = "replaying" /\ log' = log /\ flaw' = flaw
  <2>1. Trace(f, log) /\ saved' = f[Len(log)]
    BY <1>2, <1>5, <1>8 DEF TraceInv
  <2>2. mode' = "replaying" /\ flaw' = {} => (\E v : v = f[cursor' - 1] /\ Before(v)') /\ call'.at # "undo"
    <3>1. SUFFICES ASSUME flaw = {} PROVE \E v : v = f[cursor' - 1] /\ Before(v)'
      BY <1>2, <1>8
    <3>2. cursor \in DOMAIN log /\ (log[cursor].whole => log[cursor] = Record)
      BY <1>2, <1>8 DEF ShapeInv, CallInv
    <3>3. cursor \in 1 .. Len(log)
      BY <3>2, LogIs DEF ShapeInv
    <3>4. PICK a, b : a = f[cursor - 1] /\ b = f[cursor]
      OBVIOUS
    <3>5. Effect(a, Record, b)
      BY <2>1, <3>2, <3>3, <3>4 DEF Trace
    <3>6. Before(a)
      BY <1>5, <1>8, <3>1, <3>4 DEF TraceInv
    <3>7. Effect(a, Record, View)
      BY <1>2, <1>8, <3>6 DEF Before
    <3>8. b = View
      BY <3>5, <3>7 DEF Effect
    <3>9. cursor' - 1 = cursor
      BY <1>2, <1>8, <3>3, LogIs DEF Return, ShapeInv
    <3>10. Before(b)'
      BY <1>2, <1>6, <3>8 DEF Before
    <3>11. QED
      BY <3>4, <3>9, <3>10
  <2>3. TraceInv(f)'
    BY <1>2, <1>8, <2>1, <2>2, TraceKept
  <2>4. QED
    BY <1>2, <1>7, <2>3
<1>9. CASE mode = "serving" /\ log' = Append(log, Record) /\ flaw' = flaw
           /\ ~ (call.part # 0 /\ call.op = "create")
  <2>1. PICK n : n = Len(log)
    OBVIOUS
  <2>2. PICK S : S = Logged
    OBVIOUS
  <2>3. log \in Seq(S) /\ n \in Nat /\ Record \in S
    BY <1>2, <2>1, <2>2, AtLog, RecordIs, LogIs DEF ShapeInv, LogInv
  <2>4. Len(log') = n + 1 /\ log'[n + 1] = Record /\ \A j \in 1 .. n : log'[j] = log[j]
    BY <1>9, <2>1, <2>3
  <2>5. Effect(f[n], Record, View)
    BY <1>2, <1>5, <1>9, <2>1 DEF TraceInv, Before
  <2>6. PICK g : g = [j \in 0 .. n + 1 |-> IF j = n + 1 THEN View ELSE f[j]]
    OBVIOUS
  <2>7. g[n + 1] = View /\ \A j \in 0 .. n : g[j] = f[j]
    BY <2>3, <2>6
  <2>8. Trace(g, log')
    <3>1. f[0] = BaseView /\ \A j \in 1 .. n : log[j].whole /\ Effect(f[j - 1], log[j], f[j])
      BY <1>5, <2>1 DEF TraceInv, Trace
    <3>2. g[0] = BaseView
      BY <2>3, <2>7, <3>1
    <3>3. ASSUME NEW j \in 1 .. n + 1 PROVE log'[j].whole /\ Effect(g[j - 1], log'[j], g[j])
      <4>1. CASE j = n + 1
        <5>1. j - 1 = n /\ n \in 0 .. n
          BY <2>3, <4>1
        <5>2. g[j - 1] = f[n] /\ g[j] = View /\ log'[j] = Record /\ Record.whole
          BY <2>4, <2>7, <4>1, <5>1 DEF Record
        <5>3. QED
          BY <2>5, <5>2
      <4>2. CASE j # n + 1
        <5>1. j \in 1 .. n /\ j - 1 \in 0 .. n /\ j \in 0 .. n
          BY <2>3, <3>3, <4>2
        <5>2. g[j - 1] = f[j - 1] /\ g[j] = f[j] /\ log'[j] = log[j]
          BY <2>4, <2>7, <5>1
        <5>3. log[j].whole /\ Effect(f[j - 1], log[j], f[j])
          BY <3>1, <5>1
        <5>4. QED
          BY <5>2, <5>3
      <4>3. QED
        BY <4>1, <4>2
    <3>4. QED
      BY <2>4, <3>2, <3>3 DEF Trace
  <2>10. \E v : v = View /\ Before(v)'
    BY <1>2, <1>6 DEF Before
  <2>11. PICK v : v = View /\ Before(v)'
    BY <2>10
  <2>12. g[Len(log')] = v
    BY <2>4, <2>7, <2>11
  <2>13. Before(g[Len(log)])'
    BY <2>11, <2>12 DEF Before
  <2>14. TraceInv(g)'
    BY <1>2, <1>9, <2>8, <2>13 DEF TraceInv, Trace
  <2>15. QED
    BY <1>2, <1>7, <1>9, <2>14
<1>10. QED
  BY <1>3, <1>8, <1>9

(* Between two lives, and while the base configuration is loaded. *)
LEMMA LogsAway ==
  ASSUME LogsInv, Orderly, mode # "serving", mode' # "serving", log' = log, saved' = saved, flaw' = flaw,
         mode' # "replaying"
  PROVE  \E f : TraceInv(f)'
<1>1. PICK f : TraceInv(f)
  BY LogsGives
<1>2. TraceInv(f)'
  BY <1>1 DEF TraceInv, Trace
<1>3. QED
  BY <1>2

LEMMA LogsLoadNext == ASSUME ShapeInv, LogsInv, LoadNext PROVE LogsInv'
<1>1. SUFFICES ASSUME Orderly'
               PROVE  ZeroInv' /\ (mode' = "loading" /\ flaw' = {} => LoadedInv') /\ \E f : TraceInv(f)'
  BY LogsFrom
<1>2. /\ mode \in {"loading", "failing"} /\ call = NoCall /\ name' = name /\ part' = part /\ log' = log
      /\ saved' = saved /\ flaw' = flaw /\ Orderly
  BY <1>1 DEF LoadNext, segment, Orderly
<1>3. cursor \in 1 .. Len(Base) + 1
  BY <1>2 DEF ShapeInv, PlaceInv
<1>4. ZeroInv'
  BY <1>2, LogsGives DEF ZeroInv
<1>5. CASE cursor <= Len(Base)
  <2>1. mode' = mode /\ cursor' = cursor
    BY <1>3, <1>5, BaseIs DEF LoadNext
  <2>2. mode' = "loading" /\ flaw' = {} => LoadedInv'
    BY <1>2, <2>1, LogsGives DEF LoadedInv
  <2>3. QED
    BY <1>2, <1>4, <2>1, <2>2, LogsAway
<1>6. CASE cursor > Len(Base)
  <2>1. mode' = (IF mode = "loading" THEN "replaying" ELSE "refused") /\ cursor' = 1 /\ call' = NoCall
    BY <1>2, <1>3, <1>6, BaseIs DEF LoadNext
  <2>2. PICK f : TraceInv(f)
    BY <1>2, LogsGives
  <2>3. Trace(f, log) /\ saved' = f[Len(log)]
    BY <1>2, <2>2 DEF TraceInv
  <2>4. mode' = "replaying" /\ flaw' = {} => (\E v : v = f[cursor' - 1] /\ Before(v)') /\ call'.at # "undo"
    <3>1. SUFFICES ASSUME mode = "loading", flaw = {} PROVE (\E v : v = f[cursor' - 1] /\ Before(v)') /\ call'.at # "undo"
      BY <1>2, <2>1
    <3>2. LoadedInv
      BY <1>2, <3>1, LogsGives
    <3>3. \A j \in DOMAIN Base : j < cursor
      BY <1>3, <1>6, BaseIs
    <3>4. ASSUME NEW i \in Ids PROVE View[i] = BaseView[i]
      <4>1. CASE \E j \in DOMAIN Base : Base[j].id = i
        <5>1. PICK j : j = CHOOSE m \in DOMAIN Base : Base[m].id = i
          OBVIOUS
        <5>2. j \in DOMAIN Base /\ Base[j].id = i
          BY <4>1, <5>1
        <5>3. name[i] = Base[j].name /\ name[i] # NoName
          BY <3>2, <3>3, <5>2, BaseIs, Words DEF LoadedInv
        <5>4. part[i] = 0
          BY <1>2, <5>3, LogsGives DEF ZeroInv
        <5>5. BaseView[i] = <<0, Base[j].name>>
          BY <4>1, <5>1 DEF BaseView
        <5>6. QED
          BY <5>3, <5>4, <5>5, ViewIs
      <4>2. CASE ~ \E j \in DOMAIN Base : Base[j].id = i
        <5>1. name[i] = NoName
          BY <3>2, <4>2 DEF LoadedInv
        <5>2. QED
          BY <4>2, <5>1, ViewIs DEF BaseView
      <4>3. QED
        BY <4>1, <4>2
    <3>5. View = BaseView
      BY <3>4 DEF View, BaseView
    <3>6. View' = View /\ call'.at = "none"
      BY <1>2, <2>1, ViewKept, Words
    <3>7. PICK v : v = f[0]
      OBVIOUS
    <3>8. v = View
      BY <2>3, <3>5, <3>7 DEF Trace
    <3>9. Before(v)'
      BY <3>6, <3>8 DEF Before
    <3>10. QED
      BY <2>1, <3>6, <3>7, <3>9
  <2>5. mode' # "serving" /\ mode' # "loading"
    BY <2>1
  <2>6. TraceInv(f)'
    BY <1>2, <2>3, <2>4, <2>5, TraceKept
  <2>7. QED
    BY <1>4, <2>5, <2>6
<1>7. QED
  BY <1>3, <1>5, <1>6, BaseIs

LEMMA LogsLoadRecord == ASSUME ShapeInv, LogsInv, LoadRecord PROVE LogsInv'
<1>1. SUFFICES ASSUME Orderly'
               PROVE  ZeroInv' /\ (mode' = "loading" /\ flaw' = {} => LoadedInv') /\ \E f : TraceInv(f)'
  BY LogsFrom
<1>2. /\ mode \in {"loading", "failing"} /\ mode' = mode /\ log' = log /\ saved' = saved /\ cursor' = cursor
      /\ call.id \in Ids /\ call.name \in Names /\ call.part = 0 /\ cursor \in DOMAIN Base
      /\ Base[cursor].id = call.id /\ call.at = "lock" /\ call.op = "load"
  BY ShapeGives DEF LoadRecord, CallInv
<1>3. /\ Orderly /\ flaw' = flaw
      /\ name[call.id] = NoName \/ <<part[call.id], name[call.id]>> = Key
  BY <1>1 DEF LoadRecord, Orderly
<1>4. /\ name'[call.id] = call.name /\ part'[call.id] = 0
      /\ \A j \in Ids : j # call.id => name'[j] = name[j] /\ part'[j] = part[j]
  BY <1>2, ShapeGives DEF LoadRecord, Fields
<1>5. ZeroInv'
  BY <1>2, <1>3, <1>4, LogsGives DEF ZeroInv
<1>6. name[call.id] # NoName => name[call.id] = call.name
  BY <1>3 DEF Key
<1>7. mode' = "loading" /\ flaw' = {} => LoadedInv'
  <2>1. SUFFICES ASSUME mode = "loading", flaw = {} PROVE LoadedInv'
    BY <1>2, <1>3
  <2>2. LoadedInv
    BY <1>3, <2>1, LogsGives
  <2>3. \A i \in Ids : name'[i] # NoName => \E j \in DOMAIN Base : Base[j].id = i
    BY <1>2, <1>4, <2>2 DEF LoadedInv
  <2>4. ASSUME NEW j \in DOMAIN Base, j < cursor PROVE name'[Base[j].id] = Base[j].name
    <3>1. name[Base[j].id] = Base[j].name /\ Base[j].id \in Ids /\ Base[j].name # NoName
      BY <2>2, <2>4, BaseIs, Words DEF LoadedInv
    <3>2. QED
      BY <1>4, <1>6, <3>1
  <2>5. QED
    BY <1>2, <2>3, <2>4 DEF LoadedInv
<1>8. QED
  BY <1>2, <1>3, <1>5, <1>7, LogsAway

LEMMA LogsLoadIndex == ASSUME ShapeInv, LogsInv, LoadIndex PROVE LogsInv'
<1>1. SUFFICES ASSUME Orderly'
               PROVE  ZeroInv' /\ (mode' = "loading" /\ flaw' = {} => LoadedInv') /\ \E f : TraceInv(f)'
  BY LogsFrom
<1>2. /\ mode \in {"loading", "failing"} /\ log' = log /\ saved' = saved /\ flaw' = flaw /\ Orderly
      /\ name' = name /\ part' = part /\ cursor \in DOMAIN Base /\ Base[cursor].id = call.id
      /\ Base[cursor].name = call.name /\ name[call.id] = call.name
  BY <1>1 DEF LoadIndex, Orderly, ShapeInv, CallInv
<1>3. ZeroInv'
  BY <1>2, LogsGives DEF ZeroInv
<1>4. (mode' = mode /\ cursor' = cursor + 1) \/ mode' = "refused"
  BY <1>2 DEF LoadIndex, Return
<1>5. mode' = "loading" /\ flaw' = {} => LoadedInv'
  <2>1. SUFFICES ASSUME mode = "loading", flaw = {}, cursor' = cursor + 1 PROVE LoadedInv'
    BY <1>2, <1>4
  <2>2. LoadedInv
    BY <1>2, <2>1, LogsGives
  <2>3. \A j \in DOMAIN Base : j < cursor + 1 => j < cursor \/ j = cursor
    BY <1>2, BaseIs
  <2>4. QED
    BY <1>2, <2>1, <2>2, <2>3 DEF LoadedInv
<1>6. QED
  BY <1>2, <1>3, <1>4, <1>5, LogsAway

LEMMA LogsLoadBusy == ASSUME ShapeInv, LogsInv, LoadBusy PROVE LogsInv'
<1>1. SUFFICES ASSUME Orderly'
               PROVE  ZeroInv' /\ (mode' = "loading" /\ flaw' = {} => LoadedInv') /\ \E f : TraceInv(f)'
  BY LogsFrom
<1>2. /\ mode \in {"loading", "failing"} /\ log' = log /\ saved' = saved /\ flaw' = flaw /\ Orderly
      /\ name' = name /\ part' = part /\ ((mode' = mode /\ cursor' = cursor) \/ mode' = "failing")
  BY <1>1 DEF LoadBusy, Orderly, ShapeInv, CallInv, segment
<1>3. ZeroInv'
  BY <1>2, LogsGives DEF ZeroInv
<1>4. mode' = "loading" /\ flaw' = {} => LoadedInv'
  BY <1>2, LogsGives DEF LoadedInv
<1>5. QED
  BY <1>2, <1>3, <1>4, LogsAway

(* The end of a replay: every record was applied. *)
LEMMA ReplayEnds ==
  ASSUME ShapeInv, LogsInv, ReplayNext, mode' = "serving", flaw = {}
  PROVE  View = saved
<1>1. mode = "replaying" /\ call = NoCall /\ Orderly /\ call.at = "none"
  BY Words DEF ReplayNext, Orderly
<1>2. PICK f : TraceInv(f)
  BY <1>1, LogsGives
<1>3. cursor \in 1 .. Len(log) + 1
  BY <1>1 DEF ShapeInv, PlaceInv
<1>4. \A j \in 1 .. Len(log) : log[j].whole
  BY <1>2 DEF TraceInv, Trace
<1>5. ~ (cursor <= Len(log))
  <2>1. SUFFICES ASSUME cursor <= Len(log) PROVE FALSE
    OBVIOUS
  <2>2. cursor \in DOMAIN log /\ DOMAIN log = 1 .. Len(log)
    BY <1>3, <2>1, LogIs DEF ShapeInv
  <2>3. Read(cursor)
    BY <1>4, <2>2 DEF Read
  <2>4. ~ Merged(cursor)
    BY <1>4, <2>2 DEF Merged
  <2>5. QED
    BY <1>1, <2>3, <2>4 DEF ReplayNext, Apply
<1>6. cursor - 1 = Len(log)
  BY <1>3, <1>5, LogIs DEF ShapeInv
<1>7. f[cursor - 1] = View
  BY <1>1, <1>2 DEF TraceInv, Before
<1>8. saved = f[Len(log)]
  BY <1>1, <1>2 DEF TraceInv
<1>9. QED
  BY <1>6, <1>7, <1>8

LEMMA LogsReplayNext == ASSUME ShapeInv, LogsInv, ReplayNext PROVE LogsInv'
<1>1. SUFFICES ASSUME Orderly'
               PROVE  ZeroInv' /\ (mode' = "loading" /\ flaw' = {} => LoadedInv') /\ \E f : TraceInv(f)'
  BY LogsFrom
<1>2. /\ mode = "replaying" /\ call = NoCall /\ name' = name /\ part' = part /\ log' = log
      /\ saved' = saved /\ Orderly /\ call.at = "none"
  <2>1. [Next]_vars
    BY DEF Next
  <2>2. Orderly
    BY <1>1, <2>1, OrderlyBack
  <2>3. QED
    BY <2>2, Words DEF ReplayNext, Apply, ReplayEnd, segment
<1>3. PICK f : TraceInv(f)
  BY <1>2, LogsGives
<1>4. Trace(f, log) /\ saved = f[Len(log)]
  BY <1>2, <1>3 DEF TraceInv
<1>5. View' = View
  BY <1>2, ViewKept
<1>6. \A i \in Ids : name'[i] # NoName => part'[i] = 0
  BY <1>2, LogsGives DEF ZeroInv
<1>7. ZeroInv'
  BY <1>6 DEF ZeroInv
<1>8. CASE mode' = mode /\ cursor' = cursor /\ flaw' = flaw /\ call'.at \in {"check", "lock"}
  <2>1. \A v : Before(v) => Before(v)'
    BY <1>2, <1>5, <1>8 DEF Before
  <2>2. TraceInv(f)'
    BY <1>2, <1>3, <1>8, <2>1, TraceCall
  <2>3. QED
    BY <1>2, <1>7, <1>8, <2>2
<1>9. CASE mode' = "serving" /\ call' = call
  <2>1. View = saved
    BY <1>1, <1>2, <1>9 DEF ReplayNext, Apply, ReplayEnd, Orderly
  <2>2. PICK v : v = f[Len(log)]
    OBVIOUS
  <2>3. Before(v)'
    BY <1>2, <1>4, <1>5, <1>9, <2>1, <2>2 DEF Before
  <2>4. TraceInv(f)'
    BY <1>2, <1>4, <1>9, <2>2, <2>3, TraceKept
  <2>5. QED
    BY <1>7, <1>9, <2>4
<1>10. QED
  BY <1>2, <1>8, <1>9 DEF ReplayNext, Apply, ReplayEnd, Call

LEMMA LogsStop == ASSUME ShapeInv, LogsInv, Stop PROVE LogsInv'
<1>1. SUFFICES ASSUME Orderly'
               PROVE  ZeroInv' /\ (mode' = "loading" /\ flaw' = {} => LoadedInv') /\ \E f : TraceInv(f)'
  BY LogsFrom
<1>2. /\ mode = "serving" /\ call = NoCall /\ mode' = "stopped" /\ saved' = View /\ log' = log /\ Orderly
      /\ call.at = "none" /\ \A i \in Ids : name'[i] = NoName
  BY <1>1, Words DEF Stop, Orderly
<1>3. PICK f : TraceInv(f)
  BY <1>2, LogsGives
<1>4. Trace(f, log) /\ f[Len(log)] = View
  BY <1>2, <1>3 DEF TraceInv, Before
<1>5. TraceInv(f)'
  BY <1>2, <1>4, TraceKept
<1>6. ZeroInv'
  BY <1>2 DEF ZeroInv
<1>7. QED
  BY <1>2, <1>5, <1>6

LEMMA LogsCrash == ASSUME ShapeInv, LogsInv, Crash PROVE LogsInv'
<1>1. SUFFICES ASSUME Orderly'
               PROVE  ZeroInv' /\ (mode' = "loading" /\ flaw' = {} => LoadedInv') /\ \E f : TraceInv(f)'
  BY LogsFrom
<1>2. /\ mode' = "crashed" /\ log' = log /\ name' = name /\ part' = part /\ Orderly
      /\ saved' = IF mode = "serving" THEN View ELSE saved
  BY <1>1 DEF Crash, Orderly, segment
<1>3. /\ ~ (call.op = "create" /\ call.at \in {"index", "undo"})
      /\ ~ (call.at = "log" /\ mode = "serving")
  BY <1>1 DEF Crash, Orderly, Logs
<1>4. PICK f : TraceInv(f)
  BY <1>2, LogsGives
<1>5. mode = "serving" => call.at \in {"none", "check", "lock"}
  BY <1>3 DEF ShapeInv, CallInv, CallType, StepsOf
<1>6. Trace(f, log) /\ saved' = f[Len(log)]
  BY <1>2, <1>4, <1>5 DEF TraceInv, Before
<1>7. TraceInv(f)'
  BY <1>2, <1>6, TraceKept
<1>8. \A i \in Ids : name'[i] # NoName => part'[i] = 0
  BY <1>2, <1>3, LogsGives DEF ZeroInv
<1>9. ZeroInv'
  BY <1>8 DEF ZeroInv
<1>10. QED
  BY <1>2, <1>7, <1>9

LEMMA LogsStart == ASSUME ShapeInv, LogsInv, Start PROVE LogsInv'
<1>1. SUFFICES ASSUME Orderly'
               PROVE  ZeroInv' /\ (mode' = "loading" /\ flaw' = {} => LoadedInv') /\ \E f : TraceInv(f)'
  BY LogsFrom
<1>2. /\ mode \in {"stopped", "crashed"} /\ mode' = "loading" /\ cursor' = 1 /\ log' = log /\ name' = name
      /\ part' = part /\ saved' = saved /\ flaw' = flaw /\ Orderly
  BY <1>1 DEF Start, Orderly, segment
<1>3. ZeroInv'
  BY <1>2, LogsGives DEF ZeroInv
<1>4. flaw = {} => \A i \in Ids : name'[i] = NoName
  BY <1>2 DEF ShapeInv, PlaceInv, Fresh
<1>5. flaw' = {} => LoadedInv'
  BY <1>2, <1>4, BaseIs DEF LoadedInv
<1>6. QED
  BY <1>2, <1>3, <1>5, LogsAway

LEMMA LogsInit == ASSUME Init PROVE LogsInv
<1>1. ZeroInv /\ LoadedInv
  BY BaseIs DEF Init, Fresh, ZeroInv, LoadedInv
<1>2. PICK f : f = [j \in {0} |-> BaseView]
  OBVIOUS
<1>3. f[0] = BaseView /\ Len(log) = 0 /\ saved = BaseView /\ mode = "loading"
  BY <1>2 DEF Init
<1>4. TraceInv(f)
  BY <1>3 DEF TraceInv, Trace
<1>5. QED
  BY <1>1, <1>4 DEF LogsInv

LEMMA LogsNext == ASSUME ShapeInv, IndexInv, LogsInv, [Next]_vars PROVE LogsInv'
<1>1. CASE UNCHANGED vars
  <2>1. /\ call' = call /\ log' = log /\ mode' = mode /\ cursor' = cursor /\ name' = name /\ part' = part
        /\ saved' = saved /\ flaw' = flaw
    BY <1>1 DEF vars, segment
  <2>2. View' = View /\ Record' = Record
    BY <2>1, ViewKept DEF Record
  <2>3. SUFFICES ASSUME Orderly'
                 PROVE  ZeroInv' /\ (mode' = "loading" /\ flaw' = {} => LoadedInv') /\ \E f : TraceInv(f)'
    BY LogsFrom
  <2>4. Orderly
    BY <2>1, <2>3 DEF Orderly
  <2>5. PICK f : TraceInv(f)
    BY <2>4, LogsGives
  <2>6. TraceInv(f)'
    BY <2>1, <2>2, <2>5 DEF TraceInv, Trace, Before
  <2>7. QED
    BY <2>1, <2>4, <2>6, LogsGives DEF ZeroInv, LoadedInv
<1>2. CASE Next
  BY <1>2, LogsRequest, LogsCheck, LogsCreateRecord, LogsCreateIndex, LogsCreateUndo, LogsDelete,
     LogsRename, LogsLockBusy, LogsDeltaLog, LogsLoadNext, LogsLoadRecord, LogsLoadIndex,
     LogsLoadBusy, LogsReplayNext, LogsStop, LogsCrash, LogsStart DEF Next
<1>3. QED
  BY <1>1, <1>2

LEMMA RegistryHolds == Spec => []RegistryInv
<1>1. Init => RegistryInv
  BY ShapeInit, IndexInit, LogsInit DEF RegistryInv
<1>2. RegistryInv /\ [Next]_vars => RegistryInv'
  BY ShapeNext, IndexNext, LogsNext DEF RegistryInv
<1>3. QED
  BY <1>1, <1>2, PTL DEF Spec

\* rtdbd finds its registry again: the base configuration with the delta log over
\* it (indurtdb_h_load_config, indurtdb_h_delta_replay) is the registry that the
\* process left in an orderly stop, after any number of creations, deletions and
\* renames, failed ones among them, and of earlier lives.
THEOREM RestartCorrect == Spec => RestartRestores
<1>1. RegistryInv /\ [Next]_vars =>
        [mode = "replaying" /\ mode' = "serving" /\ flaw = {} => View = saved]_vars
  <2>1. SUFFICES ASSUME RegistryInv, Next, mode = "replaying", mode' = "serving", flaw = {}
                 PROVE  View = saved
    OBVIOUS
  <2>2. ReplayNext
    BY <2>1 DEF Next, Request, Check, CheckBusy, CreateRecord, CreateIndex, CreateUndo, Delete, Rename,
       LockBusy, DeltaLog, LoadNext, LoadRecord, LoadIndex, LoadBusy, Stop, Crash, Start,
       RegistryInv, ShapeInv, CallInv
  <2>3. QED
    BY <2>1, <2>2, ReplayEnds DEF RegistryInv
<1>2. QED
  BY <1>1, RegistryHolds, PTL DEF Spec, RestartRestores

=============================================================================
