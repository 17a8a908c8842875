--------------------------- MODULE HashMapProofs ---------------------------
(***************************************************************************)
(* What holds of the hash map for every capacity, every set of keys and    *)
(* values, every hash function and every sequence of calls.                *)
(***************************************************************************)
EXTENDS HashMap, ProofLemmas, FiniteSetTheorems, FunctionTheorems, TLAPS

(* The home bucket and the next bucket are in the array. *)
LEMMA IndexInSlots ==
  /\ \A h \in Nat : Home(h) \in Slots
  /\ \A i \in Nat : NextSlot(i) \in Slots
  /\ \A d \in Nat : Bump(d) \in 0 .. (DibMod - 1)
BY ModInRange, CapAssumption, WidthAssumption DEF Home, NextSlot, Slots, Bump

(* The nodes the code makes are nodes. *)
LEMMA NodesAreNodes ==
  /\ ZeroNode \in Node
  /\ \A k \in Keys, v \in Vals : NewNode(k, v) \in Node
  /\ Hashes \subseteq Nat
BY HashAssumption, WidthAssumption DEF ZeroNode, NewNode, Node, Hashes

LEMMA NodeNumbers == \A n \in Node : n.hash \in Nat /\ n.dib \in Nat
<1> SUFFICES ASSUME NEW n \in Node PROVE n.hash \in Nat /\ n.dib \in Nat
  OBVIOUS
<1>1. n.hash \in Hashes /\ n.dib \in 0 .. (DibMod - 1)
  BY DEF Node
<1>2. 0 .. (DibMod - 1) \subseteq Nat
  OBVIOUS
<1> QED BY <1>1, <1>2, NodesAreNodes

(* The empty map is well typed. *)
LEMMA TypeInit ==
  ASSUME Init
  PROVE  TypeOK
<1>1. 0 \in Slots /\ 0 \in 0 .. (DibMod - 1) /\ 0 \in 0 .. (SizeMod - 1)
  BY CapAssumption, WidthAssumption DEF Slots
<1> QED BY <1>1, NodesAreNodes DEF Init, TypeOK

(* A call that begins starts at the home bucket of its key. *)
LEMMA BeginTyped ==
  ASSUME TypeOK, NEW k \in Keys, NEW fn \in {"insert", "get", "delete"},
         NEW v \in Vals \cup {NoVal}, NEW n \in Node, fn = "insert" => v \in Vals,
         Begin(fn, k, v, n)
  PROVE  TypeOK'
<1>1. bucket_idx' \in Slots
  BY IndexInSlots, HashAssumption DEF Begin
<1>2. 0 \in 0 .. (DibMod - 1)
  BY WidthAssumption
<1> QED BY <1>1, <1>2 DEF Begin, TypeOK

(* A call that returns leaves its locals as Init has them. *)
LEMMA ReturnTyped ==
  ASSUME TypeOK, pc # "idle", NEW out \in Vals \cup {NoVal, "ok", "fail"}, Return(out),
         buckets' \in [Slots -> Node], count' \in 0 .. (SizeMod - 1)
  PROVE  TypeOK'
<1>1. dict' \in [Keys -> Vals \cup {NoVal}]
  <2>1. CASE pc = "insert" BY <2>1 DEF Return, TypeOK
  <2>2. CASE pc = "delete" BY <2>2 DEF Return, TypeOK
  <2>3. CASE pc = "get"    BY <2>3 DEF Return, TypeOK
  <2> QED BY <2>1, <2>2, <2>3 DEF TypeOK
<1>2. 0 \in Slots /\ 0 \in 0 .. (DibMod - 1)
  BY CapAssumption, WidthAssumption DEF Slots
<1>3. ret' \in [fn : {"none", "insert", "get", "delete"}, key : Keys \cup {NoKey},
                out : Vals \cup {NoVal, "ok", "fail"}]
  BY DEF Return, TypeOK
<1>4. cur' \in Node
  BY NodesAreNodes DEF Return
<1> QED BY <1>1, <1>2, <1>3, <1>4 DEF Return, TypeOK

(* Every variable keeps its type: probing never leaves the array. *)
THEOREM TypeCorrect == Spec => []TypeOK
<1>1. Init => TypeOK
  BY TypeInit
<1>2. TypeOK /\ [Next]_vars => TypeOK'
  <2> SUFFICES ASSUME TypeOK, [Next]_vars PROVE TypeOK'
    OBVIOUS
  <2> USE DEF Missing, IsEmpty
  <2>1. ASSUME NEW k \in Keys, NEW v \in Vals, CallInsert(k, v) PROVE TypeOK'
    BY <2>1, BeginTyped, NodesAreNodes DEF CallInsert
  <2>2. ASSUME NEW k \in Keys, CallGet(k) PROVE TypeOK'
    BY <2>2, BeginTyped, NodesAreNodes DEF CallGet
  <2>3. ASSUME NEW k \in Keys, CallDelete(k) PROVE TypeOK'
    BY <2>3, BeginTyped, NodesAreNodes DEF CallDelete
  <2>4. CASE InsertPlace
    <3>1. buckets' \in [Slots -> Node]
      BY <2>4 DEF InsertPlace, TypeOK
    <3>2. count' \in 0 .. (SizeMod - 1)
      BY <2>4, ModInRange, WidthAssumption DEF InsertPlace, TypeOK
    <3> QED BY <2>4, <3>1, <3>2, ReturnTyped DEF InsertPlace
  <2>5. CASE InsertUpdate
    <3>1. buckets' \in [Slots -> Node]
      BY <2>5 DEF InsertUpdate, TypeOK, Node
    <3> QED BY <2>5, <3>1, ReturnTyped DEF InsertUpdate, TypeOK
  <2>6. CASE InsertAdvance
    <3>1. buckets' \in [Slots -> Node]
      BY <2>6 DEF InsertAdvance, TypeOK
    <3>2. cur' \in Node
      <4>1. PICK n \in Node : cur' = [n EXCEPT !.dib = Bump(@)]
        BY <2>6 DEF InsertAdvance, TypeOK
      <4>2. Bump(n.dib) \in 0 .. (DibMod - 1)
        BY IndexInSlots DEF Node
      <4> QED BY <4>1, <4>2 DEF Node
    <3>3. bucket_idx' \in Slots
      BY <2>6, IndexInSlots, CapAssumption DEF InsertAdvance, TypeOK, Slots
    <3> QED BY <2>6, <3>1, <3>2, <3>3 DEF InsertAdvance, TypeOK
  <2>7. CASE ProbeMiss
    BY <2>7, ReturnTyped DEF ProbeMiss, TypeOK
  <2>8. CASE GetHit
    <3>1. buckets[bucket_idx].val \in Vals \cup {NoVal}
      BY DEF TypeOK, Node
    <3> QED BY <2>8, <3>1, ReturnTyped DEF GetHit, TypeOK
  <2>9. CASE DeleteHit
    <3>1. buckets' \in [Slots -> Node]
      BY <2>9 DEF DeleteHit, TypeOK, Node
    <3>2. count' \in 0 .. (SizeMod - 1)
      BY <2>9, ModInRange, WidthAssumption DEF DeleteHit, TypeOK
    <3> QED BY <2>9, <3>1, <3>2, ReturnTyped DEF DeleteHit
  <2>10. CASE ProbeAdvance
    <3>1. bucket_idx' \in Slots /\ dib' \in 0 .. (DibMod - 1)
      BY <2>10, IndexInSlots, CapAssumption, WidthAssumption DEF ProbeAdvance, TypeOK, Slots
    <3> QED BY <2>10, <3>1 DEF ProbeAdvance, TypeOK
  <2>11. CASE UNCHANGED vars
    BY <2>11 DEF vars, TypeOK
  <2> QED
    BY <2>1, <2>2, <2>3, <2>4, <2>5, <2>6, <2>7, <2>8, <2>9, <2>10, <2>11 DEF Next, Step
<1> QED BY <1>1, <1>2, PTL DEF Spec
-----------------------------------------------------------------------------
(* Where dib stays a distance.  In a table of at most 65536 buckets it may  *)
(* wrap and is still the distance modulo the capacity.  In the server's     *)
(* table of 2^20 buckets (server.c:127) it must not wrap, and does not      *)
(* while no 65536 occupied buckets follow each other.                       *)

Occupied(i) == ~IsEmpty(buckets[i])
NoZeroHash  == \A k \in Keys : HashOf[k] # 0
\* a tombstone and a stale duplicate occupy their buckets as a live node does
NoLongCluster ==
  \A i \in Slots : \E d \in 0 .. (DibMod - 1) : ~Occupied((i + d) % Cap)
Roomy == DibMod % Cap = 0 \/ (NoZeroHash /\ NoLongCluster)

\* the first d buckets from the home of h on are occupied
Filled(h, d) == \A e \in 0 .. (d - 1) : Occupied((Home(h) + e) % Cap)
HandHash  == pc = "insert" => cur.hash # 0
WayFilled ==
  /\ \A i \in Slots : Occupied(i) => Filled(buckets[i].hash, buckets[i].dib)
  /\ pc = "insert" => Filled(cur.hash, cur.dib)

(* Moving on by one bucket moves the distance on by one, also where dib    *)
(* wraps, if 2^16 is a multiple of the capacity.                           *)
LEMMA OneFurther ==
  ASSUME NEW h \in Nat, NEW d \in Nat, NEW i \in Nat, DibMod % Cap = 0 \/ d + 1 < DibMod,
         (Home(h) + d) % Cap = i
  PROVE  (Home(h) + Bump(d)) % Cap = NextSlot(i)
<1> DEFINE t == Home(h)
<1>1. t \in Nat /\ d + 1 \in Nat /\ Bump(d) \in Nat
  BY IndexInSlots DEF Slots
<1> HIDE DEF t
<1>2. (t + Bump(d)) % Cap = ((Bump(d) % Cap) + t) % Cap
  <2>1. t + Bump(d) = Bump(d) + t
    BY <1>1
  <2> QED BY <1>1, <2>1, ModAdd, CapAssumption
<1>3. Bump(d) % Cap = (d + 1) % Cap
  <2>1. Cap \in Nat \ {0} /\ DibMod \in Nat \ {0}
    BY CapAssumption, WidthAssumption
  <2>2. CASE DibMod % Cap = 0
    <3>1. ((d + 1) % DibMod) % Cap = (d + 1) % Cap
      BY <1>1, <2>1, <2>2, ModWrap, Zenon
    <3> QED BY <3>1 DEF Bump
  <2>3. CASE d + 1 < DibMod
    <3>1. d + 1 \in 0 .. (DibMod - 1) /\ d + 1 = DibMod * 0 + (d + 1)
      BY <2>1, <2>3
    <3>2. Bump(d) = d + 1
      BY <1>1, <2>1, <3>1, ModUnique DEF Bump
    <3> QED BY <3>2
  <2> QED BY <2>2, <2>3
<1>4. (((d + 1) % Cap) + t) % Cap = ((d + 1) + t) % Cap
  BY <1>1, ModAdd, CapAssumption
<1>5. ((d + 1) + t) % Cap = ((t + d) + 1) % Cap
  <2>1. (d + 1) + t = (t + d) + 1
    BY <1>1
  <2> QED BY <2>1
<1>6. (((t + d) % Cap) + 1) % Cap = ((t + d) + 1) % Cap
  <2>1. t + d \in Nat
    BY <1>1
  <2> QED BY <2>1, ModAdd, CapAssumption
<1>7. (t + d) % Cap = i
  BY DEF t
<1> QED BY <1>2, <1>3, <1>4, <1>5, <1>6, <1>7 DEF NextSlot, t

(* A bucket that is occupied stays so: hm_delete leaves the node, and a     *)
(* reused tombstone is replaced by a node.                                  *)
LEMMA OccupiedStays ==
  ASSUME TypeOK, NoZeroHash, HandHash, [Next]_vars
  PROVE  HandHash' /\ \A i \in Slots : Occupied(i) => Occupied(i)'
<1> USE DEF HandHash, Occupied, IsEmpty
<1>1. ASSUME NEW k \in Keys, NEW v \in Vals, CallInsert(k, v)
      PROVE  HandHash' /\ \A i \in Slots : Occupied(i) => Occupied(i)'
  BY <1>1 DEF CallInsert, Begin, NewNode, NoZeroHash
<1>2. ASSUME NEW k \in Keys, CallGet(k) \/ CallDelete(k)
      PROVE  HandHash' /\ \A i \in Slots : Occupied(i) => Occupied(i)'
  BY <1>2 DEF CallGet, CallDelete, Begin
<1>3. CASE InsertPlace
  BY <1>3 DEF InsertPlace, Return, TypeOK
<1>4. CASE InsertUpdate
  BY <1>4 DEF InsertUpdate, Return, TypeOK, Node
<1>5. CASE InsertAdvance
  <2>1. \A i \in Slots : Occupied(i) => Occupied(i)'
    BY <1>5 DEF InsertAdvance, TypeOK
  <2>2. cur'.hash = cur.hash \/ (cur'.hash = buckets[bucket_idx].hash /\ Occupied(bucket_idx))
    BY <1>5 DEF InsertAdvance, TypeOK, Node
  <2> QED BY <1>5, <2>1, <2>2 DEF InsertAdvance
<1>6. CASE ProbeMiss \/ GetHit
  BY <1>6 DEF ProbeMiss, GetHit, Return
<1>7. CASE DeleteHit
  BY <1>7 DEF DeleteHit, Return, TypeOK, Node
<1>8. CASE ProbeAdvance
  BY <1>8 DEF ProbeAdvance
<1>9. CASE UNCHANGED vars
  BY <1>9 DEF vars
<1> QED BY <1>1, <1>2, <1>3, <1>4, <1>5, <1>6, <1>7, <1>8, <1>9 DEF Next, Step

LEMMA HandHashed ==
  ASSUME NoZeroHash
  PROVE  Spec => []HandHash
<1>1. Init => HandHash
  BY DEF Init, HandHash
<1>2. TypeOK /\ HandHash /\ [Next]_vars => HandHash'
  BY OccupiedStays
<1> QED BY <1>1, <1>2, TypeCorrect, PTL DEF Spec

(* So a table that has no long cluster had none before. *)
LEMMA RoomyBefore ==
  ASSUME TypeOK, NoZeroHash => HandHash, [Next]_vars, Roomy'
  PROVE  Roomy
<1>1. CASE DibMod % Cap = 0
  BY <1>1 DEF Roomy
<1>2. CASE ~(DibMod % Cap = 0)
  <2>1. NoZeroHash /\ NoLongCluster'
    BY <1>2 DEF Roomy
  <2>2. \A i \in Slots : Occupied(i) => Occupied(i)'
    BY <2>1, OccupiedStays
  <2>3. ASSUME NEW i \in Slots PROVE \E d \in 0 .. (DibMod - 1) : ~Occupied((i + d) % Cap)
    <3>1. PICK d \in 0 .. (DibMod - 1) : ~Occupied((i + d) % Cap)'
      BY <2>1 DEF NoLongCluster
    <3>2. (i + d) % Cap \in Slots
      <4>1. i + d \in Nat
        BY CapAssumption, WidthAssumption DEF Slots
      <4> QED BY <4>1, ModInRange, CapAssumption DEF Slots
    <3> QED BY <2>2, <3>1, <3>2
  <2> QED BY <2>1, <2>3 DEF Roomy, NoLongCluster
<1> QED BY <1>1, <1>2

(* A walk of d occupied buckets that stands on another is shorter than the *)
(* range of dib.                                                           *)
LEMMA RoomAhead ==
  ASSUME NoLongCluster, NEW h \in Nat, NEW d \in Nat, Filled(h, d),
         Occupied((Home(h) + d) % Cap)
  PROVE  d + 1 < DibMod
<1>1. PICK e \in 0 .. (DibMod - 1) : ~Occupied((Home(h) + e) % Cap)
  BY IndexInSlots DEF NoLongCluster
<1>2. e \notin 0 .. (d - 1) /\ e # d
  BY <1>1 DEF Filled
<1>3. e \in Nat /\ e <= DibMod - 1
  BY WidthAssumption
<1>4. d < e
  BY <1>2, <1>3
<1> QED BY <1>3, <1>4, WidthAssumption

(* One step keeps the distances, if no dib wraps or wrapping is harmless. *)
LEMMA DistanceStep ==
  ASSUME TypeOK, DibIsDistance, [Next]_vars,
         \/ DibMod % Cap = 0
         \/ pc = "insert" /\ Occupied(bucket_idx) =>
              cur.dib + 1 < DibMod /\ buckets[bucket_idx].dib + 1 < DibMod
  PROVE  DibIsDistance'
<1> USE DEF DibIsDistance
<1>1. ASSUME NEW k \in Keys, NEW v \in Vals, CallInsert(k, v) PROVE DibIsDistance'
  <2>1. (Home(HashOf[k]) + 0) % Cap = Home(HashOf[k])
    <3>1. Home(HashOf[k]) + 0 = HashOf[k] % Cap /\ HashOf[k] \in Nat
      BY IndexInSlots, HashAssumption DEF Home, Slots
    <3>2. ((HashOf[k] % Cap) + 0) % Cap = (HashOf[k] + 0) % Cap
      <4>1. 0 \in Nat
        OBVIOUS
      <4> QED BY <3>1, <4>1, ModAdd, CapAssumption, Zenon
    <3> QED BY <3>1, <3>2 DEF Home
  <2> QED BY <1>1, <2>1 DEF CallInsert, Begin, NewNode, IsEmpty
<1>2. ASSUME NEW k \in Keys, CallGet(k) \/ CallDelete(k) PROVE DibIsDistance'
  BY <1>2 DEF CallGet, CallDelete, Begin, IsEmpty
<1>3. CASE InsertPlace
  BY <1>3 DEF InsertPlace, Return, IsEmpty, TypeOK
<1>4. CASE InsertUpdate
  BY <1>4 DEF InsertUpdate, Return, IsEmpty, TypeOK
<1>5. CASE InsertAdvance
  <2>1. \A i \in Slots : ~IsEmpty(buckets'[i]) =>
          (Home(buckets'[i].hash) + buckets'[i].dib) % Cap = i
    BY <1>5 DEF InsertAdvance, IsEmpty, TypeOK
  <2>2. PICK n \in Node : /\ cur' = [n EXCEPT !.dib = Bump(@)]
                          /\ (Home(n.hash) + n.dib) % Cap = bucket_idx
                          /\ DibMod % Cap = 0 \/ n.dib + 1 < DibMod
    BY <1>5 DEF InsertAdvance, IsEmpty, Occupied, TypeOK
  <2>3. n.hash \in Nat /\ n.dib \in Nat /\ bucket_idx \in Nat
    <3>1. n.hash \in Hashes /\ n.dib \in 0 .. (DibMod - 1) /\ bucket_idx \in 0 .. (Cap - 1)
      <4>1. bucket_idx \in 0 .. (Cap - 1)
        BY DEF TypeOK, Slots
      <4>2. n.hash \in Hashes /\ n.dib \in 0 .. (DibMod - 1)
        BY DEF Node
      <4> QED BY <4>1, <4>2
    <3>2. 0 .. (Cap - 1) \subseteq Nat /\ 0 .. (DibMod - 1) \subseteq Nat
      OBVIOUS
    <3> QED BY <3>1, <3>2, NodesAreNodes
  <2>4. (Home(n.hash) + Bump(n.dib)) % Cap = NextSlot(bucket_idx)
    BY <2>2, <2>3, OneFurther
  <2>5. cur'.hash = n.hash /\ cur'.dib = Bump(n.dib)
    BY <2>2 DEF Node
  <2>6. bucket_idx' = NextSlot(bucket_idx)
    BY <1>5 DEF InsertAdvance
  <2> QED BY <2>1, <2>4, <2>5, <2>6 DEF IsEmpty
<1>6. CASE ProbeMiss \/ GetHit
  BY <1>6 DEF ProbeMiss, GetHit, Return, IsEmpty
<1>7. CASE DeleteHit
  BY <1>7 DEF DeleteHit, Return, IsEmpty, TypeOK
<1>8. CASE ProbeAdvance
  BY <1>8 DEF ProbeAdvance, IsEmpty
<1>9. CASE UNCHANGED vars
  BY <1>9 DEF vars, IsEmpty
<1> QED BY <1>1, <1>2, <1>3, <1>4, <1>5, <1>6, <1>7, <1>8, <1>9 DEF Next, Step

(* The buckets on the way to a node stay occupied. *)
LEMMA WayStep ==
  ASSUME TypeOK, NoZeroHash, HandHash, NoLongCluster, DibIsDistance, WayFilled, [Next]_vars
  PROVE  WayFilled'
<1>1. \A h \in Nat, d \in Nat : Filled(h, d) => Filled(h, d)'
  <2> SUFFICES ASSUME NEW h \in Nat, NEW d \in Nat, Filled(h, d), NEW e \in 0 .. (d - 1)
               PROVE  Occupied((Home(h) + e) % Cap)'
    BY DEF Filled
  <2>1. (Home(h) + e) % Cap \in Slots
    <3>1. Home(h) + e \in Nat
      BY IndexInSlots, CapAssumption DEF Slots
    <3> QED BY <3>1, ModInRange, CapAssumption DEF Slots
  <2> QED BY <2>1, OccupiedStays DEF Filled
<1>2. \A n \in Node : n.hash \in Nat /\ n.dib \in Nat
  BY NodeNumbers
<1>3. ASSUME NEW i \in Slots, Occupied(i)', buckets'[i] = buckets[i]
      PROVE  Filled(buckets[i].hash, buckets[i].dib)'
  BY <1>1, <1>2, <1>3 DEF WayFilled, Occupied, IsEmpty, TypeOK
<1>4. ASSUME pc = "insert", NEW c, c = cur PROVE Filled(c.hash, c.dib)'
  BY <1>1, <1>2, <1>4 DEF WayFilled, TypeOK
<1>5. ASSUME NEW k \in Keys, NEW v \in Vals, CallInsert(k, v) PROVE WayFilled'
  <2>1. buckets' = buckets /\ cur' = NewNode(k, v) /\ cur'.dib = 0
    BY <1>5 DEF CallInsert, Begin, NewNode
  <2>2. Filled(cur.hash, cur.dib)'
    BY <2>1 DEF Filled
  <2> QED BY <1>3, <2>1, <2>2 DEF WayFilled
<1>6. ASSUME buckets' = buckets, pc' # "insert" PROVE WayFilled'
  BY <1>3, <1>6 DEF WayFilled
<1>7. CASE InsertPlace
  <2>1. \A i \in Slots : buckets'[i] = IF i = bucket_idx THEN cur ELSE buckets[i]
    BY <1>7 DEF InsertPlace, TypeOK
  <2>2. pc = "insert" /\ pc' # "insert"
    BY <1>7 DEF InsertPlace, Return
  <2> PICK c : c = cur
    OBVIOUS
  <2>3. ASSUME NEW i \in Slots, Occupied(i)'
        PROVE  Filled(buckets[i].hash, buckets[i].dib)'
    <3>1. CASE i # bucket_idx
      BY <1>3, <2>1, <2>3, <3>1
    <3>2. CASE i = bucket_idx
      <4>1. Filled(c.hash, c.dib)' /\ buckets'[i] = c
        BY <1>4, <2>1, <2>2, <3>2
      <4> QED BY <4>1 DEF Filled
    <3> QED BY <3>1, <3>2
  <2> QED BY <2>2, <2>3 DEF WayFilled
<1>8. ASSUME pc' # "insert",
             \A i \in Slots : buckets'[i].hash = buckets[i].hash /\ buckets'[i].dib = buckets[i].dib
      PROVE  WayFilled'
  <2> SUFFICES ASSUME NEW i \in Slots, Occupied(i)'
               PROVE  Filled(buckets[i].hash, buckets[i].dib)'
    BY <1>8 DEF WayFilled
  <2>1. Filled(buckets[i].hash, buckets[i].dib)
    BY <1>8 DEF WayFilled, Occupied, IsEmpty
  <2>2. PICK h \in Nat, d \in Nat : h = buckets[i].hash /\ d = buckets[i].dib
    BY <1>2 DEF TypeOK
  <2>3. Filled(h, d)'
    BY <1>1, <2>1, <2>2
  <2> QED BY <1>8, <2>2, <2>3 DEF Filled
<1>9. CASE InsertUpdate
  <2>1. \A i \in Slots : buckets'[i].hash = buckets[i].hash /\ buckets'[i].dib = buckets[i].dib
    BY <1>9 DEF InsertUpdate, TypeOK, Node
  <2> QED BY <1>8, <1>9, <2>1 DEF InsertUpdate, Return
<1>10. CASE DeleteHit
  <2>1. \A i \in Slots : buckets'[i].hash = buckets[i].hash /\ buckets'[i].dib = buckets[i].dib
    BY <1>10 DEF DeleteHit, TypeOK, Node
  <2> QED BY <1>8, <1>10, <2>1 DEF DeleteHit, Return
<1>11. CASE InsertAdvance
  <2>1. \A i \in Slots : buckets'[i] = buckets[i] \/ (i = bucket_idx /\ buckets'[i] = cur)
    BY <1>11 DEF InsertAdvance, TypeOK
  <2>2. pc = "insert" /\ Occupied(bucket_idx)
    BY <1>11 DEF InsertAdvance, Occupied
  <2>3. \A i \in Slots : Occupied(i)' => Filled(buckets[i].hash, buckets[i].dib)'
    <3> SUFFICES ASSUME NEW i \in Slots, Occupied(i)'
                 PROVE  Filled(buckets[i].hash, buckets[i].dib)'
      OBVIOUS
    <3>1. CASE buckets'[i] = buckets[i]
      BY <1>3, <3>1
    <3>2. CASE buckets'[i] = cur
      <4> PICK c : c = cur
        OBVIOUS
      <4>1. Filled(c.hash, c.dib)' /\ buckets'[i] = c
        BY <1>4, <2>2, <3>2
      <4> QED BY <4>1 DEF Filled
    <3> QED BY <2>1, <3>1, <3>2
  <2>4. PICK n \in Node : /\ cur' = [n EXCEPT !.dib = Bump(@)]
                          /\ (Home(n.hash) + n.dib) % Cap = bucket_idx
                          /\ Filled(n.hash, n.dib)
    BY <1>11, <2>2 DEF InsertAdvance, IsEmpty, Occupied, TypeOK, DibIsDistance, WayFilled
  <2>5. PICK h \in Nat, d \in Nat : h = n.hash /\ d = n.dib
    BY <1>2
  <2>6. d + 1 < DibMod
    BY <2>2, <2>4, <2>5, RoomAhead
  <2>7. Bump(d) = d + 1
    <3>1. d + 1 \in Nat /\ d + 1 \in 0 .. (DibMod - 1) /\ d + 1 = DibMod * 0 + (d + 1)
          /\ DibMod \in Nat \ {0}
      BY <2>6, WidthAssumption
    <3> QED BY <3>1, ModUnique DEF Bump
  <2>8. cur'.hash = h /\ cur'.dib = d + 1
    BY <2>4, <2>5, <2>7 DEF Node
  <2>9. Filled(h, d + 1)
    <3>1. \A e \in 0 .. ((d + 1) - 1) : e = d \/ e \in 0 .. (d - 1)
      OBVIOUS
    <3> QED BY <2>2, <2>4, <2>5, <3>1 DEF Filled
  <2>10. Filled(h, d + 1)'
    <3>1. d + 1 \in Nat
      OBVIOUS
    <3> QED BY <1>1, <2>9, <3>1
  <2>11. Filled(cur.hash, cur.dib)'
    BY <2>8, <2>10 DEF Filled
  <2> QED BY <2>3, <2>11 DEF WayFilled
<1>12. CASE UNCHANGED vars
  BY <1>3, <1>4, <1>12 DEF vars, WayFilled
<1>13. ASSUME NEW k \in Keys, CallGet(k) \/ CallDelete(k) PROVE WayFilled'
  BY <1>6, <1>13 DEF CallGet, CallDelete, Begin
<1>14. CASE ProbeMiss \/ GetHit \/ ProbeAdvance
  BY <1>6, <1>14 DEF ProbeMiss, GetHit, ProbeAdvance, Return
<1> QED BY <1>5, <1>7, <1>9, <1>10, <1>11, <1>12, <1>13, <1>14 DEF Next, Step

(* Every dib is the distance from home, in every table of at most 65536    *)
(* buckets and, if no key hashes to 0, in a table of any size while no     *)
(* 65536 occupied buckets follow each other: so in the server's table of   *)
(* 2^20 buckets up to that length, and whenever at most 65535 of its       *)
(* buckets are occupied.                                                   *)
THEOREM DistancesCorrect == Spec => [](Roomy => DibIsDistance)
<1> DEFINE DInv == Roomy => DibIsDistance /\ (DibMod % Cap = 0 \/ WayFilled)
<1>1. Init => DInv
  <2> SUFFICES ASSUME Init PROVE DibIsDistance /\ WayFilled
    OBVIOUS
  <2> QED BY DEF Init, DibIsDistance, WayFilled, Occupied, ZeroNode, IsEmpty
<1>2. TypeOK /\ (NoZeroHash => HandHash) /\ DInv /\ [Next]_vars => DInv'
  <2> SUFFICES ASSUME TypeOK, NoZeroHash => HandHash, DInv, [Next]_vars, Roomy'
               PROVE  DibIsDistance' /\ (DibMod % Cap = 0 \/ WayFilled')
    BY DEF WayFilled, Roomy
  <2>1. Roomy /\ DibIsDistance /\ (DibMod % Cap = 0 \/ WayFilled)
    BY RoomyBefore
  <2>2. CASE DibMod % Cap = 0
    BY <2>1, <2>2, DistanceStep
  <2>3. CASE ~(DibMod % Cap = 0)
    <3>1. NoZeroHash /\ HandHash /\ NoLongCluster /\ WayFilled
      BY <2>1, <2>3 DEF Roomy
    <3>2. ASSUME pc = "insert", Occupied(bucket_idx)
          PROVE  cur.dib + 1 < DibMod /\ buckets[bucket_idx].dib + 1 < DibMod
      <4>1. /\ cur \in Node /\ buckets[bucket_idx] \in Node /\ bucket_idx \in Slots
            /\ \A n \in Node : n.hash \in Nat /\ n.dib \in Nat
        BY NodeNumbers DEF TypeOK
      <4>2. /\ Filled(cur.hash, cur.dib) /\ (Home(cur.hash) + cur.dib) % Cap = bucket_idx
            /\ Filled(buckets[bucket_idx].hash, buckets[bucket_idx].dib)
            /\ (Home(buckets[bucket_idx].hash) + buckets[bucket_idx].dib) % Cap = bucket_idx
        BY <2>1, <3>1, <3>2, <4>1 DEF WayFilled, DibIsDistance, Occupied
      <4> QED BY <3>1, <3>2, <4>1, <4>2, RoomAhead
    <3>3. DibIsDistance'
      BY <2>1, <3>2, DistanceStep
    <3>4. WayFilled'
      BY <2>1, <3>1, WayStep
    <3> QED BY <3>3, <3>4
  <2> QED BY <2>2, <2>3
<1>3. Spec => [](NoZeroHash => HandHash)
  <2>1. CASE NoZeroHash
    BY <2>1, HandHashed, PTL
  <2>2. CASE ~NoZeroHash
    BY <2>2, PTL
  <2> QED BY <2>1, <2>2
<1> QED BY <1>1, <1>2, <1>3, TypeCorrect, PTL DEF Spec
-----------------------------------------------------------------------------
(* Used with hm_insert and hm_get alone, on no more keys than buckets, no  *)
(* key of hash 0: the table as a dictionary.  The invariant says what      *)
(* Robin Hood probing keeps: the nodes on the way from a node's home to    *)
(* the node are all there, and none of them is nearer to its own home than *)
(* the walk that passes it is to its start.                                *)

NoDeletes  == "delete" \notin Calls
FewKeys    == /\ IsFiniteSet(Keys)
              /\ Cardinality(Keys) <= Cap /\ Cardinality(Keys) <= DibMod
MapAssumption == NoDeletes /\ NoZeroHash /\ FewKeys

\* the bucket at distance d from the home of k
Place(k, d) == (Home(HashOf[k]) + d) % Cap
\* a walk for k may pass the first d buckets
Passed(k, d) ==
  \A e \in 0 .. (d - 1) :
    Occupied(Place(k, e)) /\ buckets[Place(k, e)].dib >= e
\* a walk for k has passed d buckets and has not met k
Walked(k, d) ==
  /\ bucket_idx = Place(k, d)
  /\ Passed(k, d)
  /\ \A e \in 0 .. (d - 1) : buckets[Place(k, e)].key # k
Absent(k) == \A i \in Slots : Occupied(i) => buckets[i].key # k
HoldsVal(k, v) ==
  \E i \in Slots : Occupied(i) /\ buckets[i].key = k /\ buckets[i].val = v
\* hm_insert has put the new node in place of the one it holds now
Displaced == pc = "insert" /\ cur.key # key

GoodNodes ==
  \A i \in Slots : Occupied(i) =>
    /\ buckets[i].key \in Keys /\ buckets[i].hash = HashOf[buckets[i].key]
    /\ buckets[i].val \in Vals
    /\ buckets[i].dib < Cap /\ Place(buckets[i].key, buckets[i].dib) = i
NoTombs == \A i \in Slots : ~buckets[i].tomb
OneNodeEach ==
  \A i, j \in Slots :
    Occupied(i) /\ Occupied(j) /\ buckets[i].key = buckets[j].key => i = j
RobinHood ==
  \A i \in Slots : Occupied(i) => Passed(buckets[i].key, buckets[i].dib)
Table == GoodNodes /\ NoTombs /\ OneNodeEach /\ RobinHood

InHand ==
  pc = "insert" =>
    /\ cur.key \in Keys /\ cur.hash = HashOf[cur.key] /\ cur.val \in Vals
    /\ ~cur.tomb /\ (cur.key = key => cur.val = val)
    /\ Walked(cur.key, cur.dib)
Getting == pc = "get" => Walked(key, dib)
\* the new node is behind the walk, in the cluster the walk has passed
Behind ==
  Displaced =>
    /\ Absent(cur.key)
    /\ \E j \in Slots, m \in Nat \ {0} :
         /\ Occupied(j) /\ buckets[j].key = key /\ buckets[j].val = val
         /\ bucket_idx = (j + m) % Cap
         /\ \A t \in 0 .. (m - 1) : Occupied((j + t) % Cap)
DictOf(k) ==
  IF dict[k] = NoVal THEN Absent(k) ELSE HoldsVal(k, dict[k])
DictInTable ==
  \A k \in Keys :
    /\ Displaced /\ k = cur.key => dict[k] = cur.val
    /\ Displaced /\ k = key => dict[k] = NoVal
    /\ ~(Displaced /\ k \in {key, cur.key}) => DictOf(k)
CountIs == count = Cardinality({k \in Keys : dict[k] # NoVal}) % SizeMod
Quiet ==
  /\ pc = "idle" => key = NoKey
  /\ pc # "insert" => val = NoVal /\ cur = ZeroNode
  /\ pc # "delete"
MapInv == Table /\ InHand /\ Getting /\ Behind /\ DictInTable /\ CountIs /\ Quiet

(* Where the buckets of a walk are. *)
LEMMA Places ==
  ASSUME NEW k \in Keys, NEW d \in Nat
  PROVE  /\ Place(k, d) \in Slots
         /\ Place(k, 0) = Home(HashOf[k])
         /\ NextSlot(Place(k, d)) = Place(k, d + 1)
         /\ \A e \in 0 .. (d - 1) : d < e + Cap => Place(k, e) # Place(k, d)
         /\ d + 1 < DibMod => Bump(d) = d + 1
<1> DEFINE h == Home(HashOf[k])
<1>1. h \in Nat /\ h \in Slots
  BY IndexInSlots, HashAssumption DEF Slots
<1> HIDE DEF h
<1>2. \A e \in Nat : Place(k, e) = (h + e) % Cap /\ h + e \in Nat
  BY <1>1 DEF Place, h
<1>3. (h + 0) % Cap = h
  <2>1. h + 0 = h /\ h \in 0 .. (Cap - 1) /\ h \in Nat /\ h = Cap * 0 + h
    BY <1>1, CapAssumption DEF Slots
  <2>2. h % Cap = h
    BY <2>1, ModUnique, CapAssumption
  <2> QED BY <2>1, <2>2
<1>4. NextSlot((h + d) % Cap) = (h + (d + 1)) % Cap
  <2>1. h + d \in Nat /\ 1 \in Nat /\ (h + d) + 1 = h + (d + 1)
    BY <1>1
  <2>2. (((h + d) % Cap) + 1) % Cap = ((h + d) + 1) % Cap
    BY <2>1, ModAdd, CapAssumption
  <2> QED BY <2>1, <2>2 DEF NextSlot
<1>5. \A e \in 0 .. (d - 1) : d < e + Cap => (h + e) % Cap # (h + d) % Cap
  <2> SUFFICES ASSUME NEW e \in 0 .. (d - 1), d < e + Cap
               PROVE  (h + e) % Cap # (h + d) % Cap
    OBVIOUS
  <2>1. h + e \in Nat /\ h + d \in Nat /\ h + e < h + d /\ h + d < (h + e) + Cap
    BY <1>1, CapAssumption
  <2> QED BY <2>1, ModDistinct, CapAssumption
<1>6. (h + d) % Cap \in Slots
  BY <1>2, ModInRange, CapAssumption DEF Slots
<1>7. d + 1 < DibMod => Bump(d) = d + 1
  <2> SUFFICES ASSUME d + 1 < DibMod PROVE Bump(d) = d + 1
    OBVIOUS
  <2>1. d + 1 \in Nat /\ d + 1 \in 0 .. (DibMod - 1) /\ d + 1 = DibMod * 0 + (d + 1)
        /\ DibMod \in Nat \ {0}
    BY WidthAssumption
  <2> QED BY <2>1, ModUnique DEF Bump
<1>8. \A e \in 0 .. (d - 1) : e \in Nat
  OBVIOUS
<1> QED BY <1>2, <1>3, <1>4, <1>5, <1>6, <1>7, <1>8 DEF h

(* A run of buckets with a key each and none for k has fewer buckets than  *)
(* there are keys.                                                         *)
LEMMA ShortRunInArray ==
  ASSUME FewKeys, GoodNodes, OneNodeEach, NEW s \in Nat, NEW n \in 0 .. Cap,
         NEW k \in Keys,
         \A t \in 0 .. (n - 1) :
           Occupied((s + t) % Cap) /\ buckets[(s + t) % Cap].key # k
  PROVE  n + 1 <= Cardinality(Keys)
<1> DEFINE at(t) == (s + t) % Cap
           f == [t \in 0 .. n |-> IF t = n THEN k ELSE buckets[at(t)].key]
<1>1. \A t \in 0 .. n : at(t) \in Slots
  <2> SUFFICES ASSUME NEW t \in 0 .. n PROVE at(t) \in Slots
    OBVIOUS
  <2>1. s + t \in Nat
    OBVIOUS
  <2> QED BY <2>1, ModInRange, CapAssumption DEF Slots
<1>2. \A t, u \in 0 .. (n - 1) : at(t) = at(u) => t = u
  <2>1. \A t, u \in 0 .. (n - 1) : t < u => at(t) # at(u)
    <3> SUFFICES ASSUME NEW t \in 0 .. (n - 1), NEW u \in 0 .. (n - 1), t < u
                 PROVE  at(t) # at(u)
      OBVIOUS
    <3>1. s + t \in Nat /\ s + u \in Nat /\ s + t < s + u /\ s + u < (s + t) + Cap
      BY CapAssumption
    <3> QED BY <3>1, ModDistinct, CapAssumption
  <2> QED BY <2>1
<1>3. \A t \in 0 .. (n - 1) : Occupied(at(t)) /\ buckets[at(t)].key # k
  OBVIOUS
<1> HIDE DEF at
<1>4. \A t \in 0 .. (n - 1) : buckets[at(t)].key \in Keys \ {k}
  BY <1>1, <1>3 DEF GoodNodes
<1>5. \A t, u \in 0 .. (n - 1) : buckets[at(t)].key = buckets[at(u)].key => t = u
  BY <1>1, <1>2, <1>3 DEF OneNodeEach
<1>6. f \in [0 .. n -> Keys]
  BY <1>4
<1>7. \A t, u \in 0 .. n : f[t] = f[u] => t = u
  BY <1>4, <1>5
<1> HIDE DEF f
<1>8. f \in Injection(0 .. n, Keys)
  BY <1>6, <1>7, Fun_IsInj
<1>9. Cardinality(0 .. n) <= Cardinality(Keys)
  BY <1>8, FS_Injection DEF FewKeys
<1>10. Cardinality(0 .. n) = n + 1
  BY FS_Interval
<1> QED BY <1>9, <1>10

(* However long a run is said to be, its first Cap buckets are one. *)
LEMMA ShortRun ==
  ASSUME FewKeys, GoodNodes, OneNodeEach, NEW s \in Nat, NEW n \in Nat,
         NEW k \in Keys,
         \A t \in 0 .. (n - 1) :
           Occupied((s + t) % Cap) /\ buckets[(s + t) % Cap].key # k
  PROVE  n + 1 <= Cardinality(Keys)
<1>1. Cardinality(Keys) \in Nat /\ Cardinality(Keys) <= Cap
  BY FS_CardinalityType DEF FewKeys
<1>2. CASE n <= Cap
  <2>1. n \in 0 .. Cap
    BY <1>2, CapAssumption
  <2> QED BY <2>1, ShortRunInArray
<1>3. CASE n > Cap
  <2>1. Cap \in 0 .. Cap /\ \A t \in 0 .. (Cap - 1) : t \in 0 .. (n - 1)
    BY <1>3, CapAssumption
  <2>2. \A t \in 0 .. (Cap - 1) :
           Occupied((s + t) % Cap) /\ buckets[(s + t) % Cap].key # k
    BY <2>1
  <2>3. Cap + 1 <= Cardinality(Keys)
    BY <2>1, <2>2, ShortRunInArray
  <2> QED BY <1>1, <2>3, CapAssumption
<1> QED BY <1>2, <1>3, CapAssumption

(* A walk is shorter than the set of keys, so dib never wraps. *)
LEMMA ShortWalk ==
  ASSUME FewKeys, GoodNodes, OneNodeEach, NEW k \in Keys, NEW d \in Nat, Walked(k, d)
  PROVE  d + 1 <= Cardinality(Keys) /\ d < Cap /\ d < DibMod
<1>1. Home(HashOf[k]) \in Nat
  BY IndexInSlots, HashAssumption DEF Slots
<1>2. \A t \in 0 .. (d - 1) :
        /\ Occupied((Home(HashOf[k]) + t) % Cap)
        /\ buckets[(Home(HashOf[k]) + t) % Cap].key # k
  BY DEF Walked, Passed, Place
<1>3. d + 1 <= Cardinality(Keys)
  BY <1>1, <1>2, ShortRun
<1>4. Cardinality(Keys) \in Nat
  BY FS_CardinalityType DEF FewKeys
<1> QED BY <1>3, <1>4, CapAssumption, WidthAssumption DEF FewKeys

(* A walk that stands on an occupied bucket of another key can go on. *)
LEMMA LongerWalk ==
  ASSUME FewKeys, GoodNodes, OneNodeEach, NEW k \in Keys, NEW d \in Nat, Walked(k, d),
         Occupied(bucket_idx), buckets[bucket_idx].key # k
  PROVE  d + 1 < Cap /\ Bump(d) = d + 1 /\ NextSlot(bucket_idx) = Place(k, d + 1)
<1>1. Home(HashOf[k]) \in Nat
  BY IndexInSlots, HashAssumption DEF Slots
<1>2. \A t \in 0 .. ((d + 1) - 1) :
        /\ Occupied((Home(HashOf[k]) + t) % Cap)
        /\ buckets[(Home(HashOf[k]) + t) % Cap].key # k
  BY DEF Walked, Passed, Place
<1>3. (d + 1) + 1 <= Cardinality(Keys)
  <2>1. d + 1 \in Nat
    OBVIOUS
  <2> QED BY <1>1, <1>2, <2>1, ShortRun
<1>4. Cardinality(Keys) \in Nat
  BY FS_CardinalityType DEF FewKeys
<1>5. d + 1 < Cap /\ d + 1 < DibMod
  BY <1>3, <1>4, CapAssumption, WidthAssumption DEF FewKeys
<1> QED BY <1>5, Places DEF Walked

(* Where a walk ends on an empty bucket or a nearer node, its key is in no *)
(* bucket.                                                                 *)
LEMMA NotFound ==
  ASSUME TypeOK, Table, NEW k \in Keys, NEW d \in Nat, Walked(k, d),
         IsEmpty(buckets[bucket_idx]) \/ d > buckets[bucket_idx].dib
  PROVE  Absent(k)
<1> SUFFICES ASSUME NEW i \in Slots, Occupied(i), buckets[i].key = k
             PROVE  FALSE
  BY DEF Absent
<1> DEFINE n == buckets[i].dib
<1>1. n \in Nat /\ Place(k, n) = i /\ Passed(k, n)
  BY DEF TypeOK, Node, Table, GoodNodes, RobinHood
<1> HIDE DEF n
<1>2. CASE n < d
  <2>1. n \in 0 .. (d - 1)
    BY <1>1, <1>2
  <2> QED BY <1>1, <2>1 DEF Walked
<1>3. CASE n = d
  BY <1>1, <1>3 DEF Walked, Occupied, n
<1>4. CASE n > d
  <2>1. d \in 0 .. (n - 1) /\ buckets[Place(k, d)].dib \in Nat
    BY <1>1, <1>4, Places DEF TypeOK, Node
  <2>2. Occupied(Place(k, d)) /\ buckets[Place(k, d)].dib >= d
    BY <1>1, <2>1 DEF Passed
  <2> QED BY <2>1, <2>2 DEF Walked, Occupied
<1> QED BY <1>1, <1>2, <1>3, <1>4

(* The node in hand takes an empty bucket or the bucket of a nearer node. *)
LEMMA NodePut ==
  ASSUME TypeOK, Table, InHand, pc = "insert", Absent(cur.key), cur.dib < Cap,
         NoZeroHash,
         IsEmpty(buckets[bucket_idx]) \/ cur.dib > buckets[bucket_idx].dib,
         buckets' = [buckets EXCEPT ![bucket_idx] = cur]
  PROVE  /\ Table'
         /\ \A i \in Slots : Occupied(i) \/ i = bucket_idx => Occupied(i)'
         /\ \A i \in Slots : Occupied(i) => buckets'[i].dib >= buckets[i].dib
<1> PICK b : b = bucket_idx
  OBVIOUS
<1> PICK c : c = cur
  OBVIOUS
<1>1. /\ b \in Slots /\ buckets \in [Slots -> Node]
      /\ c \in Node /\ c.key \in Keys /\ c.hash = HashOf[c.key] /\ c.hash # 0
      /\ c.val \in Vals /\ ~c.tomb /\ c.dib \in Nat /\ Walked(c.key, c.dib)
  BY DEF TypeOK, InHand, NoZeroHash, Node
<1>2. buckets'[b] = c /\ \A i \in Slots : i # b => buckets'[i] = buckets[i]
  BY <1>1
<1>3. \A i \in Slots : buckets[i].dib \in Nat /\ buckets'[i].dib \in Nat
  BY <1>1, <1>2 DEF Node
<1>4. Occupied(b)' /\ \A i \in Slots : i # b => (Occupied(i)' <=> Occupied(i))
  BY <1>1, <1>2 DEF Occupied, IsEmpty
<1>5. \A i \in Slots : Occupied(i) => Occupied(i)' /\ buckets'[i].dib >= buckets[i].dib
  BY <1>1, <1>2, <1>3, <1>4 DEF Occupied
<1>6. GoodNodes'
  <2>1. Place(c.key, c.dib) = b
    BY <1>1 DEF Walked
  <2>2. \A k, d : Place(k, d)' = Place(k, d)
    BY DEF Place
  <2> QED BY <1>1, <1>2, <1>4, <2>1, <2>2 DEF Table, GoodNodes
<1>7. NoTombs'
  BY <1>1, <1>2 DEF Table, NoTombs
<1>8. OneNodeEach'
  BY <1>1, <1>2, <1>4 DEF Table, OneNodeEach, Absent
<1>9. \A k \in Keys, d \in Nat : Passed(k, d) => Passed(k, d)'
  <2> SUFFICES ASSUME NEW k \in Keys, NEW d \in Nat, Passed(k, d), NEW e \in 0 .. (d - 1)
               PROVE  Occupied(Place(k, e))' /\ buckets'[Place(k, e)].dib >= e
    BY DEF Passed, Place
  <2>1. e \in Nat /\ Place(k, e) \in Slots
    BY Places
  <2>2. Occupied(Place(k, e)) /\ buckets[Place(k, e)].dib >= e
    BY DEF Passed
  <2>3. Occupied(Place(k, e))' <=> ~IsEmpty(buckets'[Place(k, e)])
    BY DEF Occupied, Place
  <2> QED BY <1>3, <1>5, <2>1, <2>2, <2>3 DEF Occupied
<1>10. RobinHood'
  <2>1. Passed(c.key, c.dib)'
    BY <1>1, <1>9 DEF Walked
  <2>2. \A i \in Slots : i # b /\ Occupied(i) => Passed(buckets[i].key, buckets[i].dib)'
    BY <1>3, <1>9 DEF Table, RobinHood, GoodNodes
  <2> QED BY <1>2, <1>4, <2>1, <2>2 DEF RobinHood, Passed
<1> QED BY <1>4, <1>5, <1>6, <1>7, <1>8, <1>10 DEF Table

(* The node in hand, when it can be put down, is in no bucket. *)
LEMMA HandAbsent ==
  ASSUME TypeOK, Table, InHand, Behind, pc = "insert",
         IsEmpty(buckets[bucket_idx]) \/ cur.dib > buckets[bucket_idx].dib
  PROVE  Absent(cur.key)
<1>1. cur.key \in Keys /\ cur.dib \in Nat /\ Walked(cur.key, cur.dib)
  BY DEF InHand, TypeOK, Node
<1> QED BY <1>1, NotFound

(* Having put the new node down, hm_insert never comes round to it: the    *)
(* cluster it walks ends before.                                           *)
LEMMA NeverRound ==
  ASSUME FewKeys, TypeOK, Table, InHand, Behind, Displaced,
         NEW j \in Slots, NEW m \in Nat \ {0}, bucket_idx = (j + m) % Cap,
         \A t \in 0 .. (m - 1) : Occupied((j + t) % Cap)
  PROVE  j # bucket_idx
<1>1. j \in Nat /\ j \in 0 .. (Cap - 1) /\ cur.key \in Keys
  BY CapAssumption DEF Slots, InHand, Displaced
<1>2. \A t \in 0 .. (m - 1) : (j + t) % Cap \in Slots
  <2> SUFFICES ASSUME NEW t \in 0 .. (m - 1) PROVE (j + t) % Cap \in Slots
    OBVIOUS
  <2>1. j + t \in Nat
    BY <1>1
  <2> QED BY <2>1, ModInRange, CapAssumption DEF Slots
<1>3. \A t \in 0 .. (m - 1) :
        Occupied((j + t) % Cap) /\ buckets[(j + t) % Cap].key # cur.key
  BY <1>2 DEF Behind, Absent
<1>4. m + 1 <= Cardinality(Keys)
  BY <1>1, <1>3, ShortRun DEF Table
<1>5. m < Cap
  BY <1>4, CapAssumption, FS_CardinalityType DEF FewKeys
<1>6. j % Cap # (j + m) % Cap
  <2>1. j + m \in Nat /\ j < j + m /\ j + m < j + Cap
    BY <1>1, <1>5, CapAssumption
  <2> QED BY <1>1, <2>1, ModDistinct, CapAssumption
<1>7. j % Cap = j
  <2>1. j = Cap * 0 + j
    BY <1>1, CapAssumption
  <2> QED BY <1>1, <2>1, ModUnique, CapAssumption
<1> QED BY <1>6, <1>7

(* A displaced node that is carried on never meets the node of the call's key. *)
LEMMA NotMetAgain ==
  ASSUME FewKeys, TypeOK, Table, InHand, Behind, Displaced, Occupied(bucket_idx)
  PROVE  buckets[bucket_idx].key # key
<1>1. PICK j \in Slots, m \in Nat \ {0} :
         /\ Occupied(j) /\ buckets[j].key = key /\ buckets[j].val = val
         /\ bucket_idx = (j + m) % Cap
         /\ \A t \in 0 .. (m - 1) : Occupied((j + t) % Cap)
  BY DEF Behind
<1>2. j # bucket_idx
  BY <1>1, NeverRound
<1> QED BY <1>1, <1>2 DEF Table, OneNodeEach, TypeOK

(* A bucket is the one of a key by its key alone. *)
LEMMA KeyIsEnough ==
  ASSUME GoodNodes, NEW i \in Slots, Occupied(i), NEW k \in Keys
  PROVE  SameKey(buckets[i], k) <=> buckets[i].key = k
BY DEF GoodNodes, SameKey

(* Counting. *)
LEMMA CountOneMore ==
  ASSUME FewKeys, TypeOK, CountIs, key \in Keys, val # NoVal, dict[key] = NoVal,
         dict' = [dict EXCEPT ![key] = val], count' = (count + 1) % SizeMod
  PROVE  CountIs'
<1> DEFINE S == {k \in Keys : dict[k] # NoVal}
           T == {k \in Keys : dict'[k] # NoVal}
<1>1. T = S \cup {key} /\ key \notin S
  BY DEF TypeOK
<1>2. IsFiniteSet(S) /\ S \subseteq Keys
  <2>1. S \in SUBSET Keys
    OBVIOUS
  <2> QED BY <2>1, FS_Subset DEF FewKeys
<1>3. count = Cardinality(S) % SizeMod
  BY DEF CountIs
<1> HIDE DEF S
<1>4. Cardinality(T) = Cardinality(S) + 1 /\ Cardinality(S) \in Nat
  BY <1>1, <1>2, FS_AddElement, FS_CardinalityType
<1> HIDE DEF T
<1>5. ((Cardinality(S) % SizeMod) + 1) % SizeMod = (Cardinality(S) + 1) % SizeMod
  BY <1>4, ModAdd, WidthAssumption
<1>6. count' = Cardinality(T) % SizeMod
  BY <1>3, <1>4, <1>5
<1> QED BY <1>6 DEF CountIs, T

(* A step that adds no key to the dictionary and takes none leaves the count right. *)
LEMMA CountSame ==
  ASSUME CountIs, count' = count, \A k \in Keys : dict'[k] = NoVal <=> dict[k] = NoVal
  PROVE  CountIs'
<1>1. {k \in Keys : dict'[k] # NoVal} = {k \in Keys : dict[k] # NoVal}
  OBVIOUS
<1> QED BY <1>1 DEF CountIs

(* What an insert leaves in the dictionary. *)
LEMMA InsertSaid ==
  ASSUME TypeOK, pc = "insert", NEW out, Return(out)
  PROVE  /\ dict' = [dict EXCEPT ![key] = val] /\ dict' \in [Keys -> Vals \cup {NoVal}]
         /\ key \in Keys /\ val \in Vals /\ val # NoVal
         /\ dict'[key] = val /\ \A k \in Keys : k # key => dict'[k] = dict[k]
BY NullAssumption DEF TypeOK, Return
-----------------------------------------------------------------------------
(* The actions keep the invariant. *)

(* A call begins. *)
LEMMA BeginKeeps ==
  ASSUME MapAssumption, TypeOK, MapInv, NEW fn \in {"insert", "get", "delete"},
         NEW k \in Keys, NEW v \in Vals \cup {NoVal}, NEW n, Begin(fn, k, v, n),
         fn = "insert" => v \in Vals /\ n = NewNode(k, v),
         fn # "insert" => v = NoVal /\ n = ZeroNode
  PROVE  MapInv'
<1>1. /\ fn # "delete" /\ pc = "idle" /\ pc' = fn /\ key' = k /\ val' = v /\ cur' = n
      /\ bucket_idx' = Place(k, 0) /\ dib' = 0
      /\ UNCHANGED <<buckets, count, dict>>
  BY Places DEF Begin, MapAssumption, NoDeletes
<1>2. ~Displaced /\ ~Displaced'
  BY <1>1 DEF Displaced, NewNode
<1>3. Table'
  BY <1>1 DEF MapInv, Table, GoodNodes, NoTombs, OneNodeEach, RobinHood, Passed, Occupied, Place
<1>4. (bucket_idx = Place(k, 0))' /\ \A e \in 0 .. (0 - 1) : FALSE
  BY <1>1 DEF Place
<1>5. InHand'
  <2> SUFFICES ASSUME fn = "insert" PROVE InHand'
    BY <1>1 DEF InHand
  <2>1. /\ n.key = k /\ n.hash = HashOf[k] /\ n.val = v /\ ~n.tomb /\ n.dib = 0
        /\ v \in Vals
    BY DEF NewNode
  <2> QED BY <1>1, <1>4, <2>1 DEF InHand, Walked, Passed
<1>6. Getting'
  BY <1>1, <1>4 DEF Getting, Walked, Passed
<1>7. Behind'
  BY <1>2 DEF Behind
<1>8. DictInTable'
  BY <1>1, <1>2 DEF MapInv, DictInTable, DictOf, Absent, HoldsVal, Occupied
<1>9. CountIs'
  BY <1>1 DEF MapInv, CountIs
<1>10. Quiet'
  BY <1>1 DEF Quiet
<1> QED BY <1>3, <1>5, <1>6, <1>7, <1>8, <1>9, <1>10 DEF MapInv

(* A call returns: what is left is the table, the dictionary and the count. *)
LEMMA ReturnKeeps ==
  ASSUME NEW out, Return(out), Table', CountIs', \A k \in Keys : DictOf(k)'
  PROVE  MapInv'
<1>1. pc' = "idle" /\ key' = NoKey /\ val' = NoVal /\ cur' = ZeroNode /\ ~Displaced'
  BY DEF Return, Displaced
<1>2. InHand' /\ Getting' /\ Behind' /\ Quiet'
  BY <1>1 DEF InHand, Getting, Behind, Quiet
<1>3. DictInTable'
  BY <1>1 DEF DictInTable
<1> QED BY <1>2, <1>3 DEF MapInv

(* The node in hand comes to rest. *)
LEMMA PlaceKeeps ==
  ASSUME MapAssumption, TypeOK, MapInv, InsertPlace
  PROVE  MapInv'
<1> USE DEF MapAssumption
<1> PICK b : b = bucket_idx
  OBVIOUS
<1>1. /\ pc = "insert" /\ IsEmpty(buckets[b]) /\ b \in Slots
      /\ buckets' = [buckets EXCEPT ![b] = cur]
      /\ count' = (count + 1) % SizeMod /\ Return("ok")
  BY DEF InsertPlace, MapInv, Table, NoTombs, TypeOK
<1>2. Absent(cur.key) /\ cur.key \in Keys /\ cur.val \in Vals
  BY <1>1, HandAbsent DEF MapInv, InHand
<1>3. cur.dib < Cap
  <2>1. Walked(cur.key, cur.dib) /\ cur.dib \in Nat
    BY <1>1 DEF MapInv, InHand, TypeOK, Node
  <2> QED BY <1>2, <2>1, ShortWalk DEF MapInv, Table
<1>4. /\ Table' /\ \A i \in Slots : (Occupied(i) \/ i = b) => Occupied(i)'
  BY <1>1, <1>2, <1>3, NodePut DEF MapInv
<1>5. buckets'[b] = cur /\ \A i \in Slots : i # b => buckets'[i] = buckets[i]
  BY <1>1 DEF TypeOK
<1>6. \A i \in Slots : (Occupied(i)' <=> i = b \/ Occupied(i))
  BY <1>4, <1>5 DEF Occupied
<1>7. \A i \in Slots : Occupied(i) => i # b
  BY <1>1 DEF Occupied
<1>8. /\ dict' = [dict EXCEPT ![key] = val]
      /\ key \in Keys /\ val \in Vals /\ val # NoVal /\ NoVal \notin Vals
      /\ dict'[key] = val /\ \A k \in Keys : k # key => dict'[k] = dict[k]
  BY <1>1, InsertSaid, NullAssumption
<1>9. dict[key] = NoVal
  <2>1. CASE Displaced
    BY <1>8, <2>1 DEF MapInv, DictInTable
  <2>2. CASE ~Displaced
    BY <1>1, <1>2, <1>8, <2>2 DEF MapInv, DictInTable, Displaced, DictOf, HoldsVal, Absent
  <2> QED BY <2>1, <2>2
<1>10. CountIs'
  BY <1>1, <1>8, <1>9, CountOneMore DEF MapInv
<1>11. ASSUME NEW k \in Keys PROVE DictOf(k)'
  <2>1. CASE k = cur.key
    <3>1. dict'[k] = cur.val
      BY <1>1, <1>8, <2>1 DEF MapInv, DictInTable, Displaced, InHand
    <3> QED BY <1>1, <1>2, <1>5, <1>6, <1>8, <2>1, <3>1 DEF DictOf, HoldsVal
  <2>2. CASE k # cur.key /\ k = key
    <3>1. PICK j \in Slots : Occupied(j) /\ buckets[j].key = key /\ buckets[j].val = val
      BY <1>1, <2>2 DEF MapInv, Behind, Displaced
    <3> QED BY <1>5, <1>6, <1>7, <1>8, <2>2, <3>1 DEF DictOf, HoldsVal
  <2>3. CASE k # cur.key /\ k # key
    <3>1. DictOf(k) /\ dict'[k] = dict[k]
      BY <1>8, <2>3 DEF MapInv, DictInTable
    <3>2. Absent(k) => Absent(k)'
      BY <1>5, <1>6, <2>3 DEF Absent
    <3>3. \A v : HoldsVal(k, v) => HoldsVal(k, v)'
      BY <1>5, <1>6, <1>7 DEF HoldsVal
    <3> QED BY <3>1, <3>2, <3>3 DEF DictOf
  <2> QED BY <2>1, <2>2, <2>3
<1> QED BY <1>1, <1>4, <1>10, <1>11, ReturnKeeps

(* A present key gets its new value. *)
LEMMA UpdateKeeps ==
  ASSUME MapAssumption, TypeOK, MapInv, InsertUpdate
  PROVE  MapInv' /\ ~Displaced
<1> USE DEF MapAssumption
<1> PICK b : b = bucket_idx
  OBVIOUS
<1>1. /\ pc = "insert" /\ Occupied(b) /\ b \in Slots /\ SameKey(buckets[b], key)
      /\ buckets' = [buckets EXCEPT ![b].val = val]
      /\ count' = count /\ Return("ok")
  BY DEF InsertUpdate, Occupied, TypeOK
<1>2. /\ dict' = [dict EXCEPT ![key] = val]
      /\ key \in Keys /\ val \in Vals /\ val # NoVal /\ NoVal \notin Vals
      /\ dict'[key] = val /\ \A k \in Keys : k # key => dict'[k] = dict[k]
  BY <1>1, InsertSaid, NullAssumption
<1>3. buckets[b].key = key
  BY <1>1, <1>2, KeyIsEnough DEF MapInv, Table
<1>4. ~Displaced
  BY <1>1, <1>3, NotMetAgain DEF MapInv
<1>5. \A i \in Slots :
        /\ buckets'[i].hash = buckets[i].hash /\ buckets'[i].key = buckets[i].key
        /\ buckets'[i].dib = buckets[i].dib /\ buckets'[i].tomb = buckets[i].tomb
        /\ buckets'[i].val = IF i = b THEN val ELSE buckets[i].val
  BY <1>1 DEF TypeOK, Node
<1>6. \A i \in Slots : Occupied(i)' <=> Occupied(i)
  BY <1>5 DEF Occupied, IsEmpty
<1>7. Table'
  <2>1. GoodNodes'
    BY <1>2, <1>5, <1>6 DEF MapInv, Table, GoodNodes, Place
  <2>2. NoTombs' /\ OneNodeEach'
    BY <1>5, <1>6 DEF MapInv, Table, NoTombs, OneNodeEach
  <2>3. RobinHood'
    <3> SUFFICES ASSUME NEW i \in Slots, Occupied(i)',
                        NEW e \in 0 .. (buckets'[i].dib - 1)
                 PROVE  /\ ~IsEmpty(buckets'[Place(buckets'[i].key, e)])
                        /\ buckets'[Place(buckets'[i].key, e)].dib >= e
      BY DEF RobinHood, Passed, Place, Occupied
    <3>1. /\ Occupied(i) /\ e \in 0 .. (buckets[i].dib - 1)
          /\ buckets'[i].key = buckets[i].key
      BY <1>5, <1>6
    <3> PICK p : p = Place(buckets[i].key, e)
      OBVIOUS
    <3>2. p \in Slots
      BY <3>1, Places DEF MapInv, Table, GoodNodes
    <3>3. Occupied(p) /\ buckets[p].dib >= e
      BY <3>1 DEF MapInv, Table, RobinHood, Passed
    <3>4. Occupied(p)' /\ buckets'[p].dib >= e
      BY <1>5, <1>6, <3>2, <3>3
    <3> QED BY <3>1, <3>4 DEF Occupied
  <2> QED BY <2>1, <2>2, <2>3 DEF Table
<1>8. dict[key] # NoVal
  <2>1. DictOf(key)
    BY <1>1, <1>2, <1>4 DEF MapInv, DictInTable
  <2> QED BY <1>1, <1>3, <2>1 DEF DictOf, Absent
<1>9. ASSUME NEW k \in Keys PROVE DictOf(k)'
  <2>1. CASE k = key
    BY <1>1, <1>2, <1>3, <1>5, <1>6, <2>1 DEF DictOf, HoldsVal
  <2>2. CASE k # key
    <3>1. DictOf(k) /\ dict'[k] = dict[k]
      BY <1>2, <1>4, <2>2 DEF MapInv, DictInTable
    <3>2. Absent(k) => Absent(k)'
      BY <1>5, <1>6 DEF Absent
    <3>3. \A v : HoldsVal(k, v) => HoldsVal(k, v)'
      BY <1>3, <1>5, <1>6, <2>2 DEF HoldsVal
    <3> QED BY <3>1, <3>2, <3>3 DEF DictOf
  <2> QED BY <2>1, <2>2
<1>10. CountIs'
  BY <1>1, <1>2, <1>8, CountSame DEF MapInv
<1> QED BY <1>1, <1>4, <1>7, <1>9, <1>10, ReturnKeeps

(* A turn that only moves on. *)
LEMMA PassKeeps ==
  ASSUME MapAssumption, TypeOK, MapInv, InsertAdvance,
         ~(buckets[bucket_idx].dib < cur.dib)
  PROVE  MapInv'
<1> USE DEF MapAssumption
<1> PICK b : b = bucket_idx
  OBVIOUS
<1> PICK c : c = cur
  OBVIOUS
<1>1. /\ pc = "insert" /\ pc' = "insert" /\ Occupied(b) /\ b \in Slots
      /\ ~SameKey(buckets[b], key) /\ buckets' = buckets
      /\ cur' = [c EXCEPT !.dib = Bump(@)] /\ bucket_idx' = NextSlot(b)
      /\ UNCHANGED <<count, key, val, dict>> /\ key \in Keys
      /\ buckets[b].dib \in Nat /\ c.dib \in Nat /\ buckets[b].dib >= c.dib
  BY DEF InsertAdvance, Occupied, TypeOK, Node
<1>2. /\ c.key \in Keys /\ c.hash = HashOf[c.key] /\ c.val \in Vals /\ ~c.tomb
      /\ (c.key = key => c.val = val) /\ Walked(c.key, c.dib)
  BY <1>1 DEF MapInv, InHand
<1>3. buckets[b].key # key
  BY <1>1, KeyIsEnough DEF MapInv, Table
<1>4. buckets[b].key # c.key
  BY <1>1, <1>3 DEF MapInv, Behind, Displaced, Absent
<1>5. /\ c.dib + 1 < Cap /\ Bump(c.dib) = c.dib + 1 /\ NextSlot(b) = Place(c.key, c.dib + 1)
  BY <1>1, <1>2, <1>4, LongerWalk DEF MapInv, Table
<1>6. /\ cur'.key = c.key /\ cur'.hash = c.hash /\ cur'.val = c.val /\ cur'.tomb = c.tomb
      /\ cur'.dib = c.dib + 1
  BY <1>1, <1>5 DEF TypeOK, Node
<1>7. Table'
  BY <1>1 DEF MapInv, Table, GoodNodes, NoTombs, OneNodeEach, RobinHood, Passed, Occupied, Place
<1>8. InHand'
  <2>1. \A e \in 0 .. ((c.dib + 1) - 1) :
          /\ ~IsEmpty(buckets[Place(c.key, e)]) /\ buckets[Place(c.key, e)].dib >= e
          /\ buckets[Place(c.key, e)].key # c.key
    <3> SUFFICES ASSUME NEW e \in 0 .. c.dib
                 PROVE  /\ ~IsEmpty(buckets[Place(c.key, e)])
                        /\ buckets[Place(c.key, e)].dib >= e
                        /\ buckets[Place(c.key, e)].key # c.key
      BY <1>1
    <3>1. CASE e = c.dib
      BY <1>1, <1>2, <1>4, <3>1 DEF Walked, Occupied
    <3>2. CASE e # c.dib
      <4>1. e \in 0 .. (c.dib - 1)
        BY <1>1, <3>2
      <4> QED BY <1>2, <4>1 DEF Walked, Passed, Occupied
    <3> QED BY <3>1, <3>2
  <2>2. bucket_idx' = Place(c.key, c.dib + 1)
    BY <1>1, <1>5
  <2> QED BY <1>1, <1>2, <1>6, <2>1, <2>2 DEF InHand, Walked, Passed, Occupied, Place
<1>9. Displaced' <=> Displaced
  BY <1>1, <1>6 DEF Displaced
<1>10. Behind'
  <2> SUFFICES ASSUME Displaced PROVE Behind'
    BY <1>9 DEF Behind
  <2>1. Absent(c.key)
    BY DEF MapInv, Behind
  <2>2. PICK j \in Slots, m \in Nat \ {0} :
          /\ Occupied(j) /\ buckets[j].key = key /\ buckets[j].val = val
          /\ b = (j + m) % Cap
          /\ \A t \in 0 .. (m - 1) : Occupied((j + t) % Cap)
    BY DEF MapInv, Behind
  <2>3. NextSlot(b) = (j + (m + 1)) % Cap
    <3>1. j + m \in Nat /\ 1 \in Nat /\ (j + m) + 1 = j + (m + 1)
      BY DEF Slots
    <3>2. (((j + m) % Cap) + 1) % Cap = ((j + m) + 1) % Cap
      BY <3>1, ModAdd, CapAssumption
    <3> QED BY <2>2, <3>1, <3>2 DEF NextSlot
  <2>4. \A t \in 0 .. ((m + 1) - 1) : Occupied((j + t) % Cap)
    <3>1. \A t \in 0 .. ((m + 1) - 1) : t = m \/ t \in 0 .. (m - 1)
      OBVIOUS
    <3> QED BY <1>1, <2>2, <3>1
  <2>5. m + 1 \in Nat \ {0}
    OBVIOUS
  <2> QED BY <1>1, <1>6, <2>1, <2>2, <2>3, <2>4, <2>5 DEF Behind, Absent, Occupied
<1>11. DictInTable'
  BY <1>1, <1>6, <1>9 DEF MapInv, DictInTable, DictOf, Absent, HoldsVal, Occupied
<1>12. CountIs'
  BY <1>1 DEF MapInv, CountIs
<1>13. Getting' /\ Quiet'
  BY <1>1 DEF Getting, Quiet
<1> QED BY <1>7, <1>8, <1>10, <1>11, <1>12, <1>13 DEF MapInv

(* A turn that exchanges the node in hand for a nearer one. *)
LEMMA SwapKeeps ==
  ASSUME MapAssumption, TypeOK, MapInv, InsertAdvance,
         buckets[bucket_idx].dib < cur.dib
  PROVE  MapInv'
<1> USE DEF MapAssumption
<1> PICK b : b = bucket_idx
  OBVIOUS
<1> PICK c : c = cur
  OBVIOUS
<1> PICK n : n = buckets[b]
  OBVIOUS
<1>1. /\ pc = "insert" /\ pc' = "insert" /\ Occupied(b) /\ b \in Slots
      /\ ~SameKey(n, key) /\ buckets' = [buckets EXCEPT ![b] = c]
      /\ cur' = [n EXCEPT !.dib = Bump(@)] /\ bucket_idx' = NextSlot(b)
      /\ UNCHANGED <<count, key, val, dict>> /\ key \in Keys
      /\ n \in Node /\ n.dib \in Nat /\ c.dib \in Nat /\ n.dib < c.dib
      /\ val \in Vals
  BY DEF InsertAdvance, Occupied, TypeOK, Node
<1>2. /\ c.key \in Keys /\ c.val \in Vals /\ (c.key = key => c.val = val)
      /\ Walked(c.key, c.dib)
  BY <1>1 DEF MapInv, InHand
<1>3. /\ n.key \in Keys /\ n.hash = HashOf[n.key] /\ n.val \in Vals /\ ~n.tomb
      /\ Place(n.key, n.dib) = b /\ Passed(n.key, n.dib) /\ n.dib < Cap
  BY <1>1 DEF MapInv, Table, GoodNodes, RobinHood, NoTombs
<1>4. Absent(c.key) /\ n.key # c.key
  <2>1. Absent(cur.key)
    BY <1>1, HandAbsent DEF MapInv
  <2> QED BY <1>1, <2>1 DEF Absent
<1>5. n.key # key
  BY <1>1, KeyIsEnough DEF MapInv, Table
<1>6. /\ Table' /\ \A i \in Slots : Occupied(i) => Occupied(i)' /\ buckets'[i].dib >= buckets[i].dib
  <2>1. c.dib < Cap
    BY <1>1, <1>2, ShortWalk DEF MapInv, Table
  <2> QED BY <1>1, <1>4, <2>1, NodePut DEF MapInv
<1>7. buckets'[b] = c /\ \A i \in Slots : i # b => buckets'[i] = buckets[i]
  BY <1>1 DEF TypeOK
<1>8. \A i \in Slots : Occupied(i)' <=> Occupied(i)
  BY <1>1, <1>6, <1>7 DEF Occupied
<1>9. /\ NextSlot(b) = Place(n.key, n.dib + 1) /\ Bump(n.dib) = n.dib + 1
  <2>1. n.dib + 1 < DibMod
    BY <1>1, <1>2, ShortWalk, WidthAssumption DEF MapInv, Table
  <2> QED BY <1>1, <1>3, <2>1, Places
<1>10. /\ cur'.key = n.key /\ cur'.hash = n.hash /\ cur'.val = n.val /\ cur'.tomb = n.tomb
       /\ cur'.dib = n.dib + 1
  BY <1>1, <1>9 DEF Node
<1>11. InHand'
  <2>1. \A e \in 0 .. ((n.dib + 1) - 1) :
          /\ ~IsEmpty(buckets'[Place(n.key, e)]) /\ buckets'[Place(n.key, e)].dib >= e
          /\ buckets'[Place(n.key, e)].key # n.key
    <3> SUFFICES ASSUME NEW e \in 0 .. n.dib
                 PROVE  /\ ~IsEmpty(buckets'[Place(n.key, e)])
                        /\ buckets'[Place(n.key, e)].dib >= e
                        /\ buckets'[Place(n.key, e)].key # n.key
      BY <1>1
    <3>1. CASE e = n.dib
      BY <1>1, <1>3, <1>4, <1>7, <1>8, <3>1 DEF Occupied
    <3>2. CASE e # n.dib
      <4> PICK p : p = Place(n.key, e)
        OBVIOUS
      <4>1. e \in 0 .. (n.dib - 1) /\ e \in Nat
        BY <1>1, <3>2
      <4>2. p \in Slots /\ p # b
        <5>1. n.dib < e + Cap
          BY <1>1, <1>3, <4>1, CapAssumption
        <5> QED BY <1>1, <1>3, <4>1, <5>1, Places
      <4>3. Occupied(p) /\ buckets[p].dib >= e
        BY <1>3, <4>1 DEF Passed
      <4>4. buckets[p].key # n.key
        BY <1>1, <4>2, <4>3 DEF MapInv, Table, OneNodeEach
      <4> QED BY <1>7, <4>2, <4>3, <4>4 DEF Occupied
    <3> QED BY <3>1, <3>2
  <2>2. bucket_idx' = Place(n.key, n.dib + 1)
    BY <1>1, <1>9
  <2> QED BY <1>1, <1>3, <1>5, <1>10, <2>1, <2>2 DEF InHand, Walked, Passed, Occupied, Place
<1>12. Displaced'
  BY <1>1, <1>5, <1>10 DEF Displaced
<1>13. Behind'
  <2>1. \A i \in Slots : Occupied(i)' => buckets'[i].key # n.key
    BY <1>1, <1>4, <1>7, <1>8 DEF MapInv, Table, OneNodeEach
  <2>2. \E j \in Slots, m \in Nat \ {0} :
          /\ Occupied(j)' /\ buckets'[j].key = key /\ buckets'[j].val = val
          /\ NextSlot(b) = (j + m) % Cap
          /\ \A t \in 0 .. (m - 1) : Occupied((j + t) % Cap)'
    <3>1. CASE c.key = key
      <4>1. \A t \in 0 .. (1 - 1) : (b + t) % Cap = b
        <5>1. b \in Nat /\ b + 0 = b /\ b \in 0 .. (Cap - 1) /\ b = Cap * 0 + b
          BY <1>1, CapAssumption DEF Slots
        <5>2. b % Cap = b
          BY <5>1, ModUnique, CapAssumption
        <5>3. \A t \in 0 .. (1 - 1) : t = 0
          OBVIOUS
        <5> QED BY <5>1, <5>2, <5>3
      <4>2. NextSlot(b) = (b + 1) % Cap /\ 1 \in Nat \ {0}
        BY DEF NextSlot
      <4> QED BY <1>1, <1>2, <1>7, <1>8, <3>1, <4>1, <4>2 DEF Occupied
    <3>2. CASE c.key # key
      <4> Displaced
        BY <1>1, <3>2 DEF Displaced
      <4>1. PICK j \in Slots, m \in Nat \ {0} :
              /\ Occupied(j) /\ buckets[j].key = key /\ buckets[j].val = val
              /\ bucket_idx = (j + m) % Cap
              /\ \A t \in 0 .. (m - 1) : Occupied((j + t) % Cap)
        BY DEF MapInv, Behind
      <4>2. j # b
        BY <4>1, NeverRound DEF MapInv
      <4>3. NextSlot(b) = (j + (m + 1)) % Cap
        <5>1. j + m \in Nat /\ 1 \in Nat /\ (j + m) + 1 = j + (m + 1)
          BY DEF Slots
        <5>2. (((j + m) % Cap) + 1) % Cap = ((j + m) + 1) % Cap
          BY <5>1, ModAdd, CapAssumption
        <5> QED BY <4>1, <5>1, <5>2 DEF NextSlot
      <4>4. \A t \in 0 .. ((m + 1) - 1) : Occupied((j + t) % Cap)'
        <5> SUFFICES ASSUME NEW t \in 0 .. ((m + 1) - 1) PROVE Occupied((j + t) % Cap)'
          OBVIOUS
        <5>1. j + t \in Nat
          BY DEF Slots
        <5>2. (j + t) % Cap \in Slots
          BY <5>1, ModInRange, CapAssumption DEF Slots
        <5>3. t = m \/ t \in 0 .. (m - 1)
          OBVIOUS
        <5>4. Occupied((j + t) % Cap)
          BY <1>1, <4>1, <5>3
        <5> QED BY <1>8, <5>2, <5>4
      <4>5. m + 1 \in Nat \ {0}
        OBVIOUS
      <4> QED BY <1>7, <1>8, <4>1, <4>2, <4>3, <4>4, <4>5
    <3> QED BY <3>1, <3>2
  <2> QED BY <1>1, <1>10, <2>1, <2>2 DEF Behind, Absent, Occupied
<1>14. DictInTable'
  <2>1. dict[n.key] = n.val
    <3>1. DictOf(n.key)
      BY <1>3, <1>4, <1>5 DEF MapInv, DictInTable
    <3>2. ~Absent(n.key)
      BY <1>1 DEF Absent
    <3> QED BY <1>1, <3>1, <3>2 DEF DictOf, HoldsVal, MapInv, Table, OneNodeEach
  <2>2. dict[key] = NoVal
    <3>1. CASE Displaced
      BY <1>1, <3>1 DEF MapInv, DictInTable
    <3>2. CASE ~Displaced
      BY <1>1, <1>4, <3>2 DEF MapInv, DictInTable, Displaced, DictOf, HoldsVal, Absent
    <3> QED BY <3>1, <3>2
  <2>3. ASSUME NEW k \in Keys, k # key, k # n.key PROVE DictOf(k)'
    <3>1. CASE k = c.key
      <4>1. dict[k] = c.val /\ c.val # NoVal
        BY <1>1, <1>2, <2>3, <3>1, NullAssumption DEF MapInv, DictInTable, Displaced
      <4> QED BY <1>1, <1>7, <1>8, <3>1, <4>1 DEF DictOf, HoldsVal
    <3>2. CASE k # c.key
      <4>1. DictOf(k)
        BY <2>3, <3>2 DEF MapInv, DictInTable
      <4>2. Absent(k) => Absent(k)'
        BY <1>7, <1>8, <3>2 DEF Absent
      <4>3. \A v : HoldsVal(k, v) => HoldsVal(k, v)'
        BY <1>7, <1>8, <2>3 DEF HoldsVal
      <4> QED BY <1>1, <4>1, <4>2, <4>3 DEF DictOf
    <3> QED BY <3>1, <3>2
  <2> QED BY <1>1, <1>10, <1>12, <2>1, <2>2, <2>3 DEF DictInTable
<1>15. CountIs'
  BY <1>1 DEF MapInv, CountIs
<1>16. Getting' /\ Quiet'
  BY <1>1 DEF Getting, Quiet
<1> QED BY <1>6, <1>11, <1>13, <1>14, <1>15, <1>16 DEF MapInv

(* The answer of hm_get. *)
LEMMA GetKeeps ==
  ASSUME MapAssumption, TypeOK, MapInv, GetHit \/ ProbeMiss
  PROVE  /\ MapInv' /\ pc = "get" /\ dict' = dict /\ key \in Keys
         /\ Return(dict[key])
<1> USE DEF MapAssumption
<1> PICK b : b = bucket_idx
  OBVIOUS
<1>1. /\ pc = "get" /\ b \in Slots /\ UNCHANGED <<buckets, count>> /\ key \in Keys
      /\ Walked(key, dib) /\ dib \in Nat
  BY DEF GetHit, ProbeMiss, MapInv, Quiet, TypeOK, Getting
<1>2. DictOf(key)
  BY <1>1 DEF MapInv, DictInTable, Displaced
<1>3. Return(dict[key])
  <2>1. CASE GetHit
    <3>1. Occupied(b) /\ SameKey(buckets[b], key) /\ Return(buckets[b].val)
      BY <2>1 DEF GetHit, Missing, Occupied
    <3>2. buckets[b].key = key
      BY <1>1, <3>1, KeyIsEnough DEF MapInv, Table
    <3>3. buckets[b].val = dict[key]
      BY <1>1, <1>2, <3>1, <3>2 DEF DictOf, Absent, HoldsVal, MapInv, Table, OneNodeEach
    <3> QED BY <3>1, <3>3
  <2>2. CASE ProbeMiss
    <3>1. Return(NoVal) /\ (IsEmpty(buckets[bucket_idx]) \/ dib > buckets[bucket_idx].dib)
      BY <1>1, <2>2 DEF ProbeMiss, Missing
    <3>2. Absent(key)
      BY <1>1, <3>1, NotFound DEF MapInv
    <3>3. dict[key] = NoVal
      BY <1>2, <3>2 DEF DictOf, Absent, HoldsVal
    <3> QED BY <3>1, <3>3
  <2> QED BY <2>1, <2>2
<1>4. dict' = dict
  BY <1>1, <1>3 DEF Return
<1>5. Table'
  BY <1>1 DEF MapInv, Table, GoodNodes, NoTombs, OneNodeEach, RobinHood, Passed, Occupied, Place
<1>6. CountIs'
  BY <1>1, <1>4 DEF MapInv, CountIs
<1>7. \A k \in Keys : DictOf(k)'
  <2>1. \A k \in Keys : DictOf(k)
    BY <1>1 DEF MapInv, DictInTable, Displaced
  <2> QED BY <1>1, <1>4, <2>1 DEF DictOf, Absent, HoldsVal, Occupied
<1> QED BY <1>1, <1>3, <1>4, <1>5, <1>6, <1>7, ReturnKeeps

(* hm_get goes on to the next bucket. *)
LEMMA ProbeKeeps ==
  ASSUME MapAssumption, TypeOK, MapInv, ProbeAdvance
  PROVE  MapInv' /\ pc = "get"
<1> USE DEF MapAssumption
<1> PICK b : b = bucket_idx
  OBVIOUS
<1> PICK d : d = dib
  OBVIOUS
<1>1. /\ pc = "get" /\ b \in Slots /\ key \in Keys /\ Walked(key, d) /\ d \in Nat
      /\ Occupied(b) /\ buckets[b].dib >= d /\ ~SameKey(buckets[b], key)
      /\ dib' = Bump(d) /\ bucket_idx' = NextSlot(b)
      /\ UNCHANGED <<buckets, count, pc, key, val, cur, ret, dict>>
  <2>1. buckets[b].dib \in Nat
    BY DEF TypeOK, Node
  <2> QED BY <2>1 DEF ProbeAdvance, Missing, Occupied, MapInv, Quiet, TypeOK, Getting
<1>2. buckets[b].key # key
  BY <1>1, KeyIsEnough DEF MapInv, Table
<1>3. NextSlot(b) = Place(key, d + 1) /\ Bump(d) = d + 1
  BY <1>1, <1>2, LongerWalk DEF MapInv, Table
<1>4. \A e \in 0 .. ((d + 1) - 1) :
        /\ ~IsEmpty(buckets[Place(key, e)]) /\ buckets[Place(key, e)].dib >= e
        /\ buckets[Place(key, e)].key # key
  <2> SUFFICES ASSUME NEW e \in 0 .. d
               PROVE  /\ ~IsEmpty(buckets[Place(key, e)]) /\ buckets[Place(key, e)].dib >= e
                      /\ buckets[Place(key, e)].key # key
    BY <1>1
  <2>1. CASE e = d
    BY <1>1, <1>2, <2>1 DEF Walked, Occupied
  <2>2. CASE e # d
    <3>1. e \in 0 .. (d - 1)
      BY <1>1, <2>2
    <3> QED BY <1>1, <3>1 DEF Walked, Passed, Occupied
  <2> QED BY <2>1, <2>2
<1>5. Getting'
  BY <1>1, <1>3, <1>4 DEF Getting, Walked, Passed, Occupied, Place
<1>6. Table'
  BY <1>1 DEF MapInv, Table, GoodNodes, NoTombs, OneNodeEach, RobinHood, Passed, Occupied, Place
<1>7. InHand' /\ Behind' /\ ~Displaced /\ ~Displaced'
  BY <1>1 DEF InHand, Behind, Displaced
<1>8. DictInTable'
  BY <1>1, <1>7 DEF MapInv, DictInTable, DictOf, Absent, HoldsVal, Occupied
<1>9. CountIs' /\ Quiet'
  BY <1>1 DEF MapInv, CountIs, Quiet
<1> QED BY <1>1, <1>5, <1>6, <1>7, <1>8, <1>9 DEF MapInv

(* The empty map. *)
LEMMA MapInvInit ==
  ASSUME MapAssumption, Init
  PROVE  MapInv
<1>1. \A i \in Slots : ~Occupied(i) /\ ~buckets[i].tomb
  BY DEF Init, Occupied, IsEmpty, ZeroNode
<1>2. Table /\ \A k : Absent(k)
  BY <1>1 DEF Table, GoodNodes, NoTombs, OneNodeEach, RobinHood, Absent
<1>3. InHand /\ Getting /\ Behind /\ Quiet /\ ~Displaced
  BY DEF Init, InHand, Getting, Behind, Quiet, Displaced
<1>4. DictInTable
  BY <1>2, <1>3 DEF Init, DictInTable, DictOf
<1>5. CountIs
  <2>1. {k \in Keys : dict[k] # NoVal} = {} /\ Cardinality({}) = 0 /\ count = 0
    BY FS_EmptySet DEF Init
  <2>2. 0 % SizeMod = 0
    BY WidthAssumption, ModUnique
  <2> QED BY <2>1, <2>2 DEF CountIs
<1> QED BY <1>2, <1>3, <1>4, <1>5 DEF MapInv

(* One step, by what it does: begin a call, carry on, return. *)
LEMMA MapInvStep ==
  ASSUME MapAssumption, TypeOK, MapInv, [Next]_vars
  PROVE  MapInv'
<1>1. ASSUME NEW k \in Keys, NEW v \in Vals, CallInsert(k, v) PROVE MapInv'
  BY <1>1, BeginKeeps DEF CallInsert
<1>2. ASSUME NEW k \in Keys, CallGet(k) PROVE MapInv'
  BY <1>2, BeginKeeps DEF CallGet
<1>3. ASSUME NEW k \in Keys, CallDelete(k) PROVE MapInv'
  BY <1>3, BeginKeeps DEF CallDelete
<1>4. CASE InsertAdvance
  BY <1>4, PassKeeps, SwapKeeps
<1>5. CASE DeleteHit
  BY <1>5 DEF DeleteHit, MapInv, Quiet
<1>6. CASE UNCHANGED vars
  <2>1. Table' /\ InHand' /\ Getting'
    BY <1>6 DEF vars, MapInv, Table, GoodNodes, NoTombs, OneNodeEach, RobinHood, Passed,
                Occupied, Place, InHand, Getting, Walked
  <2>2. Behind' /\ DictInTable' /\ CountIs' /\ Quiet'
    BY <1>6 DEF vars, MapInv, Behind, Displaced, Absent, Occupied, DictInTable, DictOf,
                HoldsVal, CountIs, Quiet
  <2> QED BY <2>1, <2>2 DEF MapInv
<1> QED
  BY <1>1, <1>2, <1>3, <1>4, <1>5, <1>6, PlaceKeeps, UpdateKeeps, GetKeeps, ProbeKeeps
  DEF Next, Step

(* The invariant of the table, from which the theorems below follow. *)
THEOREM MapInvariant ==
  ASSUME MapAssumption
  PROVE  Spec => [](TypeOK /\ MapInv)
<1>1. Init => MapInv
  BY MapInvInit
<1>2. TypeOK /\ MapInv /\ [Next]_vars => MapInv'
  BY MapInvStep
<1> QED BY <1>1, <1>2, TypeCorrect, PTL DEF Spec

(* Between two calls count is the number of keys in the map: hm_insert     *)
(* counts a new key once, at whatever turn its node or the last node it    *)
(* displaced comes to rest, and an update never.                           *)
THEOREM CountCorrect ==
  ASSUME MapAssumption
  PROVE  Spec => []CountMatches
<1>1. MapInv => CountMatches
  BY DEF MapInv, CountIs, CountMatches
<1> QED BY <1>1, MapInvariant, PTL

(* hm_get of a key that was inserted returns the value of its last insert. *)
THEOREM LiveKeyIsFound ==
  ASSUME MapAssumption
  PROVE  Spec => []LiveKeyFound
<1>1. Init => LiveKeyFound
  BY DEF Init, LiveKeyFound
<1>2. TypeOK /\ MapInv /\ LiveKeyFound /\ [Next]_vars => LiveKeyFound'
  <2> SUFFICES ASSUME TypeOK, MapInv, LiveKeyFound, [Next]_vars PROVE LiveKeyFound'
    OBVIOUS
  <2>1. CASE GetHit \/ ProbeMiss
    <3>1. ret' = [fn |-> "get", key |-> key, out |-> dict[key]] /\ dict' = dict
      BY <2>1, GetKeeps DEF Return
    <3> QED BY <3>1 DEF LiveKeyFound
  <2>2. CASE InsertPlace \/ InsertUpdate
    BY <2>2 DEF InsertPlace, InsertUpdate, Return, LiveKeyFound
  <2>3. CASE DeleteHit
    BY <2>3 DEF DeleteHit, MapInv, Quiet
  <2>4. CASE InsertAdvance \/ ProbeAdvance
    BY <2>4 DEF InsertAdvance, ProbeAdvance, LiveKeyFound
  <2>5. ASSUME NEW k \in Keys, NEW v \in Vals, CallInsert(k, v) PROVE LiveKeyFound'
    BY <2>5 DEF CallInsert, Begin, LiveKeyFound
  <2>6. ASSUME NEW k \in Keys, CallGet(k) \/ CallDelete(k) PROVE LiveKeyFound'
    BY <2>6 DEF CallGet, CallDelete, Begin, LiveKeyFound
  <2>7. CASE UNCHANGED vars
    BY <2>7 DEF vars, LiveKeyFound
  <2> QED BY <2>1, <2>2, <2>3, <2>4, <2>5, <2>6, <2>7 DEF Next, Step
<1> QED BY <1>1, <1>2, MapInvariant, PTL DEF Spec
-----------------------------------------------------------------------------
(* The refinement of the dictionary of hashmap.h. *)

(* The walk that Lookup describes. *)
LEMMA LookupIs ==
  ASSUME MapAssumption, TypeOK, Table, NEW k \in Keys
  PROVE  /\ Absent(k) => Lookup(k) = NoVal
         /\ \A v : HoldsVal(k, v) => Lookup(k) = v
<1> USE DEF MapAssumption
<1> DEFINE stops == {d \in 0 .. (DibMod - 1) : StopsAt(k, d)}
           first == CHOOSE d \in stops : \A e \in stops : d <= e
<1>1. \A d \in 0 .. (DibMod - 1) :
        /\ NodeAt(k, d) = buckets[Place(k, d)] /\ Place(k, d) \in Slots /\ d \in Nat
        /\ NodeAt(k, d).dib \in Nat
  <2> SUFFICES ASSUME NEW d \in 0 .. (DibMod - 1)
               PROVE  /\ NodeAt(k, d) = buckets[Place(k, d)]
                      /\ Place(k, d) \in Slots /\ d \in Nat /\ NodeAt(k, d).dib \in Nat
    OBVIOUS
  <2>1. d \in Nat
    OBVIOUS
  <2>2. Place(k, d) \in Slots
    BY <2>1, Places
  <2>3. NodeAt(k, d) = buckets[Place(k, d)]
    BY DEF NodeAt, Place
  <2> QED BY <2>1, <2>2, <2>3 DEF TypeOK, Node
<1>2. stops # {} => first \in stops /\ \A e \in stops : first <= e
  <2>1. stops \subseteq Nat
    OBVIOUS
  <2>2. stops # {} => \E d \in stops : \A e \in stops : d <= e
    BY <2>1, FirstExists
  <2> QED BY <2>2
<1>3. Lookup(k) =
        IF stops = {} \/ IsEmpty(NodeAt(k, first)) \/ first > NodeAt(k, first).dib
        THEN NoVal ELSE NodeAt(k, first).val
  BY DEF Lookup
<1>4. ASSUME Absent(k) PROVE Lookup(k) = NoVal
  <2>1. CASE stops = {}
    BY <1>3, <2>1
  <2>2. CASE stops # {}
    <3>1. first \in 0 .. (DibMod - 1) /\ StopsAt(k, first)
      BY <1>2, <2>2
    <3> HIDE DEF stops, first
    <3>2. ~IsEmpty(NodeAt(k, first)) => ~SameKey(NodeAt(k, first), k)
      BY <1>1, <1>4, <3>1 DEF Absent, Occupied, SameKey
    <3> QED BY <1>3, <3>1, <3>2 DEF StopsAt
  <2> QED BY <2>1, <2>2
<1>5. ASSUME NEW v, HoldsVal(k, v) PROVE Lookup(k) = v
  <2>1. PICK i \in Slots : Occupied(i) /\ buckets[i].key = k /\ buckets[i].val = v
    BY <1>5 DEF HoldsVal
  <2> DEFINE n == buckets[i].dib
  <2>2. /\ n \in 0 .. (DibMod - 1) /\ n < Cap /\ Place(k, n) = i /\ Passed(k, n)
        /\ SameKey(buckets[i], k)
    BY <2>1, KeyIsEnough DEF TypeOK, Node, Table, GoodNodes, RobinHood
  <2>3. NodeAt(k, n) = buckets[i] /\ NodeAt(k, n).dib = n
    BY <1>1, <2>2
  <2> HIDE DEF n
  <2>4. n \in stops
    BY <2>2, <2>3 DEF StopsAt
  <2>5. ASSUME NEW e \in 0 .. (n - 1) PROVE e \notin stops
    <3>1. e \in Nat /\ n < e + Cap /\ e \in 0 .. (DibMod - 1)
      BY <2>2, CapAssumption, WidthAssumption
    <3>2. Place(k, e) # i
      BY <2>2, <3>1, Places
    <3>3. Occupied(Place(k, e)) /\ buckets[Place(k, e)].dib >= e
      BY <2>2 DEF Passed
    <3>4. Place(k, e) \in Slots /\ NodeAt(k, e) = buckets[Place(k, e)]
          /\ NodeAt(k, e).dib \in Nat
      BY <1>1, <3>1
    <3>5. buckets[Place(k, e)].key # k
      BY <2>1, <3>2, <3>3, <3>4 DEF Table, OneNodeEach
    <3>6. ~SameKey(NodeAt(k, e), k) /\ ~IsEmpty(NodeAt(k, e)) /\ ~(e > NodeAt(k, e).dib)
      BY <3>1, <3>3, <3>4, <3>5 DEF SameKey, Occupied
    <3> QED BY <3>6 DEF StopsAt
  <2>6. first = n
    <3>1. first \in stops /\ first <= n
      BY <1>2, <2>4
    <3>2. first \in Nat /\ n \in Nat
      BY <2>2, <3>1
    <3> HIDE DEF first
    <3>3. ~(first < n)
      <4> SUFFICES ASSUME first < n PROVE FALSE
        OBVIOUS
      <4>1. first \in 0 .. (n - 1)
        BY <3>2
      <4> QED BY <2>5, <3>1, <4>1
    <3> QED BY <3>1, <3>2, <3>3
  <2> HIDE DEF stops, first
  <2>7. ~IsEmpty(buckets[i]) /\ ~(n > n)
    BY <2>1, <2>2 DEF Occupied
  <2> QED BY <1>3, <2>1, <2>3, <2>4, <2>6, <2>7
<1> QED BY <1>4, <1>5

(* What the walks find is what the calls said, and the value of the insert *)
(* in progress once its node is down.                                      *)
LEMMA AbsDictIs ==
  ASSUME MapAssumption, TypeOK, MapInv
  PROVE  AbsDict = IF Displaced THEN [dict EXCEPT ![key] = val] ELSE dict
<1> USE DEF MapAssumption
<1>1. AbsDict = [k \in Keys |-> IF Displaced /\ cur.key = k THEN cur.val ELSE Lookup(k)]
  <2>1. \A k \in Keys : (pc = "insert" /\ cur.key = k /\ k # key) <=> (Displaced /\ cur.key = k)
    BY DEF Displaced
  <2> QED BY <2>1 DEF AbsDict
<1>2. dict \in [Keys -> Vals \cup {NoVal}]
  BY DEF TypeOK
<1>3. ASSUME NEW k \in Keys, DictOf(k) PROVE Lookup(k) = dict[k]
  BY <1>3, LookupIs DEF DictOf, MapInv
<1>4. CASE ~Displaced
  BY <1>1, <1>2, <1>3, <1>4 DEF MapInv, DictInTable
<1>5. CASE Displaced
  <2>1. Lookup(key) = val /\ key \in Keys /\ cur.key # key
    <3>1. HoldsVal(key, val) /\ key \in Keys /\ cur.key # key
      BY <1>5 DEF MapInv, Behind, HoldsVal, Displaced, TypeOK
    <3> QED BY <3>1, LookupIs DEF MapInv
  <2>2. dict[cur.key] = cur.val
    BY <1>5 DEF MapInv, DictInTable, InHand, Displaced
  <2>3. \A k \in Keys \ {key, cur.key} : Lookup(k) = dict[k]
    BY <1>3 DEF MapInv, DictInTable
  <2>4. \A k \in Keys :
          (IF cur.key = k THEN cur.val ELSE Lookup(k)) = [dict EXCEPT ![key] = val][k]
    BY <1>2, <2>1, <2>2, <2>3
  <2> QED BY <1>1, <1>2, <1>5, <2>4
<1> QED BY <1>4, <1>5

(* Used with hm_insert and hm_get alone, on no more keys than buckets, the *)
(* table is the dictionary of hashmap.h at every turn of every loop: the   *)
(* value of a key changes at one turn of its insert and at no other, and   *)
(* every hm_get answers with the value of that moment.                     *)
THEOREM MapIsDictionary ==
  ASSUME MapAssumption
  PROVE  Spec => AbsMap!Safety
<1>1. TypeOK /\ MapInv => AbsDict = IF Displaced THEN [dict EXCEPT ![key] = val] ELSE dict
  BY AbsDictIs
<1>2. (TypeOK /\ MapInv)' =>
        (AbsDict = IF Displaced THEN [dict EXCEPT ![key] = val] ELSE dict)'
  BY <1>1, PTL
<1>3. Init => AbsMap!Init
  <2> SUFFICES ASSUME Init PROVE AbsMap!Init
    OBVIOUS
  <2>1. TypeOK /\ MapInv
    BY MapInvInit, TypeInit
  <2>2. ~Displaced
    BY DEF Init, Displaced
  <2> QED BY <1>1, <2>1, <2>2 DEF Init, AbsMap!Init, AbsMap!NoCall, AbsCall, Displaced
<1>4. TypeOK /\ MapInv /\ TypeOK' /\ MapInv' /\ [Next]_vars => [AbsMap!Next]_(AbsMap!kvVars)
  <2> SUFFICES ASSUME TypeOK, MapInv, TypeOK', MapInv', [Next]_vars
               PROVE  [AbsMap!Next]_(AbsMap!kvVars)
    OBVIOUS
  <2>1. AbsDict = IF Displaced THEN [dict EXCEPT ![key] = val] ELSE dict
    BY <1>1
  <2>2. AbsDict' = IF Displaced' THEN [dict' EXCEPT ![key'] = val'] ELSE dict'
    BY <1>2
  <2> HIDE DEF AbsDict
  <2>3. ASSUME NEW fn \in {"insert", "get"}, NEW k \in Keys, NEW v, NEW n, Begin(fn, k, v, n),
               fn = "insert" => n = NewNode(k, v)
        PROVE  AbsMap!Call(fn, k, v)
    <3>1. /\ pc = "idle" /\ pc' = fn /\ key' = k /\ val' = v /\ fn \in Calls
          /\ UNCHANGED <<dict, ret>> /\ key = NoKey /\ val = NoVal
      BY <2>3 DEF Begin, MapInv, Quiet
    <3>2. ~Displaced /\ ~Displaced'
      BY <2>3 DEF Displaced, Begin, NewNode
    <3>3. AbsDict' = AbsDict
      BY <2>1, <2>2, <3>1, <3>2
    <3> QED BY <3>1, <3>2, <3>3 DEF AbsMap!Call, AbsMap!NoCall, AbsCall, Displaced
  <2>4. ASSUME NEW k \in Keys, NEW v \in Vals, CallInsert(k, v) PROVE AbsMap!Next
    BY <2>3, <2>4 DEF CallInsert, AbsMap!Next
  <2>5. ASSUME NEW k \in Keys, CallGet(k) PROVE AbsMap!Next
    BY <2>3, <2>5 DEF CallGet, AbsMap!Next
  <2>6. ASSUME NEW k \in Keys, CallDelete(k) PROVE FALSE
    BY <2>6 DEF CallDelete, Begin, MapAssumption, NoDeletes
  <2>7. CASE InsertPlace \/ InsertUpdate
    <3>1. pc = "insert" /\ Return("ok")
      BY <2>7 DEF InsertPlace, InsertUpdate
    <3>2. /\ AbsCall' = AbsMap!NoCall /\ ~Displaced'
          /\ ret' = [fn |-> AbsCall.fn, key |-> AbsCall.key, out |-> "ok"]
      BY <3>1 DEF Return, AbsCall, AbsMap!NoCall, Displaced
    <3>3. dict' = [dict EXCEPT ![key] = val]
      BY <3>1 DEF Return
    <3>4. AbsDict' = IF Displaced THEN AbsDict
                     ELSE [AbsDict EXCEPT ![AbsCall.key] = AbsCall.val]
      BY <2>1, <2>2, <3>2, <3>3 DEF AbsCall
    <3>5. AbsMap!PutReturns
      BY <3>1, <3>2, <3>4 DEF AbsMap!PutReturns, AbsMap!Return, AbsCall, Displaced
    <3> QED BY <3>5 DEF AbsMap!Next, AbsMap!Respond
  <2>8. CASE InsertAdvance
    <3>1. /\ pc = "insert" /\ UNCHANGED <<pc, key, val, ret, dict>>
          /\ AbsCall' = AbsCall /\ AbsCall.fn = "insert"
          /\ AbsCall.key = key /\ AbsCall.val = val
      BY <2>8 DEF InsertAdvance, AbsCall
    <3>2. Displaced => Displaced'
      <4> SUFFICES ASSUME Displaced PROVE cur'.key # key
        BY <3>1 DEF Displaced
      <4>1. Occupied(bucket_idx) => buckets[bucket_idx].key # key
        BY NotMetAgain DEF MapInv, MapAssumption
      <4>2. Occupied(bucket_idx) /\ buckets[bucket_idx] \in Node /\ cur \in Node
        BY <2>8 DEF InsertAdvance, Occupied, TypeOK
      <4>3. cur'.key = buckets[bucket_idx].key \/ cur'.key = cur.key
        BY <2>8, <4>2 DEF InsertAdvance, Node
      <4> QED BY <4>1, <4>2, <4>3 DEF Displaced
    <3>3. CASE Displaced' <=> Displaced
      <4>1. AbsDict' = AbsDict
        BY <2>1, <2>2, <3>1, <3>3
      <4> QED BY <3>1, <3>3, <4>1 DEF AbsMap!kvVars, Displaced
    <3>4. CASE ~Displaced /\ Displaced'
      <4>1. AbsDict' = [AbsDict EXCEPT ![AbsCall.key] = AbsCall.val]
        BY <2>1, <2>2, <3>1, <3>4
      <4>2. AbsMap!TakeEffect
        BY <3>1, <3>4, <4>1 DEF AbsMap!TakeEffect, Displaced
      <4> QED BY <4>2 DEF AbsMap!Next
    <3> QED BY <3>2, <3>3, <3>4
  <2>9. CASE GetHit \/ ProbeMiss
    <3>1. pc = "get" /\ dict' = dict /\ Return(dict[key])
      BY <2>9, GetKeeps
    <3>2. /\ AbsCall' = AbsMap!NoCall /\ ~Displaced /\ ~Displaced'
          /\ ret' = [fn |-> AbsCall.fn, key |-> AbsCall.key, out |-> dict[AbsCall.key]]
          /\ AbsCall.fn = "get"
      BY <3>1 DEF Return, AbsCall, AbsMap!NoCall, Displaced
    <3>3. AbsDict' = AbsDict /\ AbsDict = dict
      BY <2>1, <2>2, <3>1, <3>2
    <3>4. AbsMap!GetReturns
      BY <3>2, <3>3 DEF AbsMap!GetReturns, AbsMap!Return, Displaced
    <3> QED BY <3>4 DEF AbsMap!Next, AbsMap!Respond
  <2>10. CASE DeleteHit
    BY <2>10 DEF DeleteHit, MapInv, Quiet
  <2>11. CASE ProbeAdvance
    <3>1. UNCHANGED <<pc, key, val, cur, ret, dict>>
      BY <2>11 DEF ProbeAdvance
    <3> QED BY <2>1, <2>2, <3>1 DEF AbsMap!kvVars, AbsCall, Displaced
  <2>12. CASE UNCHANGED vars
    <3>1. UNCHANGED <<pc, key, val, cur, ret, dict>>
      BY <2>12 DEF vars
    <3> QED BY <2>1, <2>2, <3>1 DEF AbsMap!kvVars, AbsCall, Displaced
  <2> QED BY <2>4, <2>5, <2>6, <2>7, <2>8, <2>9, <2>10, <2>11, <2>12 DEF Next, Step
<1> QED BY <1>3, <1>4, MapInvariant, PTL DEF Spec, AbsMap!Safety
-----------------------------------------------------------------------------
(* With deletes the table is no dictionary: a tombstone is read, and a key  *)
(* may have two nodes.  What hm_insert has just written is found still.     *)

OwnHash ==
  /\ \A i \in Slots : Occupied(i) =>
       buckets[i].key \in Keys /\ buckets[i].hash = HashOf[buckets[i].key]
  /\ pc = "insert" => cur.key \in Keys /\ cur.hash = HashOf[cur.key] /\ ~cur.tomb
\* a walk for k ends at distance e, on a node of k with value v
FoundAt(k, e, v) ==
  /\ \A d \in 0 .. (e - 1) : ~StopsAt(k, d)
  /\ ~IsEmpty(NodeAt(k, e)) /\ SameKey(NodeAt(k, e), k)
  /\ ~(e > NodeAt(k, e).dib) /\ NodeAt(k, e).val = v
NotYetDown ==
  pc = "insert" /\ ~Displaced =>
    /\ cur.val = val
    /\ \A d \in 0 .. (cur.dib - 1) : ~StopsAt(key, d) /\ ~NodeAt(key, d).tomb
\* no node on the walk to the new one may be replaced: none is a tombstone
FoundBehind ==
  Displaced =>
    \E e \in 0 .. (DibMod - 1) :
      FoundAt(key, e, val) /\ \A d \in 0 .. e : ~NodeAt(key, d).tomb
InsertInv == OwnHash /\ NotYetDown /\ FoundBehind

(* Where a walk ends is what Lookup finds. *)
LEMMA LookupFoundAt ==
  ASSUME NEW k, NEW e \in 0 .. (DibMod - 1), NEW v, FoundAt(k, e, v)
  PROVE  Lookup(k) = v
<1> DEFINE stops == {d \in 0 .. (DibMod - 1) : StopsAt(k, d)}
           first == CHOOSE d \in stops : \A x \in stops : d <= x
<1>1. e \in stops
  BY DEF FoundAt, StopsAt
<1>2. \A x \in stops : e <= x
  <2> SUFFICES ASSUME NEW x \in stops, x < e PROVE FALSE
    BY WidthAssumption
  <2>1. x \in 0 .. (e - 1)
    OBVIOUS
  <2> QED BY <2>1 DEF FoundAt
<1>3. first \in stops /\ first <= e
  BY <1>1, <1>2
<1>4. Lookup(k) =
        IF stops = {} \/ IsEmpty(NodeAt(k, first)) \/ first > NodeAt(k, first).dib
        THEN NoVal ELSE NodeAt(k, first).val
  BY DEF Lookup
<1>5. \A x \in stops : x \in Int
  BY WidthAssumption
<1> HIDE DEF stops, first
<1>6. first = e
  BY <1>1, <1>2, <1>3, <1>5
<1> QED BY <1>1, <1>4, <1>6 DEF FoundAt

(* What a write to one bucket leaves of a walk. *)
LEMMA WalkSurvives ==
  ASSUME TypeOK, NoZeroHash, NEW k \in Keys, NEW b \in Slots, NEW c \in Node,
         NEW d \in 0 .. (DibMod - 1), buckets' = [buckets EXCEPT ![b] = c],
         ~StopsAt(k, d), ~NodeAt(k, d).tomb,
         Place(k, d) = b => /\ ~IsEmpty(c) /\ ~SameKey(c, k) /\ ~c.tomb
                            /\ c.dib >= buckets[b].dib
  PROVE  ~StopsAt(k, d)' /\ ~NodeAt(k, d)'.tomb
<1>1. d \in Nat /\ Place(k, d) \in Slots /\ NodeAt(k, d) = buckets[Place(k, d)]
  BY Places DEF NodeAt, Place
<1>2. NodeAt(k, d)' = buckets'[Place(k, d)]
  BY DEF NodeAt, Place
<1>3. buckets'[Place(k, d)] = IF Place(k, d) = b THEN c ELSE buckets[Place(k, d)]
  BY <1>1 DEF TypeOK
<1>4. buckets[b].dib \in Nat /\ c.dib \in Nat
  BY DEF TypeOK, Node
<1>5. StopsAt(k, d)' <=> \/ IsEmpty(NodeAt(k, d)') \/ d > NodeAt(k, d)'.dib
                         \/ SameKey(NodeAt(k, d)', k)
  BY DEF StopsAt, IsEmpty, SameKey
<1> QED BY <1>1, <1>2, <1>3, <1>4, <1>5 DEF StopsAt

(* A write to one bucket, seen from the walk for k. *)
LEMMA FoundSurvives ==
  ASSUME TypeOK, NoZeroHash, NEW k \in Keys, NEW b \in Slots, NEW c \in Node,
         NEW e \in 0 .. (DibMod - 1), NEW v, buckets' = [buckets EXCEPT ![b] = c],
         FoundAt(k, e, v), \A d \in 0 .. e : ~NodeAt(k, d).tomb,
         SameKey(buckets[b], k) =>
           c.hash = buckets[b].hash /\ c.key = buckets[b].key /\ c.val = v
           /\ c.dib = buckets[b].dib /\ ~c.tomb,
         ~SameKey(buckets[b], k) =>
           \/ IsEmpty(buckets[b]) \/ buckets[b].tomb
           \/ ~IsEmpty(c) /\ ~SameKey(c, k) /\ ~c.tomb /\ c.dib >= buckets[b].dib
  PROVE  FoundAt(k, e, v)' /\ \A d \in 0 .. e : ~NodeAt(k, d)'.tomb
<1>1. \A d \in 0 .. e :
        /\ d \in 0 .. (DibMod - 1) /\ d \in Nat /\ Place(k, d) \in Slots
        /\ NodeAt(k, d) = buckets[Place(k, d)] /\ NodeAt(k, d)' = buckets'[Place(k, d)]
  <2> SUFFICES ASSUME NEW d \in 0 .. e
               PROVE  /\ d \in 0 .. (DibMod - 1) /\ d \in Nat /\ Place(k, d) \in Slots
                      /\ NodeAt(k, d) = buckets[Place(k, d)]
                      /\ NodeAt(k, d)' = buckets'[Place(k, d)]
    OBVIOUS
  <2>1. d \in 0 .. (DibMod - 1) /\ d \in Nat
    BY WidthAssumption
  <2> QED BY <2>1, Places DEF NodeAt, Place
<1>2. buckets \in [Slots -> Node] /\ \A i \in Slots : buckets'[i] = IF i = b THEN c ELSE buckets[i]
  BY DEF TypeOK
<1>3. e \in 0 .. e /\ \A d \in 0 .. (e - 1) : d \in 0 .. e
  BY WidthAssumption
<1>4. ASSUME NEW d \in 0 .. (e - 1) PROVE ~StopsAt(k, d)' /\ ~NodeAt(k, d)'.tomb
  <2>1. ~StopsAt(k, d) /\ ~NodeAt(k, d).tomb
    BY <1>3 DEF FoundAt
  <2>2. Place(k, d) = b => ~SameKey(buckets[b], k) /\ ~IsEmpty(buckets[b]) /\ ~buckets[b].tomb
    BY <1>1, <1>3, <2>1 DEF StopsAt
  <2> QED BY <1>1, <1>3, <2>1, <2>2, WalkSurvives
<1>5. /\ ~NodeAt(k, e).tomb /\ ~IsEmpty(NodeAt(k, e)) /\ SameKey(NodeAt(k, e), k)
      /\ ~(e > NodeAt(k, e).dib) /\ NodeAt(k, e).val = v
  BY <1>3 DEF FoundAt
<1>6. /\ ~NodeAt(k, e)'.tomb /\ ~IsEmpty(NodeAt(k, e)') /\ SameKey(NodeAt(k, e)', k)
      /\ ~(e > NodeAt(k, e)'.dib) /\ NodeAt(k, e)'.val = v
  <2> PICK p : p = Place(k, e)
    OBVIOUS
  <2>1. p \in Slots /\ NodeAt(k, e) = buckets[p] /\ NodeAt(k, e)' = buckets'[p]
    BY <1>1, <1>3
  <2>2. CASE p # b
    BY <1>2, <1>5, <2>1, <2>2
  <2>3. CASE p = b
    BY <1>2, <1>5, <2>1, <2>3 DEF SameKey, IsEmpty
  <2> QED BY <2>2, <2>3
<1>7. FoundAt(k, e, v)'
  BY <1>4, <1>6 DEF FoundAt, IsEmpty, SameKey
<1>8. \A d \in 0 .. e : d = e \/ d \in 0 .. (e - 1)
  BY WidthAssumption
<1> QED BY <1>4, <1>6, <1>7, <1>8

(* The new node is put down where the walk for its key ends from then on. *)
LEMMA FoundNow ==
  ASSUME TypeOK, NoZeroHash, InsertInv, DibIsDistance, pc = "insert", ~Displaced,
         NEW k \in Keys, k = key, NEW v, v = val, NEW b \in Slots, b = bucket_idx,
         NEW c \in Node, buckets' = [buckets EXCEPT ![b] = c],
         SameKey(c, k), ~IsEmpty(c), c.val = v, ~c.tomb,
         \/ c.dib = cur.dib
         \/ SameKey(buckets[b], k) /\ ~IsEmpty(buckets[b]) /\ c.dib = buckets[b].dib
  PROVE  \E e \in 0 .. (DibMod - 1) :
           FoundAt(k, e, v)' /\ \A d \in 0 .. e : ~NodeAt(k, d)'.tomb
<1> PICK D : D = cur.dib
  OBVIOUS
<1>1. D \in 0 .. (DibMod - 1) /\ D \in Nat /\ c.dib \in Nat /\ buckets[b].dib \in 0 .. (DibMod - 1)
      /\ D \in Int
  BY WidthAssumption DEF TypeOK, Node
<1>2. Place(k, D) = b
  BY DEF DibIsDistance, InsertInv, OwnHash, Displaced, Place
<1>3. \A d \in 0 .. (D - 1) : ~StopsAt(k, d) /\ ~NodeAt(k, d).tomb
  BY DEF InsertInv, NotYetDown
<1>4. c.dib >= D
  <2>1. CASE SameKey(buckets[b], k) /\ c.dib = buckets[b].dib /\ ~IsEmpty(buckets[b])
    <3> SUFFICES ASSUME c.dib < D PROVE FALSE
      BY <1>1
    <3>1. Place(k, c.dib) = b
      BY <2>1 DEF DibIsDistance, SameKey, Place
    <3>2. c.dib \in 0 .. (D - 1)
      BY <1>1
    <3>3. StopsAt(k, c.dib)
      BY <2>1, <3>1 DEF StopsAt, NodeAt, Place
    <3> QED BY <1>3, <3>2, <3>3
  <2>2. CASE c.dib = cur.dib
    BY <1>1, <2>2
  <2> QED BY <2>1, <2>2
<1> DEFINE S == {d \in 0 .. D : Place(k, d) = b}
<1>5. PICK e \in S : \A x \in S : e <= x
  <2>1. S \subseteq Nat /\ D \in S
    BY <1>1, <1>2
  <2> QED BY <2>1, FirstExists
<1>6. e \in 0 .. (DibMod - 1) /\ e \in Nat /\ e <= D /\ Place(k, e) = b
  BY <1>1, <1>5, WidthAssumption
<1>7. ASSUME NEW d \in 0 .. (e - 1) PROVE ~StopsAt(k, d)' /\ ~NodeAt(k, d)'.tomb
  <2>1. d \in 0 .. (DibMod - 1) /\ d \in 0 .. (D - 1) /\ d \in 0 .. D
    BY <1>1, <1>6, WidthAssumption
  <2>2. Place(k, d) # b
    BY <1>1, <1>5, <2>1
  <2> QED BY <1>3, <2>1, <2>2, WalkSurvives
<1>8. NodeAt(k, e)' = c
  <2>1. NodeAt(k, e)' = buckets'[Place(k, e)]
    BY DEF NodeAt, Place
  <2> QED BY <1>6, <2>1 DEF TypeOK
<1>9. FoundAt(k, e, v)'
  <2>1. ~(e > c.dib)
    BY <1>1, <1>4, <1>6
  <2> QED BY <1>7, <1>8, <2>1 DEF FoundAt, IsEmpty, SameKey
<1>10. \A d \in 0 .. e : d = e \/ d \in 0 .. (e - 1)
  BY <1>6
<1> QED BY <1>6, <1>7, <1>8, <1>9, <1>10

(* LookupFoundAt of the next state. *)
LEMMA LookupFoundAtNext ==
  (\A k \in Keys, e \in 0 .. (DibMod - 1), v \in Vals : FoundAt(k, e, v) => Lookup(k) = v)'
<1>1. \A k \in Keys, e \in 0 .. (DibMod - 1), v \in Vals : FoundAt(k, e, v) => Lookup(k) = v
  BY LookupFoundAt
<1> QED BY <1>1, PTL

(* An hm_insert that returns leaves its key where a walk finds it. *)
LEMMA ReturnFinds ==
  ASSUME TypeOK, NoZeroHash, InsertInv, DibIsDistance, InsertPlace \/ InsertUpdate
  PROVE  InsertedIsFound'
<1> PICK k : k = key
  OBVIOUS
<1> PICK v : v = val
  OBVIOUS
<1> PICK b : b = bucket_idx
  OBVIOUS
<1>1. /\ pc = "insert" /\ Return("ok") /\ k \in Keys /\ v \in Vals /\ b \in Slots
      /\ cur \in Node /\ buckets[b] \in Node
      /\ cur.key \in Keys /\ cur.hash = HashOf[cur.key] /\ ~cur.tomb /\ ~IsEmpty(cur)
      /\ HashOf[k] # 0
  BY DEF InsertPlace, InsertUpdate, TypeOK, InsertInv, OwnHash, NoZeroHash, IsEmpty
<1>2. ret'.key = k /\ dict'[k] = v
  BY <1>1, InsertSaid DEF Return
<1>3. \E e \in 0 .. (DibMod - 1) : FoundAt(k, e, v)'
  <2>1. CASE InsertPlace
    <3>1. /\ buckets' = [buckets EXCEPT ![b] = cur]
          /\ IsEmpty(buckets[b]) \/ buckets[b].tomb
      BY <2>1 DEF InsertPlace
    <3>2. CASE Displaced
      <4>1. PICK e \in 0 .. (DibMod - 1) :
              FoundAt(k, e, v) /\ \A d \in 0 .. e : ~NodeAt(k, d).tomb
        BY <3>2 DEF InsertInv, FoundBehind
      <4>2. CASE SameKey(buckets[b], k)
        <5>1. e \in 0 .. e /\ \A d \in 0 .. (e - 1) : d \in 0 .. e
          BY WidthAssumption
        <5>2. \A d \in 0 .. e : Place(k, d) # b /\ Place(k, d) \in Slots
          <6> SUFFICES ASSUME NEW d \in 0 .. e PROVE Place(k, d) # b /\ Place(k, d) \in Slots
            OBVIOUS
          <6>1. d \in Nat
            BY WidthAssumption
          <6>2. ~NodeAt(k, d).tomb /\ ~IsEmpty(NodeAt(k, d))
            <7>1. d = e \/ d \in 0 .. (e - 1)
              BY WidthAssumption
            <7> QED BY <4>1, <7>1 DEF FoundAt, StopsAt
          <6> QED BY <1>1, <3>1, <6>1, <6>2, Places DEF NodeAt, Place
        <5>3. \A d \in 0 .. e : NodeAt(k, d)' = NodeAt(k, d)
          <6> SUFFICES ASSUME NEW d \in 0 .. e PROVE NodeAt(k, d)' = NodeAt(k, d)
            OBVIOUS
          <6>1. NodeAt(k, d)' = buckets'[Place(k, d)] /\ NodeAt(k, d) = buckets[Place(k, d)]
            BY DEF NodeAt, Place
          <6> QED BY <3>1, <5>2, <6>1 DEF TypeOK
        <5> QED BY <4>1, <5>1, <5>3 DEF FoundAt, StopsAt, IsEmpty, SameKey
      <4>3. CASE ~SameKey(buckets[b], k)
        BY <1>1, <3>1, <4>1, <4>3, FoundSurvives
      <4> QED BY <4>2, <4>3
    <3>3. CASE ~Displaced
      <4>1. SameKey(cur, k) /\ cur.val = v
        BY <1>1, <3>3 DEF Displaced, SameKey, InsertInv, NotYetDown
      <4> QED BY <1>1, <3>1, <3>3, <4>1, FoundNow
    <3> QED BY <3>2, <3>3
  <2>2. CASE InsertUpdate
    <3> PICK c : c = [buckets[b] EXCEPT !.val = v]
      OBVIOUS
    <3>1. /\ buckets' = [buckets EXCEPT ![b] = c] /\ SameKey(buckets[b], k)
          /\ ~IsEmpty(buckets[b]) /\ ~buckets[b].tomb
      BY <2>2 DEF InsertUpdate
    <3>2. /\ c \in Node /\ c.hash = buckets[b].hash /\ c.key = buckets[b].key /\ c.val = v
          /\ c.dib = buckets[b].dib /\ ~c.tomb /\ ~IsEmpty(c) /\ SameKey(c, k)
      BY <1>1, <3>1 DEF Node, IsEmpty, SameKey
    <3>3. CASE Displaced
      <4>1. PICK e \in 0 .. (DibMod - 1) :
              FoundAt(k, e, v) /\ \A d \in 0 .. e : ~NodeAt(k, d).tomb
        BY <3>3 DEF InsertInv, FoundBehind
      <4> QED BY <1>1, <3>1, <3>2, <4>1, FoundSurvives
    <3>4. CASE ~Displaced
      BY <1>1, <3>1, <3>2, <3>4, FoundNow
    <3> QED BY <3>3, <3>4
  <2> QED BY <2>1, <2>2
<1>4. Lookup(k)' = v
  BY <1>1, <1>3, LookupFoundAtNext
<1>5. Lookup(ret.key)' = Lookup(k)'
  BY <1>2 DEF Lookup, StopsAt, NodeAt
<1> QED BY <1>2, <1>4, <1>5 DEF InsertedIsFound

(* The walk goes on, with the node in hand or with the one it replaces. *)
LEMMA AdvanceKeeps ==
  ASSUME TypeOK, NoZeroHash, InsertInv, DibIsDistance, InsertAdvance
  PROVE  InsertInv'
<1> PICK k : k = key
  OBVIOUS
<1> PICK v : v = val
  OBVIOUS
<1> PICK b : b = bucket_idx
  OBVIOUS
<1> PICK c : c = cur
  OBVIOUS
<1> PICK n : n = buckets[b]
  OBVIOUS
<1>1. /\ pc = "insert" /\ pc' = "insert" /\ key' = k /\ val' = v
      /\ k \in Keys /\ v \in Vals /\ b \in Slots /\ buckets \in [Slots -> Node]
      /\ c \in Node /\ n \in Node /\ c.dib \in 0 .. (DibMod - 1)
      /\ c.key \in Keys /\ c.hash = HashOf[c.key] /\ ~c.tomb /\ ~IsEmpty(c)
      /\ n.key \in Keys /\ n.hash = HashOf[n.key] /\ ~n.tomb /\ ~IsEmpty(n)
      /\ ~SameKey(n, k) /\ HashOf[k] # 0 /\ n.dib \in 0 .. (DibMod - 1)
  BY DEF InsertAdvance, TypeOK, InsertInv, OwnHash, NoZeroHash, IsEmpty, Occupied, Node
<1>2. CASE ~(n.dib < c.dib)
  <2>1. /\ buckets' = buckets /\ cur'.key = c.key /\ cur'.hash = c.hash /\ cur'.val = c.val
        /\ cur'.tomb = c.tomb /\ cur'.dib = Bump(c.dib)
    BY <1>1, <1>2 DEF InsertAdvance, Node
  <2>2. OwnHash'
    BY <1>1, <2>1 DEF InsertInv, OwnHash, Occupied
  <2>3. Displaced' <=> Displaced
    BY <1>1, <2>1 DEF Displaced
  <2>4. \A d : StopsAt(k, d)' = StopsAt(k, d) /\ NodeAt(k, d)' = NodeAt(k, d)
    BY <2>1 DEF StopsAt, NodeAt
  <2>5. NotYetDown'
    <3> SUFFICES ASSUME ~Displaced
                 PROVE  /\ c.val = v
                        /\ \A d \in 0 .. (Bump(c.dib) - 1) :
                             ~StopsAt(k, d) /\ ~NodeAt(k, d).tomb
      BY <1>1, <2>1, <2>3 DEF NotYetDown, StopsAt, NodeAt
    <3>1. c.val = v /\ \A d \in 0 .. (c.dib - 1) : ~StopsAt(k, d) /\ ~NodeAt(k, d).tomb
      BY <1>1 DEF InsertInv, NotYetDown
    <3>2. NodeAt(k, c.dib) = n
      BY <1>1 DEF DibIsDistance, Displaced, NodeAt
    <3>3. ~StopsAt(k, c.dib) /\ ~NodeAt(k, c.dib).tomb
      <4>1. ~(c.dib > n.dib)
        BY <1>1, <1>2, WidthAssumption
      <4> QED BY <1>1, <3>2, <4>1 DEF StopsAt
    <3>4. \A d \in 0 .. (Bump(c.dib) - 1) : d = c.dib \/ d \in 0 .. (c.dib - 1)
      <4>1. Bump(c.dib) = c.dib + 1 \/ Bump(c.dib) = 0
        <5>1. c.dib \in Nat /\ c.dib + 1 <= DibMod
          BY <1>1, WidthAssumption
        <5>2. CASE c.dib + 1 < DibMod
          BY <1>1, <5>1, <5>2, Places
        <5>3. CASE c.dib + 1 = DibMod
          <6>1. DibMod % DibMod = 0
            <7>1. DibMod = DibMod * 1 + 0 /\ 0 \in 0 .. (DibMod - 1) /\ DibMod \in Nat \ {0}
              BY WidthAssumption
            <7> QED BY <7>1, ModUnique
          <6> QED BY <5>3, <6>1 DEF Bump
        <5> QED BY <5>1, <5>2, <5>3, WidthAssumption
      <4> QED BY <1>1, <4>1, WidthAssumption
    <3> QED BY <3>1, <3>3, <3>4
  <2>6. FoundBehind'
    <3> SUFFICES ASSUME Displaced
                 PROVE  \E e \in 0 .. (DibMod - 1) :
                          FoundAt(k, e, v) /\ \A d \in 0 .. e : ~NodeAt(k, d).tomb
      BY <1>1, <2>1, <2>3 DEF FoundBehind, FoundAt, StopsAt, NodeAt
    <3> QED BY DEF InsertInv, FoundBehind
  <2> QED BY <2>2, <2>5, <2>6 DEF InsertInv
<1>3. CASE n.dib < c.dib
  <2>1. /\ buckets' = [buckets EXCEPT ![b] = c] /\ cur'.key = n.key /\ cur'.hash = n.hash
        /\ cur'.tomb = n.tomb
    BY <1>1, <1>3 DEF InsertAdvance, Node
  <2>2. OwnHash'
    <3>1. \A i \in Slots : buckets'[i] = IF i = b THEN c ELSE buckets[i]
      BY <1>1, <2>1
    <3> QED BY <1>1, <2>1, <3>1 DEF InsertInv, OwnHash, Occupied
  <2>3. Displaced'
    BY <1>1, <2>1 DEF Displaced, SameKey
  <2>4. \E e \in 0 .. (DibMod - 1) :
          FoundAt(k, e, v)' /\ \A d \in 0 .. e : ~NodeAt(k, d)'.tomb
    <3>1. CASE Displaced
      <4>1. PICK e \in 0 .. (DibMod - 1) :
              FoundAt(k, e, v) /\ \A d \in 0 .. e : ~NodeAt(k, d).tomb
        BY <3>1 DEF InsertInv, FoundBehind
      <4>2. ~SameKey(c, k) /\ c.dib >= n.dib
        BY <1>1, <1>3, <3>1, WidthAssumption DEF Displaced, SameKey
      <4> QED BY <1>1, <2>1, <4>1, <4>2, FoundSurvives
    <3>2. CASE ~Displaced
      <4>1. SameKey(c, k) /\ c.val = v
        BY <1>1, <3>2 DEF Displaced, SameKey, InsertInv, NotYetDown
      <4> QED BY <1>1, <2>1, <3>2, <4>1, FoundNow
    <3> QED BY <3>1, <3>2
  <2>5. FoundBehind'
    BY <1>1, <2>4 DEF FoundBehind, FoundAt, StopsAt, NodeAt
  <2>6. NotYetDown'
    BY <2>3 DEF NotYetDown
  <2> QED BY <2>2, <2>5, <2>6 DEF InsertInv
<1> QED BY <1>2, <1>3

(* The invariant of an insert. *)
LEMMA InsertInvStep ==
  ASSUME NoZeroHash, TypeOK, DibIsDistance, InsertInv, [Next]_vars
  PROVE  InsertInv'
<1>1. ASSUME pc' # "insert",
             \A i \in Slots : Occupied(i)' =>
               buckets'[i].key \in Keys /\ buckets'[i].hash = HashOf[buckets'[i].key]
      PROVE  InsertInv'
  BY <1>1 DEF InsertInv, OwnHash, NotYetDown, FoundBehind, Displaced
<1>2. ASSUME NEW k \in Keys, NEW v \in Vals, CallInsert(k, v) PROVE InsertInv'
  <2>1. /\ buckets' = buckets /\ pc' = "insert" /\ key' = k /\ val' = v
        /\ cur'.key = k /\ cur'.hash = HashOf[k] /\ ~cur'.tomb /\ cur'.val = v /\ cur'.dib = 0
    BY <1>2 DEF CallInsert, Begin, NewNode
  <2>2. \A d \in 0 .. (0 - 1) : FALSE
    OBVIOUS
  <2> QED BY <2>1, <2>2 DEF InsertInv, OwnHash, NotYetDown, FoundBehind, Displaced, Occupied
<1>3. ASSUME NEW k \in Keys, CallGet(k) \/ CallDelete(k) PROVE InsertInv'
  BY <1>1, <1>3 DEF CallGet, CallDelete, Begin, InsertInv, OwnHash, Occupied
<1>4. CASE InsertPlace
  <2>1. \A i \in Slots : buckets'[i] = IF i = bucket_idx THEN cur ELSE buckets[i]
    BY <1>4 DEF InsertPlace, TypeOK
  <2> QED BY <1>1, <1>4, <2>1 DEF InsertPlace, Return, InsertInv, OwnHash, Occupied
<1>5. CASE InsertUpdate
  <2>1. \A i \in Slots : buckets'[i].key = buckets[i].key /\ buckets'[i].hash = buckets[i].hash
    BY <1>5 DEF InsertUpdate, TypeOK, Node
  <2> QED BY <1>1, <1>5, <2>1 DEF InsertUpdate, Return, InsertInv, OwnHash, Occupied, IsEmpty
<1>6. CASE InsertAdvance
  BY <1>6, AdvanceKeeps
<1>7. CASE ProbeMiss \/ GetHit
  BY <1>1, <1>7 DEF ProbeMiss, GetHit, Return, InsertInv, OwnHash, Occupied
<1>8. CASE DeleteHit
  <2>1. \A i \in Slots : buckets'[i].key = buckets[i].key /\ buckets'[i].hash = buckets[i].hash
    BY <1>8 DEF DeleteHit, TypeOK, Node
  <2> QED BY <1>1, <1>8, <2>1 DEF DeleteHit, Return, InsertInv, OwnHash, Occupied, IsEmpty
<1>9. CASE ProbeAdvance
  BY <1>1, <1>9 DEF ProbeAdvance, InsertInv, OwnHash, Occupied
<1>10. CASE UNCHANGED vars
  BY <1>10 DEF vars, InsertInv, OwnHash, Occupied, NotYetDown, FoundBehind, Displaced,
               FoundAt, StopsAt, NodeAt
<1> QED BY <1>2, <1>3, <1>4, <1>5, <1>6, <1>7, <1>8, <1>9, <1>10 DEF Next, Step

(* When hm_insert returns, hm_get of its key would return its value, with  *)
(* any tombstones, stale duplicates and displaced nodes in the table: in   *)
(* every table of at most 65536 buckets, and in the server's of 2^20 while *)
(* no 65536 occupied buckets follow each other.                            *)
THEOREM InsertedFound ==
  ASSUME NoZeroHash
  PROVE  Spec => [](Roomy => InsertedIsFound)
<1> DEFINE FInv == Roomy => InsertInv /\ InsertedIsFound
<1>1. Init => FInv
  <2> SUFFICES ASSUME Init PROVE InsertInv /\ InsertedIsFound
    OBVIOUS
  <2>1. pc = "idle" /\ ret.fn = "none" /\ \A i \in Slots : ~Occupied(i)
    BY DEF Init, Occupied, IsEmpty, ZeroNode
  <2> QED BY <2>1 DEF InsertInv, OwnHash, NotYetDown, FoundBehind, Displaced, InsertedIsFound
<1>2. TypeOK /\ HandHash /\ (Roomy => DibIsDistance) /\ FInv /\ [Next]_vars => FInv'
  <2> SUFFICES ASSUME TypeOK, HandHash, Roomy => DibIsDistance, FInv, [Next]_vars, Roomy'
               PROVE  InsertInv' /\ InsertedIsFound'
    OBVIOUS
  <2>1. DibIsDistance /\ InsertInv /\ InsertedIsFound
    BY RoomyBefore
  <2>2. InsertInv'
    BY <2>1, InsertInvStep
  <2>3. CASE InsertPlace \/ InsertUpdate
    BY <2>1, <2>2, <2>3, ReturnFinds
  <2>4. CASE ProbeMiss \/ GetHit \/ DeleteHit
    BY <2>2, <2>4 DEF ProbeMiss, GetHit, DeleteHit, Return, InsertedIsFound
  <2>5. CASE InsertAdvance \/ ProbeAdvance
    BY <2>1, <2>2, <2>5 DEF InsertAdvance, ProbeAdvance, InsertedIsFound
  <2>6. ASSUME NEW k \in Keys, NEW v \in Vals, CallInsert(k, v)
        PROVE  InsertInv' /\ InsertedIsFound'
    BY <2>1, <2>2, <2>6 DEF CallInsert, Begin, InsertedIsFound
  <2>7. ASSUME NEW k \in Keys, CallGet(k) \/ CallDelete(k)
        PROVE  InsertInv' /\ InsertedIsFound'
    BY <2>1, <2>2, <2>7 DEF CallGet, CallDelete, Begin, InsertedIsFound
  <2>8. CASE UNCHANGED vars
    BY <2>1, <2>2, <2>8 DEF vars, InsertedIsFound, Lookup, StopsAt, NodeAt
  <2> QED BY <2>3, <2>4, <2>5, <2>6, <2>7, <2>8 DEF Next, Step
<1>3. Spec => []HandHash
  BY HandHashed
<1> QED BY <1>1, <1>2, <1>3, TypeCorrect, DistancesCorrect, PTL DEF Spec
=============================================================================
