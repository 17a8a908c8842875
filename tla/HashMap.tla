------------------------------ MODULE HashMap ------------------------------
(***************************************************************************)
(* The hash map of core/hashmap: one array of nodes, Robin Hood linear     *)
(* probing, deletion by tombstone, no resize.  A call of hm_insert is one  *)
(* step per turn of its for(;;) loop, because every turn may write a       *)
(* bucket; hm_get and hm_delete walk the same way and write at most once.  *)
(* Calls never overlap: every caller holds pool_mutex or owns the map.     *)
(***************************************************************************)
EXTENDS Naturals, FiniteSets

CONSTANTS
  Keys,     \* key strings
  Vals,     \* value pointers, none of them NULL
  Cap,      \* hm->capacity
  HashOf,   \* FNV_1a of each key
  DibMod,   \* 2^16, the width of hm_node.dib
  SizeMod,  \* 2^64, the width of hm->count
  Calls,    \* which of the three operations the caller uses
  NoKey,    \* the key of a node that calloc() zeroed
  NoVal     \* a NULL value

ASSUME CapAssumption   == Cap \in Nat \ {0}
ASSUME HashAssumption  == HashOf \in [Keys -> Nat]
ASSUME WidthAssumption == DibMod \in Nat \ {0, 1} /\ SizeMod \in Nat \ {0, 1}
ASSUME CallsAssumption == Calls \subseteq {"insert", "get", "delete"}
ASSUME NullAssumption  == NoKey \notin Keys /\ NoVal \notin Vals

VARIABLES
  buckets,     \* hm->buckets
  count,       \* hm->count
  pc,          \* "idle", or the operation whose loop is running
  key, val,    \* arguments of the running call
  cur,         \* hm_insert: the node in hand
  bucket_idx,  \* the bucket the loop looks at
  dib,         \* hm_get, hm_delete: distance walked so far
  ret,         \* the last call that returned, and what it returned
  dict         \* history: what the calls so far say the map holds

vars == <<buckets, count, pc, key, val, cur, bucket_idx, dib, ret, dict>>

Slots  == 0 .. (Cap - 1)
Hashes == {HashOf[k] : k \in Keys} \cup {0}
Node   == [hash : Hashes, key : Keys \cup {NoKey}, val : Vals \cup {NoVal},
           dib : 0 .. (DibMod - 1), tomb : BOOLEAN]

ZeroNode == [hash |-> 0, key |-> NoKey, val |-> NoVal, dib |-> 0, tomb |-> FALSE]
NewNode(k, v) ==
  [hash |-> HashOf[k], key |-> k, val |-> v, dib |-> 0, tomb |-> FALSE]

\* hash & (capacity - 1) and (bucket_idx + 1) & (capacity - 1): the capacity
\* is a power of two
Home(h)     == h % Cap
\* mutant: the mask is the capacity itself
Mut_NextSlot(i) == (i + 1) % (Cap + 1)
NextSlot(i) == (i + 1) % Cap
\* mutant: dib++ forgotten
Mut_Bump(d) == d
Bump(d)     == (d + 1) % DibMod

IsEmpty(n)    == n.hash = 0
SameKey(n, k) == n.hash = HashOf[k] /\ n.key = k
-----------------------------------------------------------------------------
Init ==
  /\ buckets = [i \in Slots |-> ZeroNode]
  /\ count = 0
  /\ pc = "idle"
  /\ key = NoKey /\ val = NoVal /\ cur = ZeroNode /\ bucket_idx = 0 /\ dib = 0
  /\ ret = [fn |-> "none", key |-> NoKey, out |-> "ok"]
  /\ dict = [k \in Keys |-> NoVal]

Begin(fn, k, v, node) ==
  /\ pc = "idle" /\ fn \in Calls
  /\ pc' = fn
  /\ key' = k /\ val' = v /\ cur' = node
  /\ bucket_idx' = Home(HashOf[k]) /\ dib' = 0
  /\ UNCHANGED <<buckets, count, ret, dict>>

CallInsert(k, v) == Begin("insert", k, v, NewNode(k, v))
CallGet(k)       == Begin("get", k, NoVal, ZeroNode)
CallDelete(k)    == Begin("delete", k, NoVal, ZeroNode)

\* the call returns; its local variables are gone
Return(out) ==
  /\ pc' = "idle"
  /\ ret' = [fn |-> pc, key |-> key, out |-> out]
  /\ dict' = CASE pc = "insert" -> [dict EXCEPT ![key] = val]
               [] pc = "delete" -> [dict EXCEPT ![key] = NoVal]
               [] OTHER         -> dict
  /\ key' = NoKey /\ val' = NoVal /\ cur' = ZeroNode /\ bucket_idx' = 0 /\ dib' = 0
-----------------------------------------------------------------------------
(* hm_insert: one turn of the loop. *)

\* mutant: the node in hand is dropped for the new one
Mut_PlaceNew ==
  /\ pc = "insert"
  /\ IsEmpty(buckets[bucket_idx]) \/ buckets[bucket_idx].tomb
  /\ buckets' = [buckets EXCEPT ![bucket_idx] = NewNode(key, val)]
  /\ count' = (count + 1) % SizeMod
  /\ Return("ok")
\* mutant: a node is placed as if at home
Mut_PlaceAtHome ==
  /\ pc = "insert"
  /\ IsEmpty(buckets[bucket_idx]) \/ buckets[bucket_idx].tomb
  /\ buckets' = [buckets EXCEPT ![bucket_idx] = [cur EXCEPT !.dib = 0]]
  /\ count' = (count + 1) % SizeMod
  /\ Return("ok")

InsertPlace ==
  /\ pc = "insert"
  /\ IsEmpty(buckets[bucket_idx]) \/ buckets[bucket_idx].tomb
  /\ buckets' = [buckets EXCEPT ![bucket_idx] = cur]
  /\ count' = (count + 1) % SizeMod
  /\ Return("ok")

\* mutant: an update is counted
Mut_UpdateCounts ==
  /\ pc = "insert"
  /\ ~IsEmpty(buckets[bucket_idx]) /\ ~buckets[bucket_idx].tomb
  /\ SameKey(buckets[bucket_idx], key)
  /\ buckets' = [buckets EXCEPT ![bucket_idx].val = val]
  /\ count' = (count + 1) % SizeMod
  /\ Return("ok")

\* compares with the key of the call, also when cur is a displaced node
InsertUpdate ==
  /\ pc = "insert"
  /\ ~IsEmpty(buckets[bucket_idx]) /\ ~buckets[bucket_idx].tomb
  /\ SameKey(buckets[bucket_idx], key)
  /\ buckets' = [buckets EXCEPT ![bucket_idx].val = val]
  /\ UNCHANGED count
  /\ Return("ok")

\* the node in hand takes the bucket of a node closer to its home
InsertAdvance ==
  LET node == buckets[bucket_idx]
      swap == node.dib < cur.dib
      next == IF swap THEN node ELSE cur
  IN /\ pc = "insert"
     /\ ~IsEmpty(node) /\ ~node.tomb /\ ~SameKey(node, key)
     /\ buckets' = IF swap THEN [buckets EXCEPT ![bucket_idx] = cur] ELSE buckets
     /\ cur' = [next EXCEPT !.dib = Bump(@)]
     /\ bucket_idx' = NextSlot(bucket_idx)
     /\ UNCHANGED <<count, pc, key, val, dib, ret, dict>>
-----------------------------------------------------------------------------
(* hm_get and hm_delete: the same walk, which sees through tombstones. *)

\* mutant: the walk ends one bucket early
Mut_Missing(node) == IsEmpty(node) \/ dib >= node.dib
Missing(node) == IsEmpty(node) \/ dib > node.dib

ProbeMiss ==
  /\ pc \in {"get", "delete"}
  /\ Missing(buckets[bucket_idx])
  /\ UNCHANGED <<buckets, count>>
  /\ Return(IF pc = "get" THEN NoVal ELSE "fail")

GetHit ==
  /\ pc = "get"
  /\ ~Missing(buckets[bucket_idx]) /\ SameKey(buckets[bucket_idx], key)
  /\ UNCHANGED <<buckets, count>>
  /\ Return(buckets[bucket_idx].val)

\* free_value is ignored: the value stays allocated
DeleteHit ==
  /\ pc = "delete"
  /\ ~Missing(buckets[bucket_idx]) /\ SameKey(buckets[bucket_idx], key)
  /\ buckets' = [buckets EXCEPT ![bucket_idx].tomb = TRUE]
  /\ count' = (count + SizeMod - 1) % SizeMod
  /\ Return("ok")

ProbeAdvance ==
  /\ pc \in {"get", "delete"}
  /\ ~Missing(buckets[bucket_idx]) /\ ~SameKey(buckets[bucket_idx], key)
  /\ dib' = Bump(dib)
  /\ bucket_idx' = NextSlot(bucket_idx)
  /\ UNCHANGED <<buckets, count, pc, key, val, cur, ret, dict>>
-----------------------------------------------------------------------------
Step == \/ InsertPlace \/ InsertUpdate \/ InsertAdvance
        \/ ProbeMiss \/ GetHit \/ DeleteHit \/ ProbeAdvance

Next ==
  \/ \E k \in Keys, v \in Vals : CallInsert(k, v)
  \/ \E k \in Keys : CallGet(k) \/ CallDelete(k)
  \/ Step

\* a caller need not call; a call that has begun runs on
Spec == Init /\ [][Next]_vars /\ WF_vars(Step)
-----------------------------------------------------------------------------
\* every variable stays in the range its C type and its callers give it: probing
\* never leaves the array (the capacity mask) and dib and count wrap at their widths
TypeOK ==
  /\ buckets \in [Slots -> Node]
  /\ count \in 0 .. (SizeMod - 1)
  /\ pc \in {"idle", "insert", "get", "delete"}
  /\ key \in Keys \cup {NoKey} /\ (pc # "idle" => key \in Keys)
  /\ val \in Vals \cup {NoVal} /\ (pc = "insert" => val \in Vals)
  /\ cur \in Node
  /\ bucket_idx \in Slots
  /\ dib \in 0 .. (DibMod - 1)
  /\ ret \in [fn : {"none", "insert", "get", "delete"}, key : Keys \cup {NoKey},
              out : Vals \cup {NoVal, "ok", "fail"}]
  /\ dict \in [Keys -> Vals \cup {NoVal}]

(* What a walk over a table that stands still finds: the first distance d  *)
(* at which it stops, and the value there if it stopped on the key.        *)
NodeAt(k, d) == buckets[(Home(HashOf[k]) + d) % Cap]
StopsAt(k, d) ==
  IsEmpty(NodeAt(k, d)) \/ d > NodeAt(k, d).dib \/ SameKey(NodeAt(k, d), k)
Lookup(k) ==
  LET stops == {d \in 0 .. (DibMod - 1) : StopsAt(k, d)}
      first == CHOOSE d \in stops : \A e \in stops : d <= e
      node  == NodeAt(k, first)
  IN IF stops = {} \/ IsEmpty(node) \/ first > node.dib THEN NoVal ELSE node.val

\* A node's dib is its distance from the home bucket of its hash, modulo the
\* capacity, and so is that of the node in hand: whatever swaps, wrap-arounds and
\* reused tombstones came before, the early exit "dib > node->dib" of hm_get and
\* hm_delete (hashmap.c:128, 155) never compares with a wrong distance.
DibIsDistance ==
  /\ \A i \in Slots : ~IsEmpty(buckets[i]) =>
       (Home(buckets[i].hash) + buckets[i].dib) % Cap = i
  /\ pc = "insert" => (Home(cur.hash) + cur.dib) % Cap = bucket_idx

\* When hm_insert returns, hm_get of that key would return that value
\* (hashmap.c:39 "insert or update kv-pair"), also on a table full of tombstones,
\* stale duplicates and displaced nodes.
InsertedIsFound ==
  (pc = "idle" /\ ret.fn = "insert") => Lookup(ret.key) = dict[ret.key]

\* hm_get of a key that was inserted and not deleted since returns the value of
\* its last insert, whatever was inserted in between (hashmap.h:73 "Retrieve
\* value for a given key").
LiveKeyFound ==
  (pc = "idle" /\ ret.fn = "get" /\ dict[ret.key] # NoVal) => ret.out = dict[ret.key]

\* Between two calls count is the number of keys in the map: an update of a
\* present key, however deep in its cluster, is never counted as a new entry, and
\* a displaced node is never counted twice (db_save writes count as the number
\* of entries, storage.c:59).
CountMatches ==
  pc = "idle" => count = Cardinality({k \in Keys : dict[k] # NoVal}) % SizeMod

-----------------------------------------------------------------------------
(* The dictionary of hashmap.h.  The value of a key is the one its walk     *)
(* finds, or the one of the displaced node that hm_insert holds.           *)
AbsDict ==
  [k \in Keys |->
     IF pc = "insert" /\ cur.key = k /\ k # key THEN cur.val ELSE Lookup(k)]
AbsCall == [fn |-> pc, key |-> key, val |-> val]

AbsMap == INSTANCE KVMap WITH
  dict <- AbsDict, call <- AbsCall, done <- (pc = "insert" /\ cur.key # key)

\* Used with hm_insert and hm_get alone, on no more keys than buckets, the Robin
\* Hood table behaves as a dictionary at every turn of every loop: no displaced
\* node is out of reach while it is in hand, and every call returns.
RefinesKVMap == AbsMap!Spec
=============================================================================
