------------------------------- MODULE Shard -------------------------------
(***************************************************************************)
(* The sharded engine above its rings: threads that call db_insert and     *)
(* db_get, and the thread of each shard, with a map and two arenas of its  *)
(* own.  What goes through a ring is a pointer to a request on the         *)
(* caller's stack.                                                         *)
(*                                                                         *)
(* A push and a fetch are one step each; RBuff has their parts.  Nothing   *)
(* issues OP_DEL.                                                          *)
(***************************************************************************)
EXTENDS Integers, FiniteSets

CONSTANTS
  Callers,     \* threads of the application
  Keys, Vals,
  NoVal,       \* NULL
  Shards,
  ShardOf,     \* djb2 of a key modulo NSLAVE
  Cap,         \* slots of a ring
  IdxMod,      \* 2^64: what an index wraps at
  ArenaSize,   \* how many entries the arenas of a shard hold
  MaxCalls     \* bound: calls of the application

VARIABLES
  up,          \* the process is there
  \* per shard
  hp, rp, slot,  \* the ring
  map,           \* its map
  used,          \* entries in its arenas
  wpc, hand,     \* shard_worker, and its p
  \* per caller
  pc, calls,
  frame          \* per caller and function: what its stack frame holds

ringVars   == <<hp, rp, slot>>
workerVars == <<map, used, wpc, hand>>
callerVars == <<pc, calls, frame>>
vars == <<up, ringVars, workerVars, callerVars>>

\* a request lies in the frame of one of these
Functions == {"db_insert", "db_get"}
Pointer   == Callers \X Functions
NoPointer == <<>>

Init ==
  /\ up = TRUE
  /\ hp = [s \in Shards |-> 0] /\ rp = [s \in Shards |-> 0]
  /\ slot = [s \in Shards |-> [i \in 0 .. (Cap - 1) |-> NoPointer]]
  /\ map = [s \in Shards |-> [k \in Keys |-> NoVal]]
  /\ used = [s \in Shards |-> 0]
  /\ wpc = [s \in Shards |-> "poll"] /\ hand = [s \in Shards |-> NoPointer]
  /\ pc = [t \in Callers |-> "idle"] /\ calls = 0
  /\ frame = [p \in Pointer |-> [live |-> FALSE, key |-> CHOOSE k \in Keys : TRUE,
                                 val |-> NoVal, done |-> FALSE]]
-----------------------------------------------------------------------------
(* rBuff_write: the full test masks hp + 1 and not rp. *)

LooksFull(s) == (hp[s] + 1) % Cap = rp[s]
Push(s, p) ==
  /\ slot' = [slot EXCEPT ![s][hp[s] % Cap] = p]
  /\ hp' = [hp EXCEPT ![s] = (@ + 1) % IdxMod]
  /\ UNCHANGED rp
-----------------------------------------------------------------------------
(* The application. *)

Request(t, f, k, v, next) ==
  /\ up /\ pc[t] = "idle" /\ calls < MaxCalls
  /\ calls' = calls + 1
  /\ pc' = [pc EXCEPT ![t] = next]
  /\ frame' = [frame EXCEPT ![<<t, f>>] = [live |-> TRUE, key |-> k, val |-> v, done |-> FALSE]]
  /\ UNCHANGED <<up, ringVars, workerVars>>

CallInsert(t, k, v) == Request(t, "db_insert", k, v, "insert")
CallGet(t, k)       == Request(t, "db_get", k, NoVal, "push")

Return(t, f) ==
  /\ pc' = [pc EXCEPT ![t] = "idle"]
  /\ frame' = [frame EXCEPT ![<<t, f>>].live = FALSE]

\* one push, whose result is ignored
InsertReturn(t) ==
  /\ up /\ pc[t] = "insert"
  /\ LET p == <<t, "db_insert">>
         s == ShardOf[frame[p].key]
     IN IF LooksFull(s) THEN UNCHANGED ringVars ELSE Push(s, p)
  /\ Return(t, "db_insert")
  /\ UNCHANGED <<up, workerVars, calls>>

\* the loop goes on while rBuff_write returns true, which is its success
GetPush(t) ==
  /\ up /\ pc[t] = "push"
  /\ LET p == <<t, "db_get">>
         s == ShardOf[frame[p].key]
     IN IF LooksFull(s)
        THEN pc' = [pc EXCEPT ![t] = "wait"] /\ UNCHANGED ringVars
        ELSE Push(s, p) /\ UNCHANGED pc
  /\ UNCHANGED <<up, workerVars, calls, frame>>

GetReturn(t) ==
  /\ up /\ pc[t] = "wait" /\ frame[<<t, "db_get">>].done
  /\ Return(t, "db_get")
  /\ UNCHANGED <<up, ringVars, workerVars, calls>>

Call(t) == InsertReturn(t) \/ GetPush(t) \/ GetReturn(t)
-----------------------------------------------------------------------------
(* shard_worker.  A frame that its function has left may still hold the      *)
(* request or be overwritten; what the worker then reads makes it crash.     *)

WGoto(s, from, to) == up /\ wpc[s] = from /\ wpc' = [wpc EXCEPT ![s] = to]
Crash == up' = FALSE /\ UNCHANGED <<ringVars, workerVars, callerVars>>

\* rBuff_read
Fetch(s) ==
  /\ WGoto(s, "poll", "run")
  /\ hp[s] # rp[s]
  /\ hand' = [hand EXCEPT ![s] = slot[s][rp[s] % Cap]]
  /\ rp' = [rp EXCEPT ![s] = (@ + 1) % IdxMod]
  /\ UNCHANGED <<up, hp, slot, map, used, callerVars>>

\* copies into the arenas, then hm_insert
RunPut(s) ==
  /\ WGoto(s, "run", "status") /\ hand[s][2] = "db_insert"
  /\ used[s] < ArenaSize
  /\ used' = [used EXCEPT ![s] = @ + 1]
  /\ map' = [map EXCEPT ![s][frame[hand[s]].key] = frame[hand[s]].val]
  /\ UNCHANGED <<up, ringVars, hand, callerVars>>

\* arena_alloc returns NULL, and the copy goes there
RunPutNoRoom(s) ==
  /\ up /\ wpc[s] = "run" /\ hand[s][2] = "db_insert"
  /\ used[s] = ArenaSize
  /\ Crash

\* *p->out_val is the frame's result, overwritten in val
RunGet(s) ==
  /\ WGoto(s, "run", "status") /\ hand[s][2] = "db_get"
  /\ frame' = [frame EXCEPT ![hand[s]].val = map[s][frame[hand[s]].key]]
  /\ UNCHANGED <<up, ringVars, map, used, hand, pc, calls>>

\* the frame is gone
RunStale(s) ==
  /\ up /\ wpc[s] = "run" /\ ~frame[hand[s]].live
  /\ Crash

\* db_insert sets no status: *p->status is a write to NULL
StatusNull(s) ==
  /\ up /\ wpc[s] = "status" /\ hand[s][2] = "db_insert"
  /\ Crash

StatusDone(s) ==
  /\ WGoto(s, "status", "poll") /\ hand[s][2] = "db_get"
  /\ frame' = [frame EXCEPT ![hand[s]].done = TRUE]
  /\ hand' = [hand EXCEPT ![s] = NoPointer]
  /\ UNCHANGED <<up, ringVars, map, used, pc, calls>>

Work(s) == \/ Fetch(s) \/ RunPut(s) \/ RunPutNoRoom(s) \/ RunGet(s) \/ RunStale(s)
           \/ StatusNull(s) \/ StatusDone(s)
-----------------------------------------------------------------------------
Next ==
  \/ \E t \in Callers : Call(t) \/ \E k \in Keys : CallGet(t, k) \/ \E v \in Vals : CallInsert(t, k, v)
  \/ \E s \in Shards : Work(s)

\* every thread runs; the application need not call
Spec == /\ Init /\ [][Next]_vars
        /\ \A t \in Callers : WF_vars(Call(t))
        /\ \A s \in Shards : WF_vars(Work(s))
-----------------------------------------------------------------------------
\* db_get returns, unless the process dies first (shard.c:169 "push request (spin
\* until space)").
GetReturns == \A t \in Callers : pc[t] = "push" ~> (pc[t] = "idle" \/ ~up)
=============================================================================
