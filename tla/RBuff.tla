------------------------------- MODULE RBuff -------------------------------
(***************************************************************************)
(* The ring of core/shard/ringbuffer between the threads that call         *)
(* db_insert and db_get and the worker thread of a shard.  One step is one *)
(* access to shared memory: a load of hp or rp, a slot, a store of hp or   *)
(* rp.  The indices are those of x86-64, where a relaxed load is a plain   *)
(* one; they grow without wrapping at 2^64.                                *)
(***************************************************************************)
EXTENDS Naturals, Sequences

CONSTANTS
  Writers,    \* threads that call rBuff_write
  Reqs,       \* proc_t pointers
  Cap,        \* r->cap, a power of two
  NoReq,      \* what malloc left in a slot; NULL
  MaxWrites,  \* bound: no write starts once so many have returned true
  MaxReads    \* bound: no read starts once so many have returned a request

ASSUME CapAssumption    == Cap \in Nat \ {0, 1}
ASSUME ReqsAssumption   == NoReq \notin Reqs
ASSUME BoundsAssumption == MaxWrites \in Nat /\ MaxReads \in Nat

VARIABLES
  hp, rp,    \* next index to write, next index to read
  proc,      \* r->proc
  wpc,       \* per writer: the next access of its rBuff_write, or "idle"
  whp, wrp,  \* per writer: its local hp and rp
  p,         \* per writer: the request it pushes
  accepted,  \* history: writes that returned true
  rpc,       \* the next access of rBuff_read, or "idle"
  rhp, rrp,  \* the reader's local hp and rp
  rval,      \* the slot it has read
  out        \* history: the request it returned last

writer == <<wpc, whp, wrp, p>>
reader == <<rpc, rhp, rrp, rval>>
vars   == <<hp, rp, proc, writer, accepted, reader, out>>

Slot(i) == i % Cap  \* i & (cap - 1)

\* rBuff_init
Init ==
  /\ hp = 0 /\ rp = 0
  /\ proc = [i \in 0 .. (Cap - 1) |-> NoReq]
  /\ wpc = [w \in Writers |-> "idle"]
  /\ whp = [w \in Writers |-> 0] /\ wrp = [w \in Writers |-> 0]
  /\ p = [w \in Writers |-> NoReq]
  /\ accepted = 0
  /\ rpc = "idle" /\ rhp = 0 /\ rrp = 0 /\ rval = NoReq
  /\ out = NoReq
-----------------------------------------------------------------------------
(* rBuff_write *)

WriteLoadHp(w, r) ==
  /\ wpc[w] = "idle" /\ accepted < MaxWrites
  /\ p' = [p EXCEPT ![w] = r]
  /\ whp' = [whp EXCEPT ![w] = hp]
  /\ wpc' = [wpc EXCEPT ![w] = "rp"]
  /\ UNCHANGED <<hp, rp, proc, wrp, accepted, reader, out>>

WriteLoadRp(w) ==
  /\ wpc[w] = "rp"
  /\ wrp' = [wrp EXCEPT ![w] = rp]
  /\ wpc' = [wpc EXCEPT ![w] = "check"]
  /\ UNCHANGED <<hp, rp, proc, whp, p, accepted, reader, out>>

\* the masked next index against the unmasked rp
\* mutant: the last slot is used too
Mut_FullAtCap(w) == whp[w] = wrp[w] + Cap
\* mutant: one slot too early
Mut_FullEarly(w) == Slot(whp[w] + 2) = wrp[w]
LooksFull(w) == Slot(whp[w] + 1) = wrp[w]

WriteReturnFalse(w) ==
  /\ wpc[w] = "check" /\ LooksFull(w)
  /\ wpc' = [wpc EXCEPT ![w] = "idle"]
  /\ UNCHANGED <<hp, rp, proc, whp, wrp, p, accepted, reader, out>>

WriteSlot(w) ==
  /\ wpc[w] = "check" /\ ~LooksFull(w)
  /\ proc' = [proc EXCEPT ![Slot(whp[w])] = p[w]]
  /\ wpc' = [wpc EXCEPT ![w] = "hp"]
  /\ UNCHANGED <<hp, rp, whp, wrp, p, accepted, reader, out>>

WriteStoreHp(w) ==
  /\ wpc[w] = "hp"
  /\ hp' = whp[w] + 1
  /\ accepted' = accepted + 1
  /\ wpc' = [wpc EXCEPT ![w] = "idle"]
  /\ UNCHANGED <<rp, proc, whp, wrp, p, reader, out>>
-----------------------------------------------------------------------------
(* rBuff_read *)

ReadLoadHp ==
  /\ rpc = "idle" /\ rp < MaxReads
  /\ rhp' = hp
  /\ rpc' = "rp"
  /\ UNCHANGED <<hp, rp, proc, writer, accepted, rrp, rval, out>>

ReadLoadRp ==
  /\ rpc = "rp"
  /\ rrp' = rp
  /\ rpc' = "check"
  /\ UNCHANGED <<hp, rp, proc, writer, accepted, rhp, rval, out>>

ReadReturnNull ==
  /\ rpc = "check" /\ rrp = rhp
  /\ rpc' = "idle"
  /\ UNCHANGED <<hp, rp, proc, writer, accepted, rhp, rrp, rval, out>>

\* mutant: the slot after the oldest
Mut_ReadNext ==
  /\ rpc = "check" /\ rrp # rhp
  /\ rval' = proc[Slot(rrp + 1)]
  /\ rpc' = "store"
  /\ UNCHANGED <<hp, rp, proc, writer, accepted, rhp, rrp, out>>

ReadSlot ==
  /\ rpc = "check" /\ rrp # rhp
  /\ rval' = proc[Slot(rrp)]
  /\ rpc' = "store"
  /\ UNCHANGED <<hp, rp, proc, writer, accepted, rhp, rrp, out>>

\* mutant: one step back
Mut_StoreBack ==
  /\ rpc = "store"
  /\ rp' = rrp - 1
  /\ out' = rval
  /\ rpc' = "idle"
  /\ UNCHANGED <<hp, proc, writer, accepted, rhp, rrp, rval>>
\* mutant: the index is not stored
Mut_NoStore ==
  /\ rpc = "store"
  /\ out' = rval
  /\ rpc' = "idle"
  /\ UNCHANGED <<hp, rp, proc, writer, accepted, rhp, rrp, rval>>

ReadStoreRp ==
  /\ rpc = "store"
  /\ rp' = rrp + 1
  /\ out' = rval
  /\ rpc' = "idle"
  /\ UNCHANGED <<hp, proc, writer, accepted, rhp, rrp, rval>>
-----------------------------------------------------------------------------
Write(w) == \/ \E r \in Reqs : WriteLoadHp(w, r)
            \/ WriteLoadRp(w) \/ WriteReturnFalse(w) \/ WriteSlot(w) \/ WriteStoreHp(w)
Read == ReadLoadHp \/ ReadLoadRp \/ ReadReturnNull \/ ReadSlot \/ ReadStoreRp

Next == Read \/ \E w \in Writers : Write(w)

\* the worker polls for ever (shard.c:74); a writer need not call
Spec == Init /\ [][Next]_vars /\ WF_vars(Read)
-----------------------------------------------------------------------------
\* indices count up, slots hold requests, every thread is at one of its accesses
TypeOK ==
  /\ hp \in Nat /\ rp \in Nat
  /\ proc \in [0 .. (Cap - 1) -> Reqs \cup {NoReq}]
  /\ wpc \in [Writers -> {"idle", "rp", "check", "hp"}]
  /\ whp \in [Writers -> Nat] /\ wrp \in [Writers -> Nat]
  /\ p \in [Writers -> Reqs \cup {NoReq}]
  /\ accepted \in Nat
  /\ rpc \in {"idle", "rp", "check", "store"}
  /\ rhp \in Nat /\ rrp \in Nat /\ rval \in Reqs \cup {NoReq}
  /\ out \in Reqs \cup {NoReq}

\* Until the reader has gone once round the array, a writer never takes the last
\* free slot, however stale the rp it compared with (ringbuffer.c:13-21).
FirstLapRoom == rp < Cap => rp <= hp /\ hp - rp <= Cap - 1

\* Until the reader has gone once round the array, rBuff_write returns false
\* only if Cap - 1 requests were waiting when it read rp (ringbuffer.c:21): a
\* stale index never refuses a request for which there was room.
FalseMeansFull ==
  [][\A w \in Writers : (WriteReturnFalse(w) /\ wrp[w] < Cap)
        => whp[w] - wrp[w] = Cap - 1]_vars

\* Every request that rBuff_write put in the ring is fetched from it in the end
\* (shard_worker polls without pause, shard.c:74-76).
EveryIndexRead == \A n \in 0 .. (MaxReads - 1) : hp > n ~> rp > n

\* A full ring keeps its unread requests: a writer stops at Cap - 1 of them
\* (shard.c:169 "push request (spin until space)").
UnreadKept == hp - rp <= Cap - 1

-----------------------------------------------------------------------------
(* The bounded queue.  A request is in it from the store of hp on, until   *)
(* the store of rp.                                                        *)
Queue == [i \in 1 .. (hp - rp) |-> proc[Slot(rp + i - 1)]]

AbsFifo == INSTANCE Fifo WITH queue <- Queue, Room <- Cap - 1

\* One writer and one reader that has not gone round the array: the ring hands
\* over exactly the requests pushed, each once, in order, and never holds more
\* than Cap - 1.
RefinesFifo == AbsFifo!Spec
=============================================================================
