---------------------------- MODULE RBuffProofs ----------------------------
(***************************************************************************)
(* What holds of the ring for every capacity, every set of requests and    *)
(* every number of writes and reads, as long as one thread writes.         *)
(***************************************************************************)
EXTENDS RBuff, ProofLemmas, SequenceTheorems, TLAPS

(* A slot index is in the array. *)
LEMMA SlotInRange == \A i \in Nat : Slot(i) \in 0 .. (Cap - 1)
BY ModInRange, CapAssumption DEF Slot

(* Every variable keeps its type. *)
THEOREM TypeCorrect == Spec => []TypeOK
<1>1. Init => TypeOK
  BY DEF Init, TypeOK
<1>2. TypeOK /\ [Next]_vars => TypeOK'
  <2> SUFFICES ASSUME TypeOK, [Next]_vars PROVE TypeOK'
    OBVIOUS
  <2> USE DEF TypeOK
  <2>1. ASSUME NEW w \in Writers, NEW r \in Reqs, WriteLoadHp(w, r) PROVE TypeOK'
    BY <2>1 DEF WriteLoadHp, reader
  <2>2. ASSUME NEW w \in Writers, WriteLoadRp(w) PROVE TypeOK'
    BY <2>2 DEF WriteLoadRp, reader
  <2>3. ASSUME NEW w \in Writers, WriteReturnFalse(w) PROVE TypeOK'
    BY <2>3 DEF WriteReturnFalse, reader
  <2>4. ASSUME NEW w \in Writers, WriteSlot(w) PROVE TypeOK'
    BY <2>4 DEF WriteSlot, reader
  <2>5. ASSUME NEW w \in Writers, WriteStoreHp(w) PROVE TypeOK'
    BY <2>5 DEF WriteStoreHp, reader
  <2>6. CASE ReadLoadHp
    BY <2>6 DEF ReadLoadHp, writer
  <2>7. CASE ReadLoadRp
    BY <2>7 DEF ReadLoadRp, writer
  <2>8. CASE ReadReturnNull
    BY <2>8 DEF ReadReturnNull, writer
  <2>9. CASE ReadSlot
    BY <2>9, SlotInRange DEF ReadSlot, writer
  <2>10. CASE ReadStoreRp
    BY <2>10 DEF ReadStoreRp, writer
  <2>11. CASE UNCHANGED vars
    BY <2>11 DEF vars, writer, reader
  <2> QED BY <2>1, <2>2, <2>3, <2>4, <2>5, <2>6, <2>7, <2>8, <2>9, <2>10, <2>11
          DEF Next, Read, Write
<1> QED BY <1>1, <1>2, PTL DEF Spec
-----------------------------------------------------------------------------
(* The inductive invariant.  The reader trails the writer: it never moves   *)
(* past the hp it loaded.  The writer's hp is current, its rp old; room     *)
(* seen with an old rp below Cap is room that is still there.              *)

ReaderInv ==
  /\ rp <= hp
  /\ rpc # "idle" => rp <= rhp /\ rhp <= hp
  /\ rpc \in {"check", "store"} => rrp = rp
  /\ rpc = "store" => rrp < rhp

WriterInv(w) ==
  /\ wpc[w] # "idle" => whp[w] = hp
  /\ wpc[w] \in {"check", "hp"} => wrp[w] <= rp
  /\ (wpc[w] = "check" /\ wrp[w] < Cap) => hp - wrp[w] <= Cap - 1
  /\ (wpc[w] = "hp" /\ wrp[w] < Cap) => hp - wrp[w] <= Cap - 2

RingInv == ReaderInv /\ FirstLapRoom /\ \A w \in Writers : WriterInv(w)

(* With one writer, a write that found room had one slot more than it uses. *)
LEMMA RoomLeft ==
  ASSUME TypeOK, RingInv, NEW w \in Writers, wpc[w] = "check", wrp[w] < Cap
  PROVE  LooksFull(w) <=> whp[w] - wrp[w] = Cap - 1
<1> DEFINE h == whp[w]
           r == wrp[w]
<1>1. h \in Nat /\ r \in Nat /\ r <= h /\ r < Cap /\ h - r <= Cap - 1 /\ Cap \in Nat \ {0}
  <2>1. h \in Nat /\ r \in Nat /\ hp \in Nat /\ rp \in Nat /\ Cap \in Nat \ {0}
    BY CapAssumption DEF TypeOK
  <2>2. h = hp /\ r <= rp /\ rp <= hp /\ hp - r <= Cap - 1
    BY DEF RingInv, ReaderInv, WriterInv
  <2> QED BY <2>1, <2>2
<1> HIDE DEF h, r
<1>2. r % Cap = r
  <2>1. r \in 0 .. (Cap - 1) /\ r = Cap * 0 + r /\ 0 \in Nat
    BY <1>1
  <2> QED BY <1>1, <2>1, ModUnique
<1>3. CASE h - r = Cap - 1
  <2>1. h + 1 \in Nat /\ h + 1 = Cap * 1 + r /\ r \in 0 .. (Cap - 1) /\ 1 \in Nat
    BY <1>1, <1>3
  <2>2. (h + 1) % Cap = r
    BY <1>1, <2>1, ModUnique
  <2> QED BY <1>3, <2>2 DEF LooksFull, Slot, h, r
<1>4. CASE h - r # Cap - 1
  <2>1. h + 1 \in Nat /\ r < h + 1 /\ h + 1 < r + Cap
    BY <1>1, <1>4
  <2>2. r % Cap # (h + 1) % Cap
    BY <1>1, <2>1, ModDistinct
  <2> QED BY <1>2, <1>4, <2>2 DEF LooksFull, Slot, h, r
<1> QED BY <1>3, <1>4

(* The invariant is inductive. *)
LEMMA RingInvariant ==
  ASSUME NEW w0, Writers = {w0}
  PROVE  Spec => []RingInv
<1>1. Init => RingInv
  BY CapAssumption DEF Init, RingInv, ReaderInv, WriterInv, FirstLapRoom
<1>2. TypeOK /\ RingInv /\ [Next]_vars => RingInv'
  <2> SUFFICES ASSUME TypeOK, RingInv, [Next]_vars PROVE RingInv'
    OBVIOUS
  <2> USE CapAssumption DEF TypeOK, RingInv, ReaderInv, WriterInv, FirstLapRoom
  <2>1. ASSUME NEW w \in Writers, NEW r \in Reqs, WriteLoadHp(w, r) PROVE RingInv'
    BY <2>1 DEF WriteLoadHp, reader
  <2>2. ASSUME NEW w \in Writers, WriteLoadRp(w) PROVE RingInv'
    BY <2>2 DEF WriteLoadRp, reader
  <2>3. ASSUME NEW w \in Writers, WriteReturnFalse(w) PROVE RingInv'
    BY <2>3 DEF WriteReturnFalse, reader
  <2>4. ASSUME NEW w \in Writers, WriteSlot(w) PROVE RingInv'
    <3>1. wrp[w] < Cap => hp - wrp[w] <= Cap - 2
      BY <2>4, RoomLeft DEF WriteSlot
    <3> QED BY <2>4, <3>1 DEF WriteSlot, reader
  <2>5. ASSUME NEW w \in Writers, WriteStoreHp(w) PROVE RingInv'
    BY <2>5 DEF WriteStoreHp, reader
  <2>6. CASE ReadLoadHp
    BY <2>6 DEF ReadLoadHp, writer
  <2>7. CASE ReadLoadRp
    BY <2>7 DEF ReadLoadRp, writer
  <2>8. CASE ReadReturnNull
    BY <2>8 DEF ReadReturnNull, writer
  <2>9. CASE ReadSlot
    BY <2>9 DEF ReadSlot, writer
  <2>10. CASE ReadStoreRp
    BY <2>10 DEF ReadStoreRp, writer
  <2>11. CASE UNCHANGED vars
    BY <2>11 DEF vars, writer, reader
  <2> QED BY <2>1, <2>2, <2>3, <2>4, <2>5, <2>6, <2>7, <2>8, <2>9, <2>10, <2>11
          DEF Next, Read, Write
<1> QED BY <1>1, <1>2, TypeCorrect, PTL DEF Spec

(* One writer never fills the last free slot during the reader's first lap, *)
(* however stale its copy of rp is.                                         *)
THEOREM RoomOnFirstLap ==
  ASSUME NEW w0, Writers = {w0}
  PROVE  Spec => []FirstLapRoom
<1>1. RingInv => FirstLapRoom
  BY DEF RingInv
<1> QED BY <1>1, RingInvariant, PTL

(* One writer is refused during the first lap only by a ring that was full. *)
THEOREM RefusedWhenFull ==
  ASSUME NEW w0, Writers = {w0}
  PROVE  Spec => FalseMeansFull
<1>1. TypeOK /\ RingInv /\ [Next]_vars =>
        [\A w \in Writers : (WriteReturnFalse(w) /\ wrp[w] < Cap)
            => whp[w] - wrp[w] = Cap - 1]_vars
  BY RoomLeft DEF WriteReturnFalse
<1> QED BY <1>1, TypeCorrect, RingInvariant, PTL DEF Spec, FalseMeansFull
-----------------------------------------------------------------------------
(* Beyond the first lap the ring loses requests.  It makes up none: every   *)
(* index below hp has had a request put in its slot, and a writer on its    *)
(* way to hp + 1 has put one there.                                         *)

\* The slots are malloc's and no one clears them: what rBuff_read returns is a
\* request all the same, however often the writer has lapped it (ringbuffer.c:6,
\* 30-32).
OnlyRequestsRead == rpc = "store" => rval \in Reqs

WrittenInv ==
  /\ \A i \in 0 .. (hp - 1) : proc[Slot(i)] \in Reqs
  /\ \A w \in Writers : /\ wpc[w] # "idle" => p[w] \in Reqs
                        /\ wpc[w] = "hp" => proc[Slot(hp)] \in Reqs

LEMMA WrittenInvariant ==
  ASSUME NEW w0, Writers = {w0}
  PROVE  Spec => [](WrittenInv /\ OnlyRequestsRead)
<1>1. Init => WrittenInv /\ OnlyRequestsRead
  BY DEF Init, WrittenInv, OnlyRequestsRead
<1>2. TypeOK /\ RingInv /\ WrittenInv /\ OnlyRequestsRead /\ [Next]_vars
        => (WrittenInv /\ OnlyRequestsRead)'
  <2> SUFFICES ASSUME TypeOK, RingInv, WrittenInv, OnlyRequestsRead, [Next]_vars
               PROVE  WrittenInv' /\ OnlyRequestsRead'
    OBVIOUS
  <2>1. ASSUME NEW w \in Writers, NEW r \in Reqs, WriteLoadHp(w, r)
        PROVE  WrittenInv' /\ OnlyRequestsRead'
    BY <2>1 DEF WriteLoadHp, reader, WrittenInv, OnlyRequestsRead, TypeOK, Slot
  <2>2. ASSUME NEW w \in Writers, WriteLoadRp(w) \/ WriteReturnFalse(w)
        PROVE  WrittenInv' /\ OnlyRequestsRead'
    BY <2>2 DEF WriteLoadRp, WriteReturnFalse, reader, WrittenInv, OnlyRequestsRead, TypeOK, Slot
  <2>3. ASSUME NEW w \in Writers, WriteSlot(w) PROVE WrittenInv' /\ OnlyRequestsRead'
    <3>1. /\ whp[w] = hp /\ hp \in Nat /\ p[w] \in Reqs
          /\ Slot(hp) \in 0 .. (Cap - 1) /\ \A i \in 0 .. (hp - 1) : Slot(i) \in 0 .. (Cap - 1)
      <4>1. wpc[w] = "check" /\ WriterInv(w) /\ hp \in Nat
        BY <2>3 DEF WriteSlot, RingInv, TypeOK
      <4>2. whp[w] = hp /\ p[w] \in Reqs
        BY <4>1 DEF WriterInv, WrittenInv
      <4>3. \A i \in 0 .. (hp - 1) : i \in Nat
        BY <4>1
      <4> QED BY <4>1, <4>2, <4>3, SlotInRange
    <3>2. /\ proc' = [proc EXCEPT ![Slot(hp)] = p[w]] /\ UNCHANGED <<hp, p, rpc, rval>>
          /\ \A x \in Writers : x # w => wpc'[x] = wpc[x]
      BY <2>3, <3>1 DEF WriteSlot, reader, TypeOK
    <3>3. proc'[Slot(hp)] \in Reqs
      BY <3>1, <3>2 DEF TypeOK
    <3>4. \A i \in 0 .. (hp - 1) : proc'[Slot(i)] \in Reqs
      BY <3>1, <3>2 DEF TypeOK, WrittenInv
    <3>5. \A x \in Writers : x = w
      OBVIOUS
    <3> QED BY <3>1, <3>2, <3>3, <3>4, <3>5 DEF WrittenInv, OnlyRequestsRead, Slot
  <2>4. ASSUME NEW w \in Writers, WriteStoreHp(w) PROVE WrittenInv' /\ OnlyRequestsRead'
    <3>1. /\ whp[w] = hp /\ hp \in Nat /\ hp' = hp + 1 /\ UNCHANGED <<proc, p, rpc, rval>>
          /\ wpc'[w] = "idle" /\ proc[Slot(hp)] \in Reqs
      <4>1. wpc[w] = "hp" /\ WriterInv(w) /\ hp \in Nat
        BY <2>4 DEF WriteStoreHp, RingInv, TypeOK
      <4>2. whp[w] = hp /\ proc[Slot(hp)] \in Reqs
        BY <4>1 DEF WriterInv, WrittenInv
      <4>3. hp' = whp[w] + 1 /\ UNCHANGED <<proc, p, rpc, rval>> /\ wpc'[w] = "idle"
        BY <2>4 DEF WriteStoreHp, reader, TypeOK
      <4> QED BY <4>1, <4>2, <4>3
    <3>2. \A i \in 0 .. hp : i = hp \/ i \in 0 .. (hp - 1)
      BY <3>1
    <3>3. \A i \in 0 .. hp : proc[Slot(i)] \in Reqs
      BY <3>1, <3>2 DEF WrittenInv
    <3>4. \A i \in 0 .. (hp' - 1) : proc'[Slot(i)'] \in Reqs
      BY <3>1, <3>3 DEF Slot
    <3>5. \A x \in Writers : x = w
      OBVIOUS
    <3> QED BY <3>1, <3>4, <3>5 DEF WrittenInv, OnlyRequestsRead, Slot
  <2>5. CASE ReadSlot
    <3>1. rrp \in 0 .. (hp - 1) /\ rval' = proc[Slot(rrp)] /\ UNCHANGED <<hp, proc, writer>>
      BY <2>5 DEF ReadSlot, RingInv, ReaderInv, TypeOK
    <3> QED BY <3>1 DEF WrittenInv, OnlyRequestsRead, Slot, writer
  <2>6. CASE ReadLoadHp \/ ReadLoadRp \/ ReadReturnNull \/ ReadStoreRp
    BY <2>6 DEF ReadLoadHp, ReadLoadRp, ReadReturnNull, ReadStoreRp, writer, WrittenInv,
                OnlyRequestsRead, Slot
  <2>7. CASE UNCHANGED vars
    BY <2>7 DEF vars, writer, reader, WrittenInv, OnlyRequestsRead, Slot
  <2> QED BY <2>1, <2>2, <2>3, <2>4, <2>5, <2>6, <2>7 DEF Next, Read, Write
<1> QED BY <1>1, <1>2, TypeCorrect, RingInvariant, PTL DEF Spec

(* With one writer the reader never returns what malloc left in a slot, also  *)
(* when the full test has stopped working and unread requests are overwritten *)
(* (ringbuffer.c:30-32).                                                      *)
THEOREM RequestsOnlyRead ==
  ASSUME NEW w0, Writers = {w0}
  PROVE  Spec => []OnlyRequestsRead
BY WrittenInvariant, PTL
-----------------------------------------------------------------------------
(* The refinement.  With MaxReads below Cap the reader stays in its first   *)
(* lap; what the writer has put in its slot and what the reader has taken   *)
(* from its slot stay valid until the index is stored.                      *)

HandOver ==
  /\ rp <= MaxReads /\ (rpc # "idle" => rp < MaxReads)
  /\ \A w \in Writers : wpc[w] # "idle" => p[w] \in Reqs
  /\ \A w \in Writers : wpc[w] = "hp" => proc[Slot(hp)] = p[w]
  /\ rpc = "store" => rval = proc[Slot(rp)]

(* A write to the next free slot is a write to no other slot in use. *)
LEMMA OtherSlots ==
  ASSUME TypeOK, RingInv, NEW w \in Writers, rp < Cap, NEW i \in Nat, rp <= i, i < hp
  PROVE  Slot(i) # Slot(hp)
<1>1. hp \in Nat /\ Cap \in Nat \ {0} /\ hp < i + Cap
  BY CapAssumption DEF TypeOK, RingInv, ReaderInv, FirstLapRoom
<1>2. i % Cap # hp % Cap
  BY <1>1, ModDistinct
<1> QED BY <1>2 DEF Slot

LEMMA HandOverInvariant ==
  ASSUME NEW w0, Writers = {w0}, MaxReads < Cap
  PROVE  Spec => []HandOver
<1> USE CapAssumption, BoundsAssumption
<1>1. Init => HandOver
  BY DEF Init, HandOver
<1>2. TypeOK /\ RingInv /\ HandOver /\ [Next]_vars => HandOver'
  <2> SUFFICES ASSUME TypeOK, RingInv, HandOver, [Next]_vars PROVE HandOver'
    OBVIOUS
  <2> USE DEF TypeOK, HandOver
  <2>1. ASSUME NEW w \in Writers, NEW r \in Reqs, WriteLoadHp(w, r) PROVE HandOver'
    BY <2>1 DEF WriteLoadHp, reader
  <2>2. ASSUME NEW w \in Writers, WriteLoadRp(w) PROVE HandOver'
    BY <2>2 DEF WriteLoadRp, reader
  <2>3. ASSUME NEW w \in Writers, WriteReturnFalse(w) PROVE HandOver'
    BY <2>3 DEF WriteReturnFalse, reader
  <2>4. ASSUME NEW w \in Writers, WriteSlot(w) PROVE HandOver'
    <3>1. whp[w] = hp /\ Slot(hp) \in 0 .. (Cap - 1)
      BY <2>4, SlotInRange DEF WriteSlot, RingInv, WriterInv
    <3>2. proc'[Slot(hp)] = p[w] /\ hp' = hp /\ p' = p /\ wpc' = [wpc EXCEPT ![w] = "hp"]
      BY <2>4, <3>1 DEF WriteSlot
    <3>3. rpc = "store" => proc'[Slot(rp)] = proc[Slot(rp)]
      <4> SUFFICES ASSUME rpc = "store" PROVE proc'[Slot(rp)] = proc[Slot(rp)]
        OBVIOUS
      <4>1. rp \in Nat /\ rp < hp /\ rp < Cap
        BY DEF RingInv, ReaderInv
      <4>2. Slot(rp) # Slot(hp)
        BY <4>1, OtherSlots
      <4>3. proc' = [proc EXCEPT ![Slot(hp)] = p[w]]
        BY <2>4, <3>1 DEF WriteSlot
      <4> QED BY <4>2, <4>3, <4>1, SlotInRange
    <3> QED BY <2>4, <3>1, <3>2, <3>3 DEF WriteSlot, reader
  <2>5. ASSUME NEW w \in Writers, WriteStoreHp(w) PROVE HandOver'
    BY <2>5 DEF WriteStoreHp, reader
  <2>6. CASE ReadLoadHp
    BY <2>6 DEF ReadLoadHp, writer
  <2>7. CASE ReadLoadRp
    BY <2>7 DEF ReadLoadRp, writer
  <2>8. CASE ReadReturnNull
    BY <2>8 DEF ReadReturnNull, writer
  <2>9. CASE ReadSlot
    BY <2>9 DEF ReadSlot, writer, RingInv, ReaderInv
  <2>10. CASE ReadStoreRp
    BY <2>10 DEF ReadStoreRp, writer, RingInv, ReaderInv
  <2>11. CASE UNCHANGED vars
    BY <2>11 DEF vars, writer, reader
  <2> QED BY <2>1, <2>2, <2>3, <2>4, <2>5, <2>6, <2>7, <2>8, <2>9, <2>10, <2>11
          DEF Next, Read, Write
<1> QED BY <1>1, <1>2, TypeCorrect, RingInvariant, PTL DEF Spec

(* The slots between rp and hp are a sequence. *)
LEMMA QueueIsSeq ==
  ASSUME TypeOK, RingInv
  PROVE  Queue \in Seq(Reqs \cup {NoReq}) /\ Len(Queue) = hp - rp
<1>1. hp - rp \in Nat /\ hp \in Nat /\ rp \in Nat
  BY DEF TypeOK, RingInv, ReaderInv
<1>2. \A i \in 1 .. (hp - rp) : proc[Slot(rp + i - 1)] \in Reqs \cup {NoReq}
  BY <1>1, SlotInRange DEF TypeOK
<1> QED BY <1>1, <1>2 DEF Queue

(* The tail of a sequence, as a function. *)
LEMMA TailShifts ==
  ASSUME NEW S, NEW s \in Seq(S), NEW n \in Nat, Len(s) = n, 0 < n
  PROVE  Tail(s) = [i \in 1 .. (n - 1) |-> s[i + 1]]
<1>1. s # <<>>
  OBVIOUS
<1>2. /\ Tail(s) \in Seq(S) /\ Len(Tail(s)) = n - 1
      /\ \A i \in 1 .. Len(Tail(s)) : Tail(s)[i] = s[i + 1]
  BY <1>1, HeadTailProperties
<1> DEFINE t == [i \in 1 .. (n - 1) |-> s[i + 1]]
<1>3. t \in Seq(S) /\ Len(t) = n - 1
  <2>1. \A i \in 1 .. (n - 1) : s[i + 1] \in S
    OBVIOUS
  <2>2. n - 1 \in Nat
    OBVIOUS
  <2> QED BY <2>1, <2>2
<1>4. \A i \in 1 .. Len(Tail(s)) : Tail(s)[i] = t[i]
  BY <1>2
<1> HIDE DEF t
<1>5. Tail(s) = t
  BY <1>2, <1>3, <1>4, SeqEqual
<1> QED BY <1>5 DEF t

(* Every step of the ring is a step of the bounded queue or changes nothing *)
(* of it: the store of hp is the push, the store of rp the pop.             *)
THEOREM RingImplementsFifo ==
  ASSUME NEW w0, Writers = {w0}, MaxReads < Cap
  PROVE  Spec => RefinesFifo
<1> USE CapAssumption, BoundsAssumption
<1>1. Init => AbsFifo!Init
  BY DEF Init, AbsFifo!Init, Queue
<1>2. TypeOK /\ RingInv /\ HandOver /\ [Next]_vars => [AbsFifo!Next]_<<Queue, out>>
  <2> SUFFICES ASSUME TypeOK, RingInv, HandOver, [Next]_vars
               PROVE  [AbsFifo!Next]_<<Queue, out>>
    OBVIOUS
  <2>0. rp \in Nat /\ hp \in Nat /\ rp <= hp /\ rp < Cap
    BY DEF TypeOK, RingInv, ReaderInv, HandOver
  <2>1. ASSUME NEW w \in Writers, NEW r \in Reqs, WriteLoadHp(w, r)
        PROVE  UNCHANGED <<Queue, out>>
    BY <2>1 DEF WriteLoadHp, Queue
  <2>2. ASSUME NEW w \in Writers, WriteLoadRp(w) \/ WriteReturnFalse(w)
        PROVE  UNCHANGED <<Queue, out>>
    BY <2>2 DEF WriteLoadRp, WriteReturnFalse, Queue
  <2>3. ASSUME NEW w \in Writers, WriteSlot(w) PROVE UNCHANGED <<Queue, out>>
    <3>1. hp' = hp /\ rp' = rp /\ out' = out /\ proc' = [proc EXCEPT ![Slot(hp)] = p[w]]
      BY <2>3 DEF WriteSlot, RingInv, WriterInv
    <3>2. ASSUME NEW i \in 1 .. (hp - rp)
          PROVE  proc'[Slot(rp + i - 1)] = proc[Slot(rp + i - 1)]
      <4>1. rp + i - 1 \in Nat /\ rp <= rp + i - 1 /\ rp + i - 1 < hp
        BY <2>0
      <4>2. Slot(rp + i - 1) # Slot(hp)
        BY <2>0, <4>1, OtherSlots
      <4>3. Slot(rp + i - 1) \in 0 .. (Cap - 1)
        BY <4>1, SlotInRange
      <4> QED BY <3>1, <4>2, <4>3 DEF TypeOK
    <3> QED BY <3>1, <3>2 DEF Queue
  <2>4. ASSUME NEW w \in Writers, WriteStoreHp(w) PROVE AbsFifo!Push(p[w])
    <3>1. hp' = hp + 1 /\ rp' = rp /\ proc' = proc /\ out' = out
      BY <2>4 DEF WriteStoreHp, RingInv, WriterInv
    <3>2. hp - rp < Cap - 1
      BY <2>0, <2>4 DEF WriteStoreHp, RingInv, WriterInv, TypeOK
    <3>3. proc[Slot(hp)] = p[w] /\ rp + (hp - rp + 1) - 1 = hp
      BY <2>0, <2>4 DEF WriteStoreHp, HandOver
    <3>4. Queue' = [i \in 1 .. (hp - rp + 1) |-> proc[Slot(rp + i - 1)]]
      <4>1. hp' - rp' = hp - rp + 1
        BY <2>0, <3>1
      <4> QED BY <3>1, <4>1 DEF Queue, Slot
    <3>5. Queue' = Append(Queue, p[w])
      <4>1. Queue \in Seq(Reqs \cup {NoReq}) /\ Len(Queue) = hp - rp
        BY QueueIsSeq
      <4>2. Queue = [i \in 1 .. (hp - rp) |-> proc[Slot(rp + i - 1)]]
        BY DEF Queue
      <4> QED BY <2>0, <3>3, <3>4, <4>1, <4>2
    <3> QED BY <3>1, <3>2, <3>5, QueueIsSeq DEF AbsFifo!Push
  <2>5. CASE ReadStoreRp
    <3>1. hp' = hp /\ rp' = rp + 1 /\ proc' = proc /\ out' = proc[Slot(rp)] /\ rp < hp
      BY <2>5 DEF ReadStoreRp, writer, RingInv, ReaderInv, HandOver, TypeOK
    <3>2. Queue \in Seq(Reqs \cup {NoReq}) /\ Len(Queue) = hp - rp
      BY QueueIsSeq
    <3>3. Queue # <<>> /\ Head(Queue) = proc[Slot(rp)]
      <4>1. Queue[1] = proc[Slot(rp + 1 - 1)] /\ rp + 1 - 1 = rp
        BY <2>0, <3>1 DEF Queue
      <4> QED BY <2>0, <3>1, <3>2, <4>1
    <3>4. Queue' = Tail(Queue)
      <4>1. Queue' = [i \in 1 .. (hp - rp - 1) |-> proc[Slot(rp + i)]]
        <5>1. hp' - rp' = hp - rp - 1
          BY <2>0, <3>1
        <5>2. \A i \in 1 .. (hp - rp - 1) : (rp + 1) + i - 1 = rp + i
          BY <2>0
        <5> QED BY <3>1, <5>1, <5>2 DEF Queue, Slot
      <4>2. Tail(Queue) = [i \in 1 .. (hp - rp - 1) |-> Queue[i + 1]]
        <5>1. hp - rp \in Nat /\ 0 < hp - rp
          BY <2>0, <3>1
        <5> QED BY <3>2, <5>1, TailShifts
      <4>3. ASSUME NEW i \in 1 .. (hp - rp - 1) PROVE Queue[i + 1] = proc[Slot(rp + i)]
        <5>1. i + 1 \in 1 .. (hp - rp) /\ rp + (i + 1) - 1 = rp + i
          BY <2>0
        <5> QED BY <5>1 DEF Queue
      <4> QED BY <4>1, <4>2, <4>3
    <3> QED BY <3>1, <3>3, <3>4 DEF AbsFifo!Next, AbsFifo!Pop
  <2>6. CASE ReadLoadHp \/ ReadLoadRp \/ ReadReturnNull \/ ReadSlot
    BY <2>6 DEF ReadLoadHp, ReadLoadRp, ReadReturnNull, ReadSlot, Queue
  <2>7. CASE UNCHANGED vars
    BY <2>7 DEF vars, Queue
  <2>8. ASSUME NEW w \in Writers, WriteStoreHp(w) PROVE AbsFifo!Next
    BY <2>4, <2>8 DEF AbsFifo!Next, WriteStoreHp, HandOver
  <2> QED BY <2>1, <2>2, <2>3, <2>5, <2>6, <2>7, <2>8 DEF Next, Read, Write
<1> QED BY <1>1, <1>2, TypeCorrect, RingInvariant, HandOverInvariant, PTL
        DEF Spec, RefinesFifo, AbsFifo!Spec
=============================================================================
