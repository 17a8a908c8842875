----------------------------- MODULE ConnProofs -----------------------------
(***************************************************************************)
(* Proofs about Conn: the safety properties of its runs, for any number of *)
(* workers and connections, any pool, buffer, request and response.        *)
(***************************************************************************)
EXTENDS Conn, TLAPS

(* The parts of the inductive invariant.  A worker past "wait" handles a      *)
(* connection of its own, and one that waits handles none.                    *)
CurInv ==
  \A w \in Workers :
    /\ wpc[w] = "wait" <=> cur[w] = Nobody
    /\ wpc[w] # "wait" => owner[cur[w]] = w /\ open[cur[w]]

\* the mutex is held from the load of conn_pool_next to its store, which is why
\* what was loaded is current
PoolInv ==
  \A w \in Workers :
    /\ wpc[w] \in {"load", "store"} <=> pool_mutex = w
    /\ wpc[w] = "store" => idx[w] = conn_pool_next /\ conn_pool_next < PoolSize

\* the contexts given away are those below conn_pool_next
ContextInv == OwnContext /\ \A c \in Conns : HasBuffers(c) => ctx[c] < conn_pool_next

\* a read buffer that still has no request in it has room
CountInv == \A c \in Conns : inbox[c] <= sent[c] /\ read_total[c] < BufSize

Shape == TypeOK /\ CurInv /\ PoolInv /\ CountInv

\* the connection in hand: read in "reading" only; a response that has not been
\* tried to write is not empty
HandInv ==
  \A w \in Workers :
    /\ wpc[w] = "read" => state[cur[w]] = "reading"
    /\ (wpc[w] = "write" /\ "OUT" \notin events[w] /\ state[cur[w]] = "writing") => to_write[cur[w]] > 0
    /\ (wpc[w] = "rearm" /\ state[cur[w]] = "writing") => to_write[cur[w]] > 0

\* one that no worker holds
IdleInv == ArmedForState /\ \A c \in Conns : (open[c] /\ ~Handled(c)) => state[c] # "close"
-----------------------------------------------------------------------------
(* Type correctness. *)

LEMMA LeastIs == \A m, n \in Nat : Least(m, n) \in Nat /\ Least(m, n) <= m /\ Least(m, n) <= n
BY DEF Least

LEMMA ShapeInit == Init => Shape
<1> SUFFICES ASSUME Init PROVE Shape
  OBVIOUS
<1> USE SizeAssumption, NobodyAssumption DEF Init
<1>1. TypeOK
  BY DEF TypeOK
<1>2. CurInv /\ PoolInv /\ CountInv
  BY DEF CurInv, PoolInv, CountInv
<1> QED BY <1>1, <1>2 DEF Shape

LEMMA ShapeStep == Shape /\ [Next]_vars => Shape'
<1> SUFFICES ASSUME Shape, [Next]_vars PROVE Shape'
  OBVIOUS
<1> USE DEF Shape, TypeOK, CurInv, PoolInv, CountInv, Goto, Set, workerVars, poolVars, connVars,
            netVars, Reading, Space, HasBuffers, Register
<1>0. PoolSize \in Nat /\ MaxSent \in Nat /\ BufSize \in Nat \ {0} /\ ReqSize \in Nat \ {0}
      /\ RespSize \in Nat \ {0} /\ SndBuf \in Nat \ {0} /\ ReqSize <= BufSize
      /\ Nobody \notin Workers /\ Nobody \notin Conns
  BY SizeAssumption, NobodyAssumption
<1>1. ASSUME NEW c \in Conns, NEW w \in Workers, Connect(c, w) PROVE Shape'
  BY <1>0, <1>1 DEF Connect
<1>2. ASSUME NEW c \in Conns, Send(c) PROVE Shape'
  BY <1>0, <1>2 DEF Send
<1>3. ASSUME NEW c \in Conns, ClientReads(c) PROVE Shape'
  BY <1>0, <1>3 DEF ClientReads
<1>4. ASSUME NEW c \in Conns, ClientCloses(c) PROVE Shape'
  BY <1>0, <1>4 DEF ClientCloses
<1>5. ASSUME NEW c \in Conns, NEW w \in Workers, Accept(w, c) PROVE Shape'
  BY <1>0, <1>5 DEF Accept
<1>6. ASSUME NEW w \in Workers, AllocLock(w) PROVE Shape'
  BY <1>0, <1>6 DEF AllocLock
<1>7. ASSUME NEW w \in Workers, AllocFallback(w) PROVE Shape'
  BY <1>0, <1>7 DEF AllocFallback
<1>8. ASSUME NEW w \in Workers, AllocLoad(w) PROVE Shape'
  BY <1>0, <1>8 DEF AllocLoad
<1>9. ASSUME NEW w \in Workers, AllocStore(w) PROVE Shape'
  BY <1>0, <1>9 DEF AllocStore
<1>10. ASSUME NEW c \in Conns, NEW w \in Workers, Event(w, c) PROVE Shape'
  BY <1>0, <1>10 DEF Event, Ready
<1>11. ASSUME NEW w \in Workers, ReadPart(w) PROVE Shape'
  <2> DEFINE c == cur[w]
             n == Least(Space(c), inbox[c])
  <2>1. c \in Conns /\ Space(c) \in Nat /\ inbox[c] \in Nat
    BY <1>0, <1>11 DEF ReadPart
  <2>2. n \in Nat /\ n <= BufSize - read_total[c] /\ n <= inbox[c]
    BY <2>1, LeastIs
  <2>3. /\ read_total[c] + n < ReqSize
        /\ read_total' = [read_total EXCEPT ![c] = read_total[c] + n]
        /\ inbox' = [inbox EXCEPT ![c] = inbox[c] - n]
        /\ UNCHANGED <<workerVars, poolVars, owner, open, ctx, state, armed, to_write,
                       eof, unread, sent, answered>>
    BY <1>11 DEF ReadPart
  <2> HIDE DEF c, n
  <2> QED BY <1>0, <2>1, <2>2, <2>3
<1>12. ASSUME NEW w \in Workers, ReadRequest(w) PROVE Shape'
  <2> DEFINE c == cur[w]
             n == Least(Space(c), inbox[c])
  <2>1. c \in Conns /\ Space(c) \in Nat /\ inbox[c] \in Nat /\ wpc[w] = "read"
    BY <1>0, <1>12 DEF ReadRequest
  <2>2. n \in Nat /\ n <= BufSize - read_total[c] /\ n <= inbox[c]
    BY <2>1, LeastIs
  <2>3. /\ read_total[c] + n >= ReqSize
        /\ read_total' = [read_total EXCEPT ![c] = read_total[c] + n - ReqSize]
        /\ inbox' = [inbox EXCEPT ![c] = inbox[c] - n]
        /\ to_write' = [to_write EXCEPT ![c] = RespSize]
        /\ state' = [state EXCEPT ![c] = "writing"]
        /\ wpc' = [wpc EXCEPT ![w] = "write"]
        /\ UNCHANGED <<cur, events, idx, poolVars, owner, open, ctx, armed,
                       eof, unread, sent, answered>>
    BY <1>12 DEF ReadRequest
  <2> HIDE DEF c, n
  <2> QED BY <1>0, <2>1, <2>2, <2>3
<1>13. ASSUME NEW w \in Workers, ReadDry(w) PROVE Shape'
  BY <1>0, <1>13 DEF ReadDry
<1>14. ASSUME NEW w \in Workers, ReadFails(w) PROVE Shape'
  BY <1>0, <1>14 DEF ReadFails
<1>15. ASSUME NEW w \in Workers, SkipWrite(w) PROVE Shape'
  BY <1>0, <1>15 DEF SkipWrite
<1>16. ASSUME NEW w \in Workers, WritePart(w) PROVE Shape'
  <2> DEFINE c == cur[w]
             n == Least(to_write[c], SndBuf - unread[c])
  <2>1. c \in Conns /\ to_write[c] \in Nat /\ SndBuf - unread[c] \in Nat
    BY <1>0, <1>16 DEF WritePart
  <2>2. n \in Nat /\ n <= to_write[c] /\ n <= SndBuf - unread[c]
    BY <2>1, LeastIs
  <2>3. /\ to_write' = [to_write EXCEPT ![c] = to_write[c] - n]
        /\ unread' = [unread EXCEPT ![c] = unread[c] + n]
        /\ UNCHANGED <<workerVars, poolVars, owner, open, ctx, state, armed, read_total,
                       inbox, eof, sent, answered>>
    BY <1>16 DEF WritePart
  <2> HIDE DEF c, n
  <2> QED BY <1>0, <2>1, <2>2, <2>3
<1>17. ASSUME NEW w \in Workers, WriteDry(w) PROVE Shape'
  BY <1>0, <1>17 DEF WriteDry
<1>18. ASSUME NEW w \in Workers, WriteFails(w) PROVE Shape'
  BY <1>0, <1>18 DEF WriteFails
<1>19. ASSUME NEW w \in Workers, WriteDone(w) PROVE Shape'
  BY <1>0, <1>19 DEF WriteDone
<1>20. ASSUME NEW w \in Workers, Rearm(w) PROVE Shape'
  BY <1>0, <1>20 DEF Rearm
<1>21. CASE UNCHANGED vars
  BY <1>21 DEF vars
<1> HIDE DEF Shape, TypeOK, CurInv, PoolInv, CountInv
<1> QED BY <1>1, <1>2, <1>3, <1>4, <1>5, <1>6, <1>7, <1>8, <1>9, <1>10, <1>11, <1>12, <1>13,
           <1>14, <1>15, <1>16, <1>17, <1>18, <1>19, <1>20, <1>21
    DEF Next, Work

(* Every counter stays within its buffer and every worker in its loop.       *)
THEOREM TypeCorrect == Spec => []TypeOK
<1>1. Shape => TypeOK
  BY DEF Shape
<1> QED BY ShapeInit, ShapeStep, <1>1, PTL DEF Spec
-----------------------------------------------------------------------------
(* Contexts. *)

LEMMA ContextStep == Shape /\ ContextInv /\ [Next]_vars => ContextInv'
<1> SUFFICES ASSUME Shape, ContextInv, [Next]_vars PROVE ContextInv'
  OBVIOUS
<1>0. /\ ctx \in [Conns -> 0 .. PoolSize] /\ conn_pool_next \in 0 .. PoolSize /\ PoolSize \in Nat
      /\ \A w \in Workers : wpc[w] # "wait" => cur[w] \in Conns
  BY SizeAssumption DEF Shape, TypeOK, CurInv
<1> USE DEF ContextInv, OwnContext, HasBuffers, Set, workerVars, poolVars, connVars, netVars
<1>1. ASSUME NEW w \in Workers, AllocStore(w) PROVE ContextInv'
  <2>1. /\ cur[w] \in Conns /\ idx[w] = conn_pool_next
        /\ conn_pool_next' = conn_pool_next + 1 /\ ctx' = [ctx EXCEPT ![cur[w]] = conn_pool_next]
    BY <1>0, <1>1 DEF AllocStore, Register, Shape, PoolInv
  <2> QED BY <1>0, <2>1
<1>2. ASSUME NEW w \in Workers, AllocFallback(w) PROVE ContextInv'
  BY <1>0, <1>2 DEF AllocFallback, Register
<1>3. CASE UNCHANGED <<ctx, conn_pool_next>>
  BY <1>3
<1> QED BY <1>1, <1>2, <1>3
    DEF Next, vars, Work, Connect, Send, ClientReads, ClientCloses, Accept, AllocLock, AllocLoad,
        Event, ReadPart, ReadRequest, ReadDry, ReadFails, SkipWrite, WritePart, WriteDry,
        WriteFails, WriteDone, Rearm

(* Two connections never share a context, however many workers accept.        *)
THEOREM ContextsAreOwn == Spec => []OwnContext
<1>1. Init => ContextInv
  BY SizeAssumption DEF Init, ContextInv, OwnContext, HasBuffers
<1>2. ContextInv => OwnContext
  BY DEF ContextInv
<1> QED BY ShapeInit, ShapeStep, ContextStep, <1>1, <1>2, PTL DEF Spec
-----------------------------------------------------------------------------
(* A connection is closed for its client, or for want of buffers.             *)

LEMMA ClosedStep == Shape /\ ClosedByClient /\ [Next]_vars => ClosedByClient'
<1> SUFFICES ASSUME Shape, ClosedByClient, [Next]_vars PROVE ClosedByClient'
  OBVIOUS
<1>0. /\ ctx \in [Conns -> 0 .. PoolSize] /\ eof \in [Conns -> BOOLEAN]
      /\ state \in [Conns -> {"reading", "writing", "close"}] /\ BufSize \in Nat
      /\ \A c \in Conns : read_total[c] < BufSize /\ read_total[c] \in Nat
      /\ \A w \in Workers : wpc[w] # "wait" => cur[w] \in Conns
  BY SizeAssumption DEF Shape, TypeOK, CurInv, CountInv
<1> USE DEF ClosedByClient, HasBuffers, Set, workerVars, poolVars, connVars, netVars
<1>1. ASSUME NEW w \in Workers, AllocStore(w) \/ AllocFallback(w) PROVE ClosedByClient'
  <2>1. /\ UNCHANGED eof /\ cur[w] \in Conns /\ state' = [state EXCEPT ![cur[w]] = "reading"]
        /\ \E n : ctx' = [ctx EXCEPT ![cur[w]] = n]
    BY <1>0, <1>1 DEF AllocStore, AllocFallback, Register
  <2> QED BY <1>0, <2>1
<1>2. ASSUME NEW w \in Workers, ReadFails(w) PROVE ClosedByClient'
  <2>1. /\ cur[w] \in Conns /\ state' = [state EXCEPT ![cur[w]] = "close"] /\ UNCHANGED <<ctx, eof>>
        /\ eof[cur[w]] \/ ~HasBuffers(cur[w])
    BY <1>0, <1>2 DEF ReadFails, Reading, Space
  <2> QED BY <1>0, <2>1
<1>3. ASSUME NEW w \in Workers, WriteFails(w) PROVE ClosedByClient'
  BY <1>0, <1>3 DEF WriteFails
<1>4. ASSUME NEW w \in Workers, ReadRequest(w) \/ WriteDone(w) PROVE ClosedByClient'
  <2>1. /\ UNCHANGED <<ctx, eof>>
        /\ \E to \in {"writing", "reading"} : state' = [state EXCEPT ![cur[w]] = to]
    BY <1>4 DEF ReadRequest, WriteDone
  <2> QED BY <1>0, <2>1
<1>5. ASSUME NEW c \in Conns, ClientCloses(c) PROVE ClosedByClient'
  BY <1>0, <1>5 DEF ClientCloses
<1>6. CASE UNCHANGED <<ctx, eof, state>>
  BY <1>6
<1> QED BY <1>1, <1>2, <1>3, <1>4, <1>5, <1>6
    DEF Next, vars, Work, Connect, Send, ClientReads, Accept, AllocLock, AllocLoad,
        Event, ReadPart, ReadDry, SkipWrite, WritePart, WriteDry, Rearm

(* No connection that has buffers is closed before its client closes it.     *)
THEOREM ClosedForClient == Spec => []ClosedByClient
<1>1. Init => ClosedByClient
  BY DEF Init, ClosedByClient
<1> QED BY ShapeInit, ShapeStep, ClosedStep, <1>1, PTL DEF Spec
-----------------------------------------------------------------------------
(* Armed connections.  Every path of the loop ends in "rearm" with a state   *)
(* and a to_write that fit, and only the worker that holds a connection      *)
(* changes them.                                                              *)

\* two workers hold two connections
LEMMA HandsApart ==
  ASSUME Shape, NEW w \in Workers, NEW x \in Workers, x # w, wpc[w] # "wait"
  PROVE  cur[x] # cur[w] /\ cur[w] \in Conns
BY NobodyAssumption DEF Shape, TypeOK, CurInv

LEMMA HandStep == Shape /\ HandInv /\ IdleInv /\ [Next]_vars => HandInv'
<1> SUFFICES ASSUME Shape, HandInv, IdleInv, [Next]_vars PROVE HandInv'
  OBVIOUS
<1>0. /\ wpc \in [Workers -> {"wait", "lock", "load", "store", "read", "write", "rearm"}]
      /\ cur \in [Workers -> Conns \cup {Nobody}] /\ events \in [Workers -> SUBSET {"IN", "OUT"}]
      /\ state \in [Conns -> {"reading", "writing", "close"}]
      /\ to_write \in [Conns -> 0 .. RespSize] /\ RespSize \in Nat \ {0}
  BY SizeAssumption DEF Shape, TypeOK
<1> USE DEF Set, Goto, workerVars, poolVars, connVars, netVars
<1>1. CASE UNCHANGED <<wpc, cur, events, state, to_write>>
  BY <1>1 DEF HandInv
\* a step of one worker that keeps its connection in hand
<1>2. ASSUME NEW w \in Workers, wpc[w] # "wait", UNCHANGED <<cur, events>>,
             \E to : wpc' = [wpc EXCEPT ![w] = to],
             UNCHANGED state \/ \E v : state' = [state EXCEPT ![cur[w]] = v],
             UNCHANGED to_write \/ \E v : to_write' = [to_write EXCEPT ![cur[w]] = v],
             wpc'[w] = "read" => state'[cur[w]] = "reading",
             wpc'[w] = "write" /\ "OUT" \notin events[w] => to_write'[cur[w]] > 0,
             wpc'[w] = "rearm" /\ state'[cur[w]] = "writing" => to_write'[cur[w]] > 0
      PROVE  HandInv'
  <2>1. cur[w] \in Conns
    BY <1>2 DEF Shape, TypeOK, CurInv
  <2>2. ASSUME NEW x \in Workers, x # w, wpc[x] # "wait"
        PROVE  state'[cur[x]] = state[cur[x]] /\ to_write'[cur[x]] = to_write[cur[x]]
    <3>1. cur[x] # cur[w] /\ cur[x] \in Conns
      BY <1>2, <2>2, HandsApart DEF Shape, TypeOK, CurInv
    <3> QED BY <1>0, <1>2, <3>1
  <2>3. \A x \in Workers \ {w} : wpc'[x] = wpc[x] /\ cur'[x] = cur[x] /\ events'[x] = events[x]
    BY <1>0, <1>2
  <2>4. ASSUME NEW x \in Workers \ {w}, wpc'[x] # "wait"
        PROVE  /\ wpc'[x] = "read" => state'[cur'[x]] = "reading"
               /\ (wpc'[x] = "write" /\ "OUT" \notin events'[x] /\ state'[cur'[x]] = "writing")
                     => to_write'[cur'[x]] > 0
               /\ (wpc'[x] = "rearm" /\ state'[cur'[x]] = "writing") => to_write'[cur'[x]] > 0
    BY <2>2, <2>3, <2>4 DEF HandInv
  <2> QED BY <1>2, <2>4 DEF HandInv
\* a step of one worker that takes up its connection, or leaves it
<1>3. ASSUME NEW w \in Workers, NEW to, wpc' = [wpc EXCEPT ![w] = to], NEW c,
             cur' = [cur EXCEPT ![w] = c], UNCHANGED to_write,
             \A x \in Workers \ {w} : events'[x] = events[x],
             \A x \in Workers \ {w} : wpc[x] # "wait" => state'[cur[x]] = state[cur[x]],
             to = "read" => state'[c] = "reading",
             to = "write" /\ "OUT" \notin events'[w] /\ state'[c] = "writing" => to_write[c] > 0,
             to # "rearm"
      PROVE  HandInv'
  <2>1. \A x \in Workers \ {w} : wpc'[x] = wpc[x] /\ cur'[x] = cur[x]
    BY <1>0, <1>3
  <2>2. wpc'[w] = to /\ cur'[w] = c
    BY <1>0, <1>3
  <2>3. ASSUME NEW x \in Workers \ {w}, wpc'[x] # "wait"
        PROVE  /\ wpc'[x] = "read" => state'[cur'[x]] = "reading"
               /\ (wpc'[x] = "write" /\ "OUT" \notin events'[x] /\ state'[cur'[x]] = "writing")
                     => to_write'[cur'[x]] > 0
               /\ (wpc'[x] = "rearm" /\ state'[cur'[x]] = "writing") => to_write'[cur'[x]] > 0
    BY <1>3, <2>1, <2>3 DEF HandInv
  <2> QED BY <1>3, <2>2, <2>3 DEF HandInv
<1>4. ASSUME NEW w \in Workers, NEW c \in Conns, Accept(w, c) PROVE HandInv'
  <2>1. /\ wpc' = [wpc EXCEPT ![w] = "lock"] /\ cur' = [cur EXCEPT ![w] = c]
        /\ UNCHANGED <<events, state, to_write>>
    BY <1>4 DEF Accept
  <2> DEFINE to == "lock"
  <2>2. to \notin {"read", "write", "rearm"} /\ wpc' = [wpc EXCEPT ![w] = to]
    BY <2>1
  <2>3. \A x \in Workers \ {w} : events'[x] = events[x] /\ state'[cur[x]] = state[cur[x]]
    BY <2>1
  <2> HIDE DEF to
  <2> QED BY <1>3, <2>1, <2>2, <2>3
<1>5. ASSUME NEW w \in Workers, AllocLock(w) \/ AllocLoad(w) PROVE HandInv'
  BY <1>0, <1>5 DEF AllocLock, AllocLoad, HandInv
<1>6. ASSUME NEW w \in Workers, AllocFallback(w) \/ AllocStore(w) PROVE HandInv'
  <2>1. /\ wpc[w] # "wait" /\ wpc' = [wpc EXCEPT ![w] = "wait"] /\ cur' = [cur EXCEPT ![w] = Nobody]
        /\ state' = [state EXCEPT ![cur[w]] = "reading"] /\ UNCHANGED <<events, to_write>>
    BY <1>6 DEF AllocFallback, AllocStore, Register
  <2>2. ASSUME NEW x \in Workers \ {w}, wpc[x] # "wait" PROVE state'[cur[x]] = state[cur[x]]
    <3>1. cur[x] # cur[w] /\ cur[x] \in Conns
      BY <2>1, <2>2, HandsApart DEF Shape, TypeOK, CurInv
    <3> QED BY <1>0, <2>1, <3>1
  <2> DEFINE to == "wait"
  <2>3. to \notin {"read", "write", "rearm"} /\ wpc' = [wpc EXCEPT ![w] = to]
    BY <2>1
  <2> HIDE DEF to
  <2> QED BY <1>3, <2>1, <2>2, <2>3
<1>7. ASSUME NEW w \in Workers, NEW c \in Conns, Event(w, c) PROVE HandInv'
  <2> DEFINE to == IF "IN" \in events'[w] /\ state[c] = "reading" THEN "read" ELSE "write"
  <2>1. /\ wpc[w] = "wait" /\ owner[c] = w /\ open[c]
        /\ wpc' = [wpc EXCEPT ![w] = to] /\ cur' = [cur EXCEPT ![w] = c]
        /\ events' = [events EXCEPT ![w] = armed[c] \cap Ready(c)]
        /\ UNCHANGED <<state, to_write>>
    BY <1>7 DEF Event
  <2>2. ~Handled(c)
    BY <2>1, NobodyAssumption DEF Handled, Shape, CurInv
  <2>3. state[c] = "writing" => to_write[c] > 0
    BY <2>1, <2>2 DEF IdleInv, ArmedForState
  <2>4. \A x \in Workers \ {w} : events'[x] = events[x]
    BY <1>0, <2>1
  <2>5. (to = "read" => state[c] = "reading") /\ to # "rearm"
    OBVIOUS
  <2> HIDE DEF to
  <2> QED BY <1>3, <2>1, <2>3, <2>4, <2>5
<1>8. ASSUME NEW w \in Workers, ReadRequest(w) PROVE HandInv'
  <2>1. /\ wpc[w] = "read" /\ UNCHANGED <<cur, events>>
        /\ wpc' = [wpc EXCEPT ![w] = "write"] /\ state' = [state EXCEPT ![cur[w]] = "writing"]
        /\ to_write' = [to_write EXCEPT ![cur[w]] = RespSize]
    BY <1>8 DEF ReadRequest, Reading
  <2>2. to_write'[cur[w]] > 0 /\ wpc'[w] = "write"
    <3>1. cur[w] \in Conns
      BY <2>1 DEF Shape, TypeOK, CurInv
    <3> QED BY <1>0, <2>1, <3>1
  <2> QED BY <1>2, <2>1, <2>2
<1>9. ASSUME NEW w \in Workers, ReadDry(w) \/ SkipWrite(w) \/ WriteDry(w) PROVE HandInv'
  <2>1. /\ wpc[w] \in {"read", "write"} /\ wpc' = [wpc EXCEPT ![w] = "rearm"]
        /\ UNCHANGED <<cur, events, state, to_write>>
        /\ \/ wpc[w] = "read"
           \/ wpc[w] = "write" /\ ~("OUT" \in events[w] /\ state[cur[w]] = "writing")
           \/ to_write[cur[w]] > 0
    BY <1>9 DEF ReadDry, SkipWrite, WriteDry, Reading, Writable
  <2>2. state[cur[w]] = "writing" => to_write[cur[w]] > 0
    BY <2>1 DEF HandInv
  <2>3. wpc'[w] = "rearm"
    BY <1>0, <2>1
  <2> QED BY <1>2, <2>1, <2>2, <2>3
<1>10. ASSUME NEW w \in Workers, ReadFails(w) \/ WriteFails(w) \/ WriteDone(w) PROVE HandInv'
  <2>1. /\ wpc[w] # "wait" /\ wpc' = [wpc EXCEPT ![w] = "rearm"] /\ UNCHANGED <<cur, events, to_write>>
        /\ \E v \in {"close", "reading"} : state' = [state EXCEPT ![cur[w]] = v]
    BY <1>10 DEF ReadFails, WriteFails, WriteDone, Reading
  <2>2. cur[w] \in Conns
    BY <2>1 DEF Shape, TypeOK, CurInv
  <2>3. wpc'[w] = "rearm" /\ state'[cur[w]] # "writing"
    BY <1>0, <2>1, <2>2
  <2> QED BY <1>2, <2>1, <2>3
<1>11. ASSUME NEW w \in Workers, WritePart(w) PROVE HandInv'
  <2>1. /\ wpc[w] = "write" /\ "OUT" \in events[w] /\ UNCHANGED <<cur, events, wpc, state>>
        /\ \E v : to_write' = [to_write EXCEPT ![cur[w]] = v]
    BY <1>11 DEF WritePart, Writable
  <2>2. wpc' = [wpc EXCEPT ![w] = "write"]
    BY <1>0, <2>1
  <2> QED BY <1>2, <2>1, <2>2
<1>12. ASSUME NEW w \in Workers, Rearm(w) PROVE HandInv'
  <2>1. /\ wpc' = [wpc EXCEPT ![w] = "wait"] /\ cur' = [cur EXCEPT ![w] = Nobody]
        /\ events' = [events EXCEPT ![w] = {}] /\ UNCHANGED <<state, to_write>>
    BY <1>12 DEF Rearm
  <2>2. \A x \in Workers \ {w} : events'[x] = events[x] /\ state'[cur[x]] = state[cur[x]]
    BY <1>0, <2>1
  <2> DEFINE to == "wait"
  <2>3. to \notin {"read", "write", "rearm"} /\ wpc' = [wpc EXCEPT ![w] = to]
    BY <2>1
  <2> HIDE DEF to
  <2> QED BY <1>3, <2>1, <2>2, <2>3
<1> QED BY <1>1, <1>4, <1>5, <1>6, <1>7, <1>8, <1>9, <1>10, <1>11, <1>12
    DEF Next, vars, Work, Connect, Send, ClientReads, ClientCloses, ReadPart

LEMMA IdleStep == Shape /\ HandInv /\ IdleInv /\ [Next]_vars => IdleInv'
<1> DEFINE Fit(c) == /\ state[c] # "close"
                     /\ state[c] = "reading" => "IN" \in armed[c]
                     /\ state[c] = "writing" => armed[c] = {"OUT"} /\ to_write[c] > 0
<1> SUFFICES ASSUME Shape, HandInv, IdleInv, [Next]_vars, NEW c \in Conns, open'[c], ~Handled(c)'
             PROVE  Fit(c)'
  BY DEF IdleInv, ArmedForState
<1>0. /\ cur \in [Workers -> Conns \cup {Nobody}]
      /\ open \in [Conns -> BOOLEAN] /\ state \in [Conns -> {"reading", "writing", "close"}]
      /\ armed \in [Conns -> SUBSET {"IN", "OUT"}] /\ to_write \in [Conns -> 0 .. RespSize]
      /\ \A w \in Workers : (wpc[w] = "wait" <=> cur[w] = Nobody)
      /\ \A w \in Workers : (wpc[w] # "wait" => cur[w] \in Conns) /\ cur'[w] # c
  BY DEF Shape, TypeOK, CurInv, Handled
<1> USE DEF Set, Goto, workerVars, poolVars, connVars, netVars
\* c was idle and is left alone
<1>1. ASSUME ~Handled(c), open[c] = open'[c], state[c] = state'[c], armed[c] = armed'[c],
             to_write[c] = to_write'[c]
      PROVE  Fit(c)'
  BY <1>1 DEF IdleInv, ArmedForState
<1>2. CASE UNCHANGED <<cur, open, state, armed, to_write>>
  BY <1>0, <1>1, <1>2 DEF Handled
<1>3. ASSUME NEW w \in Workers, NEW d \in Conns, Accept(w, d) \/ Event(w, d) PROVE Fit(c)'
  <2>1. /\ wpc[w] = "wait" /\ cur' = [cur EXCEPT ![w] = d] /\ UNCHANGED <<state, to_write>>
        /\ UNCHANGED open \/ open' = [open EXCEPT ![d] = TRUE]
        /\ UNCHANGED armed \/ armed' = [armed EXCEPT ![d] = {}]
    BY <1>3 DEF Accept, Event
  <2>2. d # c
    BY <1>0, <2>1
  <2>3. ~Handled(c)
    BY <1>0, <2>1, NobodyAssumption DEF Handled
  <2> QED BY <1>0, <1>1, <2>1, <2>2, <2>3
<1>4. ASSUME NEW w \in Workers, AllocFallback(w) \/ AllocStore(w) PROVE Fit(c)'
  <2>1. /\ wpc[w] # "wait" /\ cur' = [cur EXCEPT ![w] = Nobody] /\ UNCHANGED <<open, to_write>>
        /\ state' = [state EXCEPT ![cur[w]] = "reading"]
        /\ armed' = [armed EXCEPT ![cur[w]] = {"IN", "OUT"}]
    BY <1>4 DEF AllocFallback, AllocStore, Register
  <2>2. CASE cur[w] = c
    BY <1>0, <2>1, <2>2
  <2>3. CASE cur[w] # c
    <3>1. ~Handled(c)
      BY <1>0, <2>1, <2>3 DEF Handled
    <3> QED BY <1>0, <1>1, <2>1, <2>3, <3>1
  <2> QED BY <2>2, <2>3
\* steps on the connection in hand, which stays in hand
<1>5. ASSUME NEW w \in Workers, ReadRequest(w) \/ ReadFails(w) \/ WriteFails(w) \/ WriteDone(w)
                                \/ WritePart(w)
      PROVE  Fit(c)'
  <2>1. /\ wpc[w] # "wait" /\ UNCHANGED <<cur, open, armed>>
        /\ UNCHANGED state \/ \E v : state' = [state EXCEPT ![cur[w]] = v]
        /\ UNCHANGED to_write \/ \E v : to_write' = [to_write EXCEPT ![cur[w]] = v]
    BY <1>5 DEF ReadRequest, ReadFails, WriteFails, WriteDone, WritePart, Reading
  <2>2. cur[w] # c /\ ~Handled(c)
    BY <1>0, <2>1 DEF Handled
  <2> QED BY <1>0, <1>1, <2>1, <2>2
<1>6. ASSUME NEW w \in Workers, Rearm(w) PROVE Fit(c)'
  <2>1. /\ wpc[w] = "rearm" /\ cur' = [cur EXCEPT ![w] = Nobody] /\ UNCHANGED <<state, to_write>>
        /\ open' = [open EXCEPT ![cur[w]] = state[cur[w]] # "close"]
        /\ armed' = [armed EXCEPT ![cur[w]] = CASE state[cur[w]] = "close"   -> {}
                                                [] state[cur[w]] = "reading" -> {"IN"}
                                                [] state[cur[w]] = "writing" -> {"OUT"}]
    BY <1>6 DEF Rearm
  <2>2. CASE cur[w] = c
    <3>1. state[c] # "close" /\ state'[c] = state[c] /\ to_write'[c] = to_write[c]
      BY <1>0, <2>1, <2>2
    <3>2. state[c] = "reading" \/ (state[c] = "writing" /\ to_write[c] > 0)
      <4>1. state[c] = "writing" => to_write[c] > 0
        BY <2>1, <2>2 DEF HandInv
      <4>2. state[c] \in {"reading", "writing", "close"}
        BY <1>0
      <4> QED BY <3>1, <4>1, <4>2
    <3>3. state[c] = "reading" => armed'[c] = {"IN"}
      BY <1>0, <2>1, <2>2
    <3>4. state[c] = "writing" => armed'[c] = {"OUT"}
      BY <1>0, <2>1, <2>2
    <3> QED BY <3>1, <3>2, <3>3, <3>4
  <2>3. CASE cur[w] # c
    <3>1. ~Handled(c)
      BY <1>0, <2>1, <2>3 DEF Handled
    <3> QED BY <1>0, <1>1, <2>1, <2>3, <3>1
  <2> QED BY <2>2, <2>3
<1> QED BY <1>2, <1>3, <1>4, <1>5, <1>6
    DEF Next, vars, Work, Connect, Send, ClientReads, ClientCloses, AllocLock, AllocLoad,
        ReadPart, ReadDry, SkipWrite, WriteDry

(* A connection that no worker holds is armed for what its state waits for:  *)
(* after a one-shot event every path through the loop arms it again.         *)
THEOREM ArmedInTheEnd == Spec => []ArmedForState
<1>1. Init => HandInv /\ IdleInv
  BY DEF Init, HandInv, IdleInv, ArmedForState
<1>2. IdleInv => ArmedForState
  BY DEF IdleInv
<1> QED BY ShapeInit, ShapeStep, HandStep, IdleStep, <1>1, <1>2, PTL DEF Spec
=============================================================================
