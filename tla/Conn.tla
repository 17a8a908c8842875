-------------------------------- MODULE Conn -------------------------------
(***************************************************************************)
(* The connections of the worker threads: accept, a context from the       *)
(* shared pool, one-shot epoll events, reading until a request is whole,   *)
(* writing the response, arming again, closing.  Data is counted, not      *)
(* spelled out: a request is ReqSize pieces, a response RespSize.  What    *)
(* the handler does is in module OrcaServer.                               *)
(***************************************************************************)
EXTENDS Naturals, FiniteSets

CONSTANTS
  Workers, Conns,
  PoolSize,   \* CONN_POOL_SIZE
  BufSize,    \* BUFFER_SIZE, in pieces
  ReqSize,    \* pieces of a request
  RespSize,   \* pieces of a response
  SndBuf,     \* pieces the kernel holds for a client that does not read
  Pipelined,  \* clients send the next request before they have the last answer
  MaxSent,    \* bound: pieces a client sends on one connection
  Nobody      \* no worker, or no connection

ASSUME SizeAssumption ==
  /\ {PoolSize, MaxSent} \subseteq Nat
  /\ {BufSize, ReqSize, RespSize, SndBuf} \subseteq Nat \ {0}
  /\ ReqSize <= BufSize
ASSUME PipelinedAssumption == Pipelined \in BOOLEAN
ASSUME NobodyAssumption == Nobody \notin Workers \cup Conns

VARIABLES
  \* per worker
  wpc,             \* where its loop is
  cur,             \* the connection it accepts or handles
  events,          \* the events epoll_wait returned for it
  idx,             \* alloc_conn: the conn_pool_next it has loaded
  \* shared
  pool_mutex, conn_pool_next,
  \* per connection: the server's side
  owner,           \* the worker whose listener got it, Nobody before that
  open,            \* the server holds the socket
  ctx,             \* number of its context in the pool; PoolSize for a calloc'ed one
  state,           \* ctx->state
  armed,           \* events epoll reports next
  read_total,      \* pieces in read_buf
  to_write,        \* write_total - write_pos
  \* per connection: the network and the client
  inbox,           \* pieces sent and not yet read
  eof,             \* the client has closed
  unread,          \* response pieces the client has not read
  sent, answered   \* history: pieces sent, responses written

workerVars == <<wpc, cur, events, idx>>
poolVars   == <<pool_mutex, conn_pool_next>>
connVars   == <<owner, open, ctx, state, armed, read_total, to_write>>
netVars    == <<inbox, eof, unread, sent, answered>>
vars == <<workerVars, poolVars, connVars, netVars>>

HasBuffers(c) == ctx[c] < PoolSize

Init ==
  /\ wpc = [w \in Workers |-> "wait"] /\ cur = [w \in Workers |-> Nobody]
  /\ events = [w \in Workers |-> {}] /\ idx = [w \in Workers |-> 0]
  /\ pool_mutex = Nobody /\ conn_pool_next = 0
  /\ owner = [c \in Conns |-> Nobody]
  /\ open = [c \in Conns |-> FALSE]
  /\ ctx = [c \in Conns |-> PoolSize]
  /\ state = [c \in Conns |-> "reading"]
  /\ armed = [c \in Conns |-> {}]
  /\ read_total = [c \in Conns |-> 0] /\ to_write = [c \in Conns |-> 0]
  /\ inbox = [c \in Conns |-> 0] /\ eof = [c \in Conns |-> FALSE]
  /\ unread = [c \in Conns |-> 0] /\ sent = [c \in Conns |-> 0]
  /\ answered = [c \in Conns |-> 0]

Goto(w, to) == wpc' = [wpc EXCEPT ![w] = to]
Set(f, c, v) == [f EXCEPT ![c] = v]
-----------------------------------------------------------------------------
(* Clients and the kernel. *)

Connect(c, w) ==
  /\ owner[c] = Nobody
  /\ owner' = Set(owner, c, w)
  /\ UNCHANGED <<workerVars, poolVars, open, ctx, state, armed, read_total, to_write, netVars>>

\* a client that does not pipeline waits for the answer before the next request
MaySend(c) ==
  Pipelined \/ sent[c] % ReqSize # 0
            \/ (answered[c] * ReqSize = sent[c] /\ unread[c] = 0)

Send(c) ==
  /\ owner[c] # Nobody /\ ~eof[c] /\ sent[c] < MaxSent /\ MaySend(c)
  /\ sent' = Set(sent, c, sent[c] + 1)
  /\ inbox' = Set(inbox, c, inbox[c] + 1)
  /\ UNCHANGED <<workerVars, poolVars, connVars, eof, unread, answered>>

ClientReads(c) ==
  /\ unread[c] > 0
  /\ unread' = Set(unread, c, unread[c] - 1)
  /\ UNCHANGED <<workerVars, poolVars, connVars, inbox, eof, sent, answered>>

ClientCloses(c) ==
  /\ owner[c] # Nobody /\ ~eof[c]
  /\ eof' = Set(eof, c, TRUE)
  /\ UNCHANGED <<workerVars, poolVars, connVars, inbox, unread, sent, answered>>

Ready(c) == {e \in {"IN", "OUT"} : \/ e = "IN"  /\ (inbox[c] > 0 \/ eof[c])
                                   \/ e = "OUT" /\ (unread[c] < SndBuf \/ eof[c])}
-----------------------------------------------------------------------------
(* worker_thread: the listening socket is readable. *)

Accept(w, c) ==
  /\ wpc[w] = "wait" /\ owner[c] = w /\ ~open[c] /\ state[c] # "close"
  /\ open' = Set(open, c, TRUE)
  /\ cur' = Set(cur, w, c)
  /\ Goto(w, "lock")
  /\ UNCHANGED <<events, idx, poolVars, owner, ctx, state, armed, read_total, to_write, netVars>>

\* mutant: nobody waits for the mutex
Mut_NoLock(w) ==
  /\ wpc[w] = "lock"
  /\ pool_mutex' = w
  /\ Goto(w, "load")
  /\ UNCHANGED <<cur, events, idx, conn_pool_next, connVars, netVars>>

AllocLock(w) ==
  /\ wpc[w] = "lock" /\ pool_mutex = Nobody
  /\ pool_mutex' = w
  /\ Goto(w, "load")
  /\ UNCHANGED <<cur, events, idx, conn_pool_next, connVars, netVars>>

\* EPOLL_CTL_ADD with both events
Register(c, n) ==
  /\ ctx' = Set(ctx, c, n)
  /\ state' = Set(state, c, "reading")
  /\ armed' = Set(armed, c, {"IN", "OUT"})
  /\ UNCHANGED <<owner, open, read_total, to_write>>

\* the pool is used up: calloc of a context without buffers
AllocFallback(w) ==
  /\ wpc[w] = "load" /\ conn_pool_next >= PoolSize
  /\ pool_mutex' = Nobody
  /\ Register(cur[w], PoolSize)
  /\ cur' = Set(cur, w, Nobody) /\ Goto(w, "wait")
  /\ UNCHANGED <<events, idx, conn_pool_next, netVars>>

AllocLoad(w) ==
  /\ wpc[w] = "load" /\ conn_pool_next < PoolSize
  /\ idx' = Set(idx, w, conn_pool_next)
  /\ Goto(w, "store")
  /\ UNCHANGED <<cur, events, poolVars, connVars, netVars>>

AllocStore(w) ==
  /\ wpc[w] = "store"
  /\ conn_pool_next' = idx[w] + 1
  /\ pool_mutex' = Nobody
  /\ Register(cur[w], idx[w])
  /\ cur' = Set(cur, w, Nobody) /\ Goto(w, "wait")
  /\ UNCHANGED <<events, idx, netVars>>
-----------------------------------------------------------------------------
(* worker_thread: an event of a connection, handled to its end. *)

\* EPOLLONESHOT: no further event until the connection is armed again
Event(w, c) ==
  /\ wpc[w] = "wait" /\ owner[c] = w /\ open[c]
  /\ armed[c] \cap Ready(c) # {}
  /\ events' = Set(events, w, armed[c] \cap Ready(c))
  /\ armed' = Set(armed, c, {})
  /\ cur' = Set(cur, w, c)
  /\ Goto(w, IF "IN" \in events'[w] /\ state[c] = "reading" THEN "read" ELSE "write")
  /\ UNCHANGED <<idx, poolVars, owner, open, ctx, state, read_total, to_write, netVars>>

Reading(w) == wpc[w] = "read"
Space(c) == BufSize - read_total[c]
Least(m, n) == IF m < n THEN m ELSE n

\* handle_readable: a read that brings data, and the parser on what there is
ReadPart(w) ==
  LET c == cur[w]
      n == Least(Space(c), inbox[c])
  IN /\ Reading(w) /\ HasBuffers(c) /\ n > 0 /\ read_total[c] + n < ReqSize
     /\ read_total' = Set(read_total, c, read_total[c] + n)
     /\ inbox' = Set(inbox, c, inbox[c] - n)
     /\ UNCHANGED <<workerVars, poolVars, owner, open, ctx, state, armed, to_write,
                    eof, unread, sent, answered>>

\* one request is parsed and its response built; the rest stays in read_buf
ReadRequest(w) ==
  LET c == cur[w]
      n == Least(Space(c), inbox[c])
  IN /\ Reading(w) /\ HasBuffers(c) /\ n > 0 /\ read_total[c] + n >= ReqSize
     /\ read_total' = Set(read_total, c, read_total[c] + n - ReqSize)
     /\ inbox' = Set(inbox, c, inbox[c] - n)
     /\ to_write' = Set(to_write, c, RespSize)
     /\ state' = Set(state, c, "writing")
     /\ Goto(w, "write")
     /\ UNCHANGED <<cur, events, idx, poolVars, owner, open, ctx, armed,
                    eof, unread, sent, answered>>

\* EAGAIN
ReadDry(w) ==
  /\ Reading(w) /\ Space(cur[w]) > 0 /\ inbox[cur[w]] = 0 /\ ~eof[cur[w]]
  /\ Goto(w, "rearm")
  /\ UNCHANGED <<cur, events, idx, poolVars, connVars, netVars>>

\* mutant: EAGAIN closes the connection
Mut_AgainFails(w) ==
  LET c == cur[w]
  IN /\ Reading(w)
     /\ Space(c) <= 0 \/ inbox[c] = 0
     /\ state' = Set(state, c, "close")
     /\ Goto(w, "rearm")
     /\ UNCHANGED <<cur, events, idx, poolVars, owner, open, ctx, armed, read_total, to_write,
                    netVars>>

\* no space, end of file, or EFAULT for a context without buffers
ReadFails(w) ==
  LET c == cur[w]
  IN /\ Reading(w)
     /\ \/ Space(c) <= 0
        \/ inbox[c] = 0 /\ eof[c]
        \/ inbox[c] > 0 /\ ~HasBuffers(c)
     /\ state' = Set(state, c, "close")
     /\ Goto(w, "rearm")
     /\ UNCHANGED <<cur, events, idx, poolVars, owner, open, ctx, armed, read_total, to_write,
                    netVars>>

Writable(w) == "OUT" \in events[w] /\ state[cur[w]] = "writing"

SkipWrite(w) ==
  /\ wpc[w] = "write" /\ ~Writable(w)
  /\ Goto(w, "rearm")
  /\ UNCHANGED <<cur, events, idx, poolVars, connVars, netVars>>

\* mutant: send is taken to write everything
Mut_WriteAll(w) ==
  LET c == cur[w]
  IN /\ wpc[w] = "write" /\ Writable(w) /\ to_write[c] > 0
     /\ to_write' = Set(to_write, c, 0)
     /\ unread' = Set(unread, c, unread[c] + to_write[c])
     /\ UNCHANGED <<workerVars, poolVars, owner, open, ctx, state, armed, read_total,
                    inbox, eof, sent, answered>>

\* handle_writable
WritePart(w) ==
  LET c == cur[w]
      n == Least(to_write[c], SndBuf - unread[c])
  IN /\ wpc[w] = "write" /\ Writable(w) /\ n > 0
     /\ to_write' = Set(to_write, c, to_write[c] - n)
     /\ unread' = Set(unread, c, unread[c] + n)
     /\ UNCHANGED <<workerVars, poolVars, owner, open, ctx, state, armed, read_total,
                    inbox, eof, sent, answered>>

WriteDry(w) ==
  /\ wpc[w] = "write" /\ Writable(w) /\ to_write[cur[w]] > 0 /\ unread[cur[w]] = SndBuf
  /\ Goto(w, "rearm")
  /\ UNCHANGED <<cur, events, idx, poolVars, connVars, netVars>>

\* EPIPE: the client has gone
WriteFails(w) ==
  /\ wpc[w] = "write" /\ Writable(w) /\ to_write[cur[w]] > 0 /\ eof[cur[w]]
  /\ state' = Set(state, cur[w], "close")
  /\ Goto(w, "rearm")
  /\ UNCHANGED <<cur, events, idx, poolVars, owner, open, ctx, armed, read_total, to_write,
                 netVars>>

WriteDone(w) ==
  /\ wpc[w] = "write" /\ Writable(w) /\ to_write[cur[w]] = 0
  /\ state' = Set(state, cur[w], "reading")
  /\ answered' = Set(answered, cur[w], answered[cur[w]] + 1)
  /\ Goto(w, "rearm")
  /\ UNCHANGED <<cur, events, idx, poolVars, owner, open, ctx, armed, read_total, to_write,
                 inbox, eof, unread, sent>>

\* mutant: always armed for reading
Mut_RearmIn(w) ==
  LET c == cur[w]
  IN /\ wpc[w] = "rearm"
     /\ open' = Set(open, c, state[c] # "close")
     /\ armed' = Set(armed, c, IF state[c] = "close" THEN {} ELSE {"IN"})
     /\ cur' = Set(cur, w, Nobody) /\ events' = Set(events, w, {})
     /\ Goto(w, "wait")
     /\ UNCHANGED <<idx, poolVars, owner, ctx, state, read_total, to_write, netVars>>

\* the end of the loop body: close, or arm for what the state waits for
Rearm(w) ==
  LET c == cur[w]
  IN /\ wpc[w] = "rearm"
     /\ open' = Set(open, c, state[c] # "close")
     /\ armed' = Set(armed, c, CASE state[c] = "close"   -> {}
                                 [] state[c] = "reading" -> {"IN"}
                                 [] state[c] = "writing" -> {"OUT"})
     /\ cur' = Set(cur, w, Nobody) /\ events' = Set(events, w, {})
     /\ Goto(w, "wait")
     /\ UNCHANGED <<idx, poolVars, owner, ctx, state, read_total, to_write, netVars>>
-----------------------------------------------------------------------------
Work(w) ==
  \/ \E c \in Conns : Accept(w, c)
  \/ \E c \in Conns : Event(w, c)
  \/ AllocLock(w) \/ AllocFallback(w) \/ AllocLoad(w) \/ AllocStore(w)
  \/ ReadPart(w) \/ ReadRequest(w) \/ ReadDry(w) \/ ReadFails(w)
  \/ SkipWrite(w) \/ WritePart(w) \/ WriteDry(w) \/ WriteFails(w) \/ WriteDone(w)
  \/ Rearm(w)

Next ==
  \/ \E w \in Workers : Work(w)
  \/ \E c \in Conns : \/ \E w \in Workers : Connect(c, w)
                      \/ Send(c) \/ ClientReads(c) \/ ClientCloses(c)

\* a worker that can run does, epoll reports every ready connection in turn, and a
\* client reads what it asked for
Spec == /\ Init /\ [][Next]_vars
        /\ \A w \in Workers : WF_vars(Work(w))
        /\ \A w \in Workers, c \in Conns : SF_vars(Accept(w, c)) /\ SF_vars(Event(w, c))
        /\ \A c \in Conns : WF_vars(ClientReads(c))
-----------------------------------------------------------------------------
\* counters within their buffers, every worker at a point of its loop
TypeOK ==
  /\ wpc \in [Workers -> {"wait", "lock", "load", "store", "read", "write", "rearm"}]
  /\ cur \in [Workers -> Conns \cup {Nobody}]
  /\ events \in [Workers -> SUBSET {"IN", "OUT"}]
  /\ idx \in [Workers -> 0 .. PoolSize]
  /\ pool_mutex \in Workers \cup {Nobody} /\ conn_pool_next \in 0 .. PoolSize
  /\ owner \in [Conns -> Workers \cup {Nobody}] /\ open \in [Conns -> BOOLEAN]
  /\ ctx \in [Conns -> 0 .. PoolSize]
  /\ state \in [Conns -> {"reading", "writing", "close"}]
  /\ armed \in [Conns -> SUBSET {"IN", "OUT"}]
  /\ read_total \in [Conns -> 0 .. BufSize] /\ to_write \in [Conns -> 0 .. RespSize]
  /\ inbox \in [Conns -> 0 .. MaxSent] /\ eof \in [Conns -> BOOLEAN]
  /\ unread \in [Conns -> 0 .. SndBuf] /\ sent \in [Conns -> 0 .. MaxSent]
  /\ answered \in [Conns -> Nat]

\* Two connections never share a context of the pool, whichever workers accept
\* them at the same time (conn.c:11-20): shared buffers would mix their requests.
OwnContext ==
  \A c, d \in Conns :
    (c # d /\ HasBuffers(c) /\ HasBuffers(d)) => ctx[c] # ctx[d]

\* A connection that no worker holds is armed for what can bring it on: its client's
\* data while it reads, room in the socket while it writes (worker.c:72, 93).  One
\* missed arm after a one-shot event and the connection is dead.
Handled(c) == \E w \in Workers : cur[w] = c
ArmedForState ==
  \A c \in Conns : (open[c] /\ ~Handled(c)) =>
    /\ state[c] = "reading" => "IN" \in armed[c]
    /\ state[c] = "writing" => armed[c] = {"OUT"} /\ to_write[c] > 0

\* The server closes a connection only when its client has closed it, or when it was
\* accepted beyond the pool: no interleaving of partial reads, pipelined requests and
\* partial writes ends one that has buffers, while its data fits them (conn.c:35-101).
ClosedByClient ==
  \A c \in Conns : state[c] = "close" => eof[c] \/ ~HasBuffers(c)

\* A request that has arrived whole is answered, or its connection closed
\* (response.c:65 "Connection: keep-alive").
Whole(c, n) == sent[c] >= n * ReqSize
RequestAnswered ==
  \A c \in Conns : \A n \in 1 .. (MaxSent \div ReqSize) :
    Whole(c, n) ~> (answered[c] >= n \/ eof[c] \/ state[c] = "close")
=============================================================================
