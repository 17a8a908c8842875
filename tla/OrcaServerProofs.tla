-------------------------- MODULE OrcaServerProofs --------------------------
(***************************************************************************)
(* Proofs about OrcaServer: the safety properties of its runs, for any     *)
(* number of workers, keys, values, requests, crashes, failed appends and   *)
(* seconds.                                                                *)
(***************************************************************************)
EXTENDS OrcaServer, ProofLemmas, TLAPS

-----------------------------------------------------------------------------
(* The chain of a key: what the calls of the map return and leave.          *)

LEMMA FirstIn == ASSUME NEW S, S \subseteq Nat, S # {} PROVE FirstOf(S) \in S
BY FirstExists DEF FirstOf

LEMMA FoundIn ==
  ASSUME NEW c \in Seq(Node), NEW equal, FoundAt(c, equal) # 0
  PROVE  FoundAt(c, equal) \in DOMAIN c
<1> DEFINE S == {i \in DOMAIN c : Matches(c, equal, i)}
<1>1. S \subseteq Nat
  OBVIOUS
<1> QED BY <1>1, FirstIn DEF FoundAt

LEMMA InsertedChain ==
  ASSUME NEW c \in Seq(Node), NEW equal, NEW v \in Vals \cup {Garbled}, NEW freed \in BOOLEAN
  PROVE  /\ Inserted(c, equal, v, freed) \in Seq(Node)
         /\ \A i \in DOMAIN Inserted(c, equal, v, freed) :
              \/ Inserted(c, equal, v, freed)[i].val = v
              \/ i \in DOMAIN c /\ Inserted(c, equal, v, freed)[i].val = c[i].val
<1> DEFINE S == {i \in DOMAIN c : c[i].tomb \/ Matches(c, equal, i)}
           n == [val |-> v, tomb |-> FALSE, freed |-> freed]
           f == FirstOf(S)
           d == Inserted(c, equal, v, freed)
<1>1. n \in Node
  BY DEF Node
<1>2. CASE S = {}
  <2>1. d = Append(c, n)
    BY <1>2 DEF Inserted
  <2> QED BY <1>1, <2>1
<1>3. CASE S # {}
  <2>1. f \in DOMAIN c
    <3>1. S \subseteq DOMAIN c /\ DOMAIN c \subseteq Nat
      OBVIOUS
    <3> QED BY <1>3, <3>1, FirstIn
  <2>2. c[f] \in Node
    BY <2>1
  <2> HIDE DEF f, S
  <2>3. CASE c[f].tomb
    <3>1. d = [c EXCEPT ![f] = n]
      BY <1>3, <2>3 DEF Inserted, f, S
    <3> QED BY <1>1, <2>1, <3>1
  <2>4. CASE ~c[f].tomb
    <3>1. d = [c EXCEPT ![f].val = v]
      BY <1>3, <2>4 DEF Inserted, f, S
    <3>2. [c[f] EXCEPT !.val = v] \in Node /\ [c[f] EXCEPT !.val = v].val = v
      BY <2>2 DEF Node
    <3> QED BY <2>1, <3>1, <3>2
  <2> QED BY <2>3, <2>4
<1> QED BY <1>2, <1>3

LEMMA DeletedChain ==
  ASSUME NEW c \in Seq(Node), NEW equal
  PROVE  /\ Deleted(c, equal) \in Seq(Node) /\ DOMAIN Deleted(c, equal) = DOMAIN c
         /\ \A i \in DOMAIN c : Deleted(c, equal)[i].val = c[i].val
<1> DEFINE f == FoundAt(c, equal)
<1>1. CASE f = 0
  BY <1>1 DEF Deleted
<1>2. CASE f # 0
  <2>1. f \in DOMAIN c /\ c[f] \in Node
    BY <1>2, FoundIn
  <2>2. Deleted(c, equal) = [c EXCEPT ![f].tomb = TRUE]
    BY <1>2 DEF Deleted
  <2>3. [c[f] EXCEPT !.tomb = TRUE] \in Node /\ [c[f] EXCEPT !.tomb = TRUE].val = c[f].val
    BY <2>1 DEF Node
  <2> QED BY <2>1, <2>2, <2>3
<1> QED BY <1>1, <1>2

LEMMA ReadChain ==
  ASSUME NEW c \in Seq(Node), NEW equal
  PROVE  Read(c, equal) = NoVal \/ \E i \in DOMAIN c : Read(c, equal) = c[i].val
BY FoundIn DEF Read
-----------------------------------------------------------------------------
(* The parts of the inductive invariant.                                    *)

\* a request that is being served is one, with its parameters once it is in a
\* handler; from "apply" to "unlock" its worker holds pool_mutex, and nobody else
Holding(w) == wpc[w] \in {"apply", "append", "unlock"}
WorkerInv ==
  \A w \in Workers :
    /\ wpc[w] # "idle" => req[w] \in Request
    /\ wpc[w] = "lock" \/ Holding(w) => req[w].key \in Keys
    /\ wpc[w] = "append" => req[w].fn \in {"PUT", "DELETE"}
    /\ Holding(w) <=> pool_mutex = w

\* a request without its parameters is answered without a handler
AnswerInv ==
  \A w \in Workers :
    wpc[w] = "respond" => req[w].key \in Keys \/ res[w].status \in {400, 404}

\* a SET in the log has a value
FileInv == \A i \in DOMAIN file : file[i].fn = "SET" => file[i].val \in Vals

Entry == Cmd \cup Damage
\* what is in the log, or known not to be
Logged == ToSet(file) \cup unlogged

-----------------------------------------------------------------------------
(* Type correctness needs both: what is logged comes from a request in a    *)
(* handler, what is replayed from the log.                                   *)

TypeInv == TypeOK /\ WorkerInv /\ AnswerInv /\ FileInv

LEMMA RequestFacts ==
  ASSUME NEW r \in Request
  PROVE  /\ r # NoReq
         /\ r.fn \in {"PUT", "GET", "DELETE"} /\ RouteOf(r.fn) \in 1 .. 3
         /\ r.key \in Keys \cup {NoKey}
         /\ (r.fn = "PUT" /\ r.key \in Keys) => r.val \in Vals
         /\ (r.fn \in {"PUT", "DELETE"} /\ r.key \in Keys) => CmdOf(r) \in Cmd
<1>1. r.fn \in {"PUT", "GET", "DELETE"} /\ r.key \in Keys \cup {NoKey} /\ r.val \in Vals \cup {NoVal}
  BY BareAssumption DEF Request
<1>2. (r.fn = "PUT" /\ r.key \in Keys) => r.val \in Vals
  BY NullAssumption DEF Request
<1>3. r # NoReq
  BY <1>1 DEF NoReq
<1>4. RouteOf(r.fn) \in 1 .. 3
  BY <1>1 DEF RouteOf
<1>5. r.key \in Keys => CmdOf(r) \in Cmd
  BY <1>1 DEF CmdOf, Cmd
<1> QED BY <1>1, <1>2, <1>3, <1>4, <1>5

LEMMA TypeInvInit == Init => TypeInv
<1> SUFFICES ASSUME Init PROVE TypeInv
  OBVIOUS
<1>1. TypeOK
  <2>1. 0 \in 0 .. MaxTime /\ 0 \in 0 .. MaxRequests /\ 0 \in 0 .. MaxCrashes /\ 0 \in 0 .. MaxFails
    BY BoundAssumption
  <2>2. db \in [Keys -> Seq(Node)] /\ file \in Seq(Cmd \cup Damage) /\ stamps \in Seq(0 .. MaxTime)
        /\ Len(stamps) = Len(file) /\ Len(file) = 0
    BY DEF Init
  <2>3. res \in [Workers -> [status : {0, 200, 400, 404}, val : Vals \cup {Garbled, NoVal}]]
    BY DEF Init, NoRes
  <2>4. /\ phase = "open" /\ replay_pos = 0 /\ durable = 0 /\ route_count = 0 /\ routes_set = 0
        /\ pool_mutex = Nobody /\ global_open = FALSE /\ boot_len = 0 /\ acked = {}
        /\ unlogged = {} /\ unsure = FALSE /\ fails = 0
        /\ last_sync = 0 /\ now = 0 /\ received = 0 /\ crashes = 0
    BY DEF Init
  <2>5. /\ wpc \in [Workers -> {"idle"}] /\ req \in [Workers -> {NoReq}]
        /\ last \in [Keys -> {NoCmd}]
    BY DEF Init
  <2>6. /\ replay_pos \in 0 .. Len(file) /\ durable \in 0 .. Len(file) /\ boot_len \in Nat
        /\ route_count \in 0 .. 3 /\ routes_set \in 0 .. 3
        /\ last_sync \in 0 .. MaxTime /\ now \in 0 .. MaxTime
        /\ received \in 0 .. MaxRequests /\ crashes \in 0 .. MaxCrashes /\ fails \in 0 .. MaxFails
    BY <2>1, <2>2, <2>4
  <2>7. /\ wpc \in [Workers -> {"idle", "route", "lock", "apply", "append", "unlock", "respond"}]
        /\ req \in [Workers -> Request \cup {NoReq}] /\ last \in [Keys -> Cmd \cup {NoCmd}]
    BY <2>5
  <2> QED BY <2>2, <2>3, <2>4, <2>6, <2>7 DEF TypeOK
<1>2. WorkerInv /\ AnswerInv /\ FileInv
  BY NobodyAssumption DEF Init, WorkerInv, AnswerInv, Holding, FileInv
<1> QED BY <1>1, <1>2 DEF TypeInv

\* what an append does to the log, whether it fails or not
LEMMA AppendEffect ==
  ASSUME TypeInv, NEW w \in Workers, AppendCmd(w) \/ AppendFails(w)
  PROVE  /\ wpc[w] = "append" /\ wpc' = [wpc EXCEPT ![w] = "unlock"]
         /\ req[w] \in Request /\ req[w].key \in Keys /\ req[w].fn \in {"PUT", "DELETE"}
         /\ CmdOf(req[w]) \in Cmd /\ CmdOf(req[w]).key = req[w].key
         /\ CmdOf(req[w]).fn = "SET" => CmdOf(req[w]).val \in Vals
         /\ UNCHANGED <<mainVars, routeVars, pool_mutex, db, global_open, req, res, now,
                        received, crashes, boot_len, last, acked>>
         /\ \/ NoLog(CmdOf(req[w]))
            \/ \E entry \in {CmdOf(req[w])} \cup Damage : Log(CmdOf(req[w]), entry)
<1>1. /\ wpc[w] = "append" /\ wpc' = [wpc EXCEPT ![w] = "unlock"]
      /\ UNCHANGED <<mainVars, routeVars, pool_mutex, db, global_open, req, res, now,
                     received, crashes, boot_len, last, acked>>
  BY DEF AppendCmd, AppendFails, Goto
<1>2. req[w] \in Request /\ req[w].key \in Keys /\ req[w].fn \in {"PUT", "DELETE"}
  BY <1>1 DEF TypeInv, WorkerInv, Holding
<1>3. /\ CmdOf(req[w]) \in Cmd /\ CmdOf(req[w]).key = req[w].key
      /\ CmdOf(req[w]).fn = "SET" => CmdOf(req[w]).val \in Vals
  BY <1>2, RequestFacts DEF CmdOf
<1>4. \/ NoLog(CmdOf(req[w]))
      \/ \E entry \in {CmdOf(req[w])} \cup Damage : Log(CmdOf(req[w]), entry)
  <2>1. Written(CmdOf(req[w])) \in {CmdOf(req[w])} \cup Damage
    BY DEF Written, Damage
  <2>2. Part \in Damage /\ BadLine \in Damage
    BY DEF Damage
  <2> QED BY <2>1, <2>2, Zenon DEF AppendCmd, AppendFails
<1> QED BY <1>1, <1>2, <1>3, <1>4

LEMMA EntryFacts ==
  /\ \A x \in Damage : x \notin Cmd /\ x.fn \notin {"SET", "DEL"} /\ x.key = NoKey
  /\ NoCmd \notin Cmd
  /\ \A x \in Cmd : x.fn \in {"SET", "DEL"} /\ x.key \in Keys
BY DEF Damage, Part, BadLine, Cmd, NoCmd

LEMMA AppendKeeps ==
  ASSUME TypeInv, NEW w \in Workers, AppendCmd(w) \/ AppendFails(w)
  PROVE  /\ Logged \subseteq Logged' /\ CmdOf(req[w]) \in Logged'
         /\ file' \in Seq(Entry) /\ unlogged' \subseteq Cmd /\ FileInv'
         /\ \/ UNCHANGED <<file, stamps>>
            \/ Len(file') = Len(file) + 1 /\ stamps' = Append(stamps, now)
<1> DEFINE c == CmdOf(req[w])
<1>0. file \in Seq(Entry) /\ unlogged \subseteq Cmd /\ FileInv
  BY DEF TypeInv, TypeOK, Entry
<1>1. c \in Cmd /\ (c.fn = "SET" => c.val \in Vals)
  BY AppendEffect
<1>2. CASE NoLog(c)
  BY <1>0, <1>1, <1>2 DEF NoLog, Logged, FileInv
<1>3. ASSUME NEW entry \in {c} \cup Damage, Log(c, entry)
      PROVE  /\ Logged \subseteq Logged' /\ c \in Logged'
             /\ file' \in Seq(Entry) /\ unlogged' \subseteq Cmd /\ FileInv'
             /\ Len(file') = Len(file) + 1 /\ stamps' = Append(stamps, now)
  <2>1. entry \in Entry /\ (entry.fn = "SET" => entry.val \in Vals)
    BY <1>1, EntryFacts DEF Entry
  <2>2. file' = Append(file, entry) /\ stamps' = Append(stamps, now)
        /\ unlogged' = IF entry = c THEN unlogged \ {c} ELSE unlogged \cup {c}
    BY <1>3 DEF Log
  <2> HIDE DEF c
  <2>3. ToSet(file') = ToSet(file) \cup {entry} /\ file' \in Seq(Entry)
    <3>1. ToSet(Append(file, entry)) = ToSet(file) \cup {entry} /\ Append(file, entry) \in Seq(Entry)
      BY <1>0, <2>1, AppendSet
    <3> QED BY <2>2, <3>1
  <2>4. Logged \subseteq Logged' /\ c \in Logged' /\ unlogged' \subseteq Cmd
    BY <1>0, <1>1, <2>2, <2>3 DEF Logged
  <2>5. FileInv' /\ Len(file') = Len(file) + 1
    <3>1. /\ Len(Append(file, entry)) = Len(file) + 1
          /\ \A i \in DOMAIN Append(file, entry) :
               \/ i \in DOMAIN file /\ Append(file, entry)[i] = file[i]
               \/ Append(file, entry)[i] = entry
      <4>1. Append(file, entry) \in Seq(Entry) /\ Len(file) \in Nat
        BY <1>0, <2>1, AppendSet
      <4>2. /\ Len(Append(file, entry)) = Len(file) + 1 /\ DOMAIN file = 1 .. Len(file)
            /\ DOMAIN Append(file, entry) = 1 .. (Len(file) + 1)
            /\ Append(file, entry)[Len(file) + 1] = entry
            /\ \A i \in 1 .. Len(file) : Append(file, entry)[i] = file[i]
        BY <1>0
      <4> QED BY <4>1, <4>2
    <3> QED BY <1>0, <2>1, <2>2, <3>1 DEF FileInv
  <2> QED BY <2>2, <2>3, <2>4, <2>5
<1> QED BY <1>2, <1>3, AppendEffect DEF NoLog

LEMMA WorkerStep == TypeInv /\ [Next]_vars => WorkerInv'
<1> SUFFICES ASSUME TypeInv, [Next]_vars PROVE WorkerInv'
  OBVIOUS
<1> USE DEF TypeInv, TypeOK, WorkerInv, Holding, Goto, workerVars, mainVars, routeVars, logVars
<1>1. CASE UNCHANGED <<workerVars, pool_mutex>>
  BY <1>1
<1>2. ASSUME NEW w \in Workers, NEW r \in Request, Receive(w, r) PROVE WorkerInv'
  BY <1>2 DEF Receive
<1>3. ASSUME NEW w \in Workers, Route(w) PROVE WorkerInv'
  <2>1. req[w] \in Request /\ req[w].key \in Keys \cup {NoKey}
    BY <1>3, RequestFacts DEF Route
  <2>2. CASE req[w].key = NoKey
    BY <1>3, <2>2 DEF Route
  <2>3. CASE req[w].key # NoKey
    BY <1>3, <2>1, <2>3 DEF Route
  <2> QED BY <2>2, <2>3
<1>4. ASSUME NEW w \in Workers, RouteMissing(w) PROVE WorkerInv'
  BY <1>4 DEF RouteMissing
<1>5. ASSUME NEW w \in Workers, Lock(w) PROVE WorkerInv'
  BY <1>5, NobodyAssumption DEF Lock
<1>6. ASSUME NEW w \in Workers, ApplyPut(w) \/ ApplyDelete(w) PROVE WorkerInv'
  <2>1. /\ req[w].fn \in {"PUT", "DELETE"} /\ wpc[w] = "apply"
        /\ wpc' = [wpc EXCEPT ![w] = "append"] /\ UNCHANGED <<pool_mutex, req>>
    BY <1>6 DEF ApplyPut, ApplyDelete
  <2> QED BY <2>1
<1>7. ASSUME NEW w \in Workers, ApplyGet(w) PROVE WorkerInv'
  BY <1>7 DEF ApplyGet
<1>8. ASSUME NEW w \in Workers, AppendCmd(w) \/ AppendFails(w) PROVE WorkerInv'
  BY <1>8, AppendEffect
<1>9. ASSUME NEW w \in Workers, Unlock(w) PROVE WorkerInv'
  BY <1>9, NobodyAssumption DEF Unlock
<1>10. ASSUME NEW w \in Workers, Respond(w) PROVE WorkerInv'
  BY <1>10 DEF Respond
<1>11. ASSUME NEW kept, Die(kept) PROVE WorkerInv'
  BY <1>11, NobodyAssumption DEF Die
<1> QED BY <1>1, <1>2, <1>3, <1>4, <1>5, <1>6, <1>7, <1>8, <1>9, <1>10, <1>11
    DEF Next, vars, Boot, OpenLog, ReplayCommand, ReplayDamage, ReplayEnds, CountRoute, FillRoute, Serve,
        Tick, Kill, PowerCut, RouteCrash, ReplayCrash, Crash, Restart

LEMMA AnswerStep == TypeInv /\ [Next]_vars => AnswerInv'
<1> SUFFICES ASSUME TypeInv, [Next]_vars PROVE AnswerInv'
  OBVIOUS
<1>0. /\ WorkerInv /\ AnswerInv
      /\ wpc \in [Workers -> {"idle", "route", "lock", "apply", "append", "unlock", "respond"}]
      /\ req \in [Workers -> Request \cup {NoReq}]
      /\ res \in [Workers -> [status : {0, 200, 400, 404}, val : Vals \cup {Garbled, NoVal}]]
  BY DEF TypeInv, TypeOK
<1> USE DEF Goto, workerVars, mainVars, routeVars, logVars
<1>1. CASE \A w \in Workers : wpc'[w] = "respond" =>
             wpc[w] = "respond" /\ req'[w] = req[w] /\ res'[w] = res[w]
  BY <1>0, <1>1 DEF AnswerInv
<1>2. ASSUME NEW w \in Workers, Route(w) \/ RouteMissing(w) PROVE AnswerInv'
  <2>1. /\ UNCHANGED req
        /\ \/ res' = [res EXCEPT ![w] = [status |-> 400, val |-> NoVal]]
           \/ res' = [res EXCEPT ![w] = [status |-> 404, val |-> NoVal]]
           \/ UNCHANGED res /\ wpc' = [wpc EXCEPT ![w] = "lock"]
        /\ \A x \in Workers : x # w => wpc'[x] = wpc[x]
    BY <1>0, <1>2 DEF Route, RouteMissing, Answer
  <2> QED BY <1>0, <2>1 DEF AnswerInv
<1>3. ASSUME NEW w \in Workers, Unlock(w) PROVE AnswerInv'
  BY <1>0, <1>3 DEF Unlock, WorkerInv, Holding, AnswerInv
<1>4. ASSUME NEW w \in Workers,
             \/ \E r \in Request : Receive(w, r)
             \/ Lock(w) \/ ApplyPut(w) \/ ApplyDelete(w) \/ ApplyGet(w)
             \/ AppendCmd(w) \/ AppendFails(w) \/ Respond(w)
      PROVE  AnswerInv'
  <2>1. /\ \A x \in Workers \ {w} : wpc'[x] = wpc[x] /\ req'[x] = req[x] /\ res'[x] = res[x]
        /\ wpc'[w] # "respond"
    <3>1. CASE \E r \in Request : Receive(w, r)
      BY <1>0, <3>1 DEF Receive
    <3>2. CASE Lock(w) \/ AppendCmd(w) \/ AppendFails(w)
      <4>1. CASE Lock(w)
        BY <1>0, <4>1 DEF Lock
      <4>2. CASE AppendCmd(w) \/ AppendFails(w)
        BY <1>0, <4>2, AppendEffect
      <4> QED BY <3>2, <4>1, <4>2
    <3>3. CASE ApplyPut(w)
      BY <1>0, <3>3 DEF ApplyPut, Answer
    <3>4. CASE ApplyDelete(w) \/ ApplyGet(w)
      <4>1. /\ wpc' = [wpc EXCEPT ![w] = "append"] \/ wpc' = [wpc EXCEPT ![w] = "unlock"]
            /\ UNCHANGED req /\ \E y : res' = [res EXCEPT ![w] = y]
        BY <3>4 DEF ApplyDelete, ApplyGet, Answer
      <4> QED BY <1>0, <4>1
    <3>5. CASE Respond(w)
      BY <1>0, <3>5 DEF Respond
    <3> QED BY <1>4, <3>1, <3>2, <3>3, <3>4, <3>5
  <2> QED BY <1>1, <2>1
<1>5. ASSUME NEW kept, Die(kept) PROVE AnswerInv'
  BY <1>5 DEF Die, AnswerInv
<1>6. CASE UNCHANGED workerVars
  BY <1>1, <1>6
<1> QED BY <1>2, <1>3, <1>4, <1>5, <1>6
    DEF Next, vars, Boot, OpenLog, ReplayCommand, ReplayDamage, ReplayEnds, CountRoute, FillRoute, Serve,
        Tick, Kill, PowerCut, RouteCrash, ReplayCrash, Crash, Restart

\* the commands of the log: requests from a handler are commands
LEMMA FileStep == TypeInv /\ [Next]_vars => FileInv' /\ file' \in Seq(Entry)
<1> SUFFICES ASSUME TypeInv, [Next]_vars PROVE FileInv' /\ file' \in Seq(Entry)
  OBVIOUS
<1>0. file \in Seq(Entry) /\ durable \in 0 .. Len(file) /\ FileInv
  BY DEF TypeOK, TypeInv, Entry
<1>1. CASE UNCHANGED file
  BY <1>0, <1>1 DEF FileInv
<1>2. ASSUME NEW w \in Workers, AppendCmd(w) \/ AppendFails(w)
      PROVE  FileInv' /\ file' \in Seq(Entry)
  BY <1>2, AppendKeeps
<1>3. ASSUME NEW kept \in 0 .. Len(file), Die(kept) PROVE FileInv' /\ file' \in Seq(Entry)
  <2>1. file' = SubSeq(file, 1, kept)
    BY <1>3 DEF Die
  <2> QED BY <1>0, <2>1, Prefix DEF FileInv
<1>4. /\ \A kept \in durable .. Len(file) : kept \in 0 .. Len(file)
      /\ Len(file) \in 0 .. Len(file)
  BY <1>0
<1> QED BY <1>1, <1>2, <1>3, <1>4
    DEF Next, vars, logVars, Boot, OpenLog, ReplayCommand, ReplayDamage, ReplayEnds, CountRoute,
        FillRoute, Serve, Receive, Route, RouteMissing, Lock, ApplyPut, ApplyDelete, ApplyGet,
        Unlock, Respond, Tick, Kill, PowerCut, RouteCrash, ReplayCrash, Crash, Restart

\* the chains: a value in them comes from a request or from the log
LEMMA ChainStep == TypeInv /\ [Next]_vars => db' \in [Keys -> Seq(Node)]
<1> SUFFICES ASSUME TypeInv, [Next]_vars PROVE db' \in [Keys -> Seq(Node)]
  OBVIOUS
<1>0. db \in [Keys -> Seq(Node)]
  BY DEF TypeInv, TypeOK
<1>1. CASE UNCHANGED db
  BY <1>0, <1>1
<1>2. ASSUME NEW c, c.key \in Keys, c.fn = "DEL" \/ (c.fn = "SET" /\ c.val \in Vals \cup {Garbled}),
             Replayed(c)
      PROVE  db' \in [Keys -> Seq(Node)]
  <2>2. PICK equal : db' = [db EXCEPT ![c.key] =
                              CASE c.fn = "SET" -> Inserted(@, equal, c.val, TRUE)
                                [] c.fn = "DEL" -> Deleted(@, equal)]
    BY <1>2 DEF Replayed
  <2>3. db[c.key] \in Seq(Node)
    BY <1>0, <1>2
  <2>4. CASE c.fn = "SET"
    BY <1>0, <1>2, <2>2, <2>3, <2>4, InsertedChain
  <2>5. CASE c.fn = "DEL"
    BY <1>0, <1>2, <2>2, <2>3, <2>5, DeletedChain
  <2> QED BY <1>2, <2>4, <2>5
<1>6. CASE ReplayCommand
  <2>1. file[replay_pos + 1] \in Cmd /\ Replayed(file[replay_pos + 1])
        /\ replay_pos + 1 \in DOMAIN file
    BY <1>6 DEF ReplayCommand, TypeInv, TypeOK
  <2> QED BY <1>2, <2>1, EntryFacts DEF TypeInv, FileInv
<1>7. CASE ReplayDamage
  <2>1. UNCHANGED db \/ \E k \in Keys, fn \in {"SET", "DEL"} :
                            Replayed([fn |-> fn, key |-> k, val |-> Garbled])
    BY <1>7 DEF ReplayDamage
  <2> QED BY <1>1, <1>2, <2>1
<1>3. ASSUME NEW w \in Workers, ApplyPut(w) PROVE db' \in [Keys -> Seq(Node)]
  <2>1. req[w] \in Request /\ req[w].key \in Keys /\ req[w].fn = "PUT"
    BY <1>3 DEF ApplyPut, Goto, TypeInv, WorkerInv, Holding
  <2>2. req[w].val \in Vals
    BY <2>1, RequestFacts
  <2>3. PICK equal : db' = [db EXCEPT ![req[w].key] = Inserted(@, equal, req[w].val, FALSE)]
    BY <1>3 DEF ApplyPut
  <2>4. Inserted(db[req[w].key], equal, req[w].val, FALSE) \in Seq(Node)
    BY <1>0, <2>1, <2>2, InsertedChain
  <2> QED BY <1>0, <2>3, <2>4
<1>4. ASSUME NEW w \in Workers, ApplyDelete(w) PROVE db' \in [Keys -> Seq(Node)]
  <2>1. req[w].key \in Keys
    BY <1>4 DEF ApplyDelete, Goto, TypeInv, WorkerInv, Holding
  <2> QED BY <1>0, <1>4, <2>1, DeletedChain DEF ApplyDelete
<1>5. ASSUME NEW kept, Die(kept) PROVE db' \in [Keys -> Seq(Node)]
  BY <1>5 DEF Die
<1> QED BY <1>1, <1>3, <1>4, <1>5, <1>6, <1>7
    DEF Next, vars, Boot, OpenLog, ReplayEnds, CountRoute, FillRoute, Serve,
        Receive, Route, RouteMissing, Lock, ApplyGet, AppendCmd, AppendFails, Unlock, Respond,
        Tick, Kill, PowerCut, RouteCrash, ReplayCrash, Crash, Restart

LEMMA TypeStep == TypeInv /\ [Next]_vars => TypeInv'
<1> SUFFICES ASSUME TypeInv, [Next]_vars PROVE TypeOK'
  BY WorkerStep, AnswerStep, FileStep DEF TypeInv
<1>0. file' \in Seq(Cmd \cup Damage) /\ db' \in [Keys -> Seq(Node)]
  BY FileStep, ChainStep DEF Entry
<1> USE DEF TypeOK, Goto, Answer, workerVars, mainVars, routeVars, logVars
<1>1. CASE UNCHANGED vars
  BY <1>1 DEF TypeInv, vars
<1>2. CASE OpenLog
  BY <1>0, <1>2, BoundAssumption DEF TypeInv, OpenLog
<1>3. CASE ReplayCommand \/ ReplayDamage
  <2>1. /\ replay_pos \in 0 .. Len(file) /\ replay_pos < Len(file) /\ replay_pos' = replay_pos + 1
        /\ UNCHANGED <<phase, routeVars, pool_mutex, global_open, logVars, workerVars, now,
                       received, crashes, boot_len, last, acked>>
    BY <1>3 DEF TypeInv, ReplayCommand, ReplayDamage, Damaged
  <2>2. replay_pos' \in 0 .. Len(file)
    BY <2>1
  <2> QED BY <1>0, <2>1, <2>2 DEF TypeInv
<1>4. CASE ReplayEnds
  BY <1>0, <1>4 DEF TypeInv, ReplayEnds
<1>5. CASE CountRoute
  BY <1>0, <1>5 DEF TypeInv, CountRoute
<1>6. CASE FillRoute
  BY <1>0, <1>6 DEF TypeInv, FillRoute
<1>7. ASSUME NEW w \in Workers, NEW r \in Request, Receive(w, r) PROVE TypeOK'
  BY <1>0, <1>7, BoundAssumption DEF TypeInv, Receive
<1>8. ASSUME NEW w \in Workers, Route(w) PROVE TypeOK'
  <2>1. res' \in [Workers -> [status : {0, 200, 400, 404}, val : Vals \cup {Garbled, NoVal}]]
    <3>1. UNCHANGED res \/ res' = [res EXCEPT ![w] = [status |-> 400, val |-> NoVal]]
      BY <1>8 DEF Route
    <3> DEFINE R == [status : {0, 200, 400, 404}, val : Vals \cup {Garbled, NoVal}]
    <3>2. [status |-> 400, val |-> NoVal] \in R
      OBVIOUS
    <3>3. res \in [Workers -> R]
      BY DEF TypeInv
    <3> HIDE DEF R, TypeOK
    <3>4. res' \in [Workers -> R]
      BY <3>1, <3>2, <3>3
    <3> QED BY <3>4 DEF R
  <2>2. wpc' = [wpc EXCEPT ![w] = "respond"] \/ wpc' = [wpc EXCEPT ![w] = "lock"]
    BY <1>8 DEF Route
  <2>3. /\ wpc' \in [Workers -> {"idle", "route", "lock", "apply", "append", "unlock", "respond"}]
        /\ UNCHANGED <<mainVars, routeVars, pool_mutex, db, global_open, logVars, req, now,
                       received, crashes, boot_len, last, acked>>
    BY <1>8, <2>2 DEF TypeInv, Route
  <2> QED BY <1>0, <2>1, <2>3 DEF TypeInv
<1>9. ASSUME NEW w \in Workers, RouteMissing(w) PROVE TypeOK'
  BY <1>0, <1>9 DEF TypeInv, RouteMissing
<1>10. ASSUME NEW w \in Workers, Lock(w) PROVE TypeOK'
  BY <1>0, <1>10 DEF TypeInv, Lock
<1>11. ASSUME NEW w \in Workers, ApplyPut(w) PROVE TypeOK'
  <2>1. req[w] \in Request /\ req[w].key \in Keys /\ req[w].fn = "PUT"
    BY <1>11 DEF ApplyPut, TypeInv, WorkerInv, Holding
  <2>2. [fn |-> "SET", key |-> req[w].key, val |-> req[w].val] \in Cmd
    BY <2>1, RequestFacts DEF CmdOf
  <2>3. last' \in [Keys -> Cmd \cup {NoCmd}]
    BY <1>11, <2>1, <2>2 DEF TypeInv, ApplyPut
  <2> QED BY <1>0, <1>11, <2>3 DEF TypeInv, ApplyPut
<1>12. ASSUME NEW w \in Workers, ApplyDelete(w) PROVE TypeOK'
  <2>1. req[w].key \in Keys
    BY <1>12 DEF ApplyDelete, TypeInv, WorkerInv, Holding
  <2>2. [fn |-> "DEL", key |-> req[w].key, val |-> NoVal] \in Cmd
    BY <2>1 DEF Cmd
  <2>3. last' \in [Keys -> Cmd \cup {NoCmd}]
    BY <1>12, <2>1, <2>2 DEF TypeInv, ApplyDelete
  <2>4. res' \in [Workers -> [status : {0, 200, 400, 404}, val : Vals \cup {Garbled, NoVal}]]
    BY <1>12 DEF TypeInv, ApplyDelete
  <2> QED BY <1>0, <1>12, <2>3, <2>4 DEF TypeInv, ApplyDelete
<1>13. ASSUME NEW w \in Workers, ApplyGet(w) PROVE TypeOK'
  <2>1. req[w].key \in Keys /\ db[req[w].key] \in Seq(Node)
    BY <1>13 DEF ApplyGet, TypeInv, WorkerInv, Holding
  <2>2. PICK equal : LET v == Read(db[req[w].key], equal)
                     IN Answer(w, IF v = NoVal THEN 404 ELSE 200, v)
    BY <1>13 DEF ApplyGet
  <2>3. Read(db[req[w].key], equal) \in Vals \cup {Garbled, NoVal}
    <3>1. \A i \in DOMAIN db[req[w].key] : db[req[w].key][i].val \in Vals \cup {Garbled}
      <4>1. \A i \in DOMAIN db[req[w].key] : db[req[w].key][i] \in Node
        BY <2>1
      <4> QED BY <4>1 DEF Node
    <3> QED BY <2>1, <3>1, ReadChain
  <2>4. res' \in [Workers -> [status : {0, 200, 400, 404}, val : Vals \cup {Garbled, NoVal}]]
    BY <2>2, <2>3 DEF TypeInv
  <2> QED BY <1>0, <1>13, <2>4 DEF TypeInv, ApplyGet
<1>14. ASSUME NEW w \in Workers, AppendCmd(w) \/ AppendFails(w) PROVE TypeOK'
  <2>1. /\ unlogged' \subseteq Cmd /\ wpc' = [wpc EXCEPT ![w] = "unlock"]
        /\ UNCHANGED <<mainVars, routeVars, pool_mutex, db, global_open, req, res, now,
                       received, crashes, boot_len, last, acked>>
        /\ \/ UNCHANGED <<file, stamps>>
           \/ Len(file') = Len(file) + 1 /\ stamps' = Append(stamps, now)
    BY <1>14, AppendEffect, AppendKeeps
  <2>2. /\ stamps' \in Seq(0 .. MaxTime) /\ Len(stamps') = Len(file') /\ Len(file') >= Len(file)
    <3>1. stamps \in Seq(0 .. MaxTime) /\ Len(stamps) = Len(file) /\ now \in 0 .. MaxTime
          /\ Len(file) \in Nat
      BY DEF TypeInv
    <3> HIDE DEF TypeOK
    <3>2. /\ Append(stamps, now) \in Seq(0 .. MaxTime)
          /\ Len(Append(stamps, now)) = Len(stamps) + 1
      BY <3>1
    <3>3. CASE UNCHANGED <<file, stamps>>
      BY <3>1, <3>3
    <3>4. CASE Len(file') = Len(file) + 1 /\ stamps' = Append(stamps, now)
      BY <3>1, <3>2, <3>4
    <3> QED BY <2>1, <3>3, <3>4
  <2>3. /\ durable' \in {durable, Len(file')} /\ last_sync' \in {last_sync, now}
        /\ unsure' \in BOOLEAN
    BY <1>14 DEF AppendCmd, AppendFails, Fsync, NoSync, TypeInv
  <2>4. durable' \in 0 .. Len(file') /\ last_sync' \in 0 .. MaxTime /\ replay_pos \in 0 .. Len(file')
    BY <1>0, <2>2, <2>3 DEF TypeInv
  <2>5. fails' \in 0 .. MaxFails
    <3>1. fails \in 0 .. MaxFails /\ MaxFails \in Nat
      BY BoundAssumption DEF TypeInv
    <3>2. fails' = fails \/ (fails < MaxFails /\ fails' = fails + 1)
      BY <1>14 DEF AppendCmd, AppendFails
    <3> HIDE DEF TypeOK
    <3> QED BY <3>1, <3>2
  <2> QED BY <1>0, <2>1, <2>2, <2>3, <2>4, <2>5 DEF TypeInv
<1>15. ASSUME NEW w \in Workers, Unlock(w) PROVE TypeOK'
  BY <1>0, <1>15 DEF TypeInv, Unlock
<1>16. ASSUME NEW w \in Workers, Respond(w) PROVE TypeOK'
  <2>1. acked' \subseteq Cmd
    <3>1. req[w] \in Request
      BY <1>16 DEF Respond, TypeInv, WorkerInv
    <3>2. (req[w].fn = "PUT" /\ res[w].status = 200) => req[w].key \in Keys
      BY <1>16 DEF Respond, TypeInv, AnswerInv
    <3> QED BY <1>16, <3>1, <3>2, RequestFacts DEF Respond, TypeInv
  <2>2. NoRes \in [status : {0, 200, 400, 404}, val : Vals \cup {Garbled, NoVal}]
    BY DEF NoRes
  <2> QED BY <1>0, <1>16, <2>1, <2>2 DEF TypeInv, Respond
<1>17. CASE Tick
  BY <1>0, <1>17, BoundAssumption DEF TypeInv, Tick
<1>18. ASSUME NEW kept \in 0 .. Len(file), Die(kept), crashes' \in 0 .. MaxCrashes,
              durable' \in 0 .. kept, acked' \subseteq acked, unsure' \in BOOLEAN
       PROVE  TypeOK'
  <2>1. file' = SubSeq(file, 1, kept) /\ stamps' = SubSeq(stamps, 1, kept)
    BY <1>18 DEF Die
  <2>2. /\ stamps' \in Seq(0 .. MaxTime) /\ Len(stamps') = kept /\ Len(file') = kept
    <3>1. /\ stamps \in Seq(0 .. MaxTime) /\ kept \in 0 .. Len(stamps)
          /\ file \in Seq(Cmd \cup Damage) /\ kept \in 0 .. Len(file)
      BY <1>18 DEF TypeInv
    <3> HIDE DEF TypeOK
    <3>2. SubSeq(stamps, 1, kept) \in Seq(0 .. MaxTime) /\ Len(SubSeq(stamps, 1, kept)) = kept
      BY <3>1, Prefix
    <3>3. Len(SubSeq(file, 1, kept)) = kept
      BY <3>1, Prefix
    <3> QED BY <2>1, <3>2, <3>3
  <2>3. /\ NoRes \in [status : {0, 200, 400, 404}, val : Vals \cup {Garbled, NoVal}]
        /\ 0 \in 0 .. MaxTime /\ 0 \in 0 .. Len(file')
    BY <1>18, <2>2, BoundAssumption DEF NoRes, TypeInv
  <2>4. /\ wpc' \in [Workers -> {"idle"}] /\ req' \in [Workers -> {NoReq}]
        /\ res' \in [Workers -> {NoRes}] /\ last' \in [Keys -> {NoCmd}]
    BY <1>18 DEF Die
  <2>5. /\ phase' = "down" /\ replay_pos' = 0 /\ route_count' = 0 /\ routes_set' = 0
        /\ pool_mutex' = Nobody /\ global_open' = FALSE /\ last_sync' = 0
        /\ UNCHANGED <<now, received, boot_len, unlogged, fails>>
    BY <1>18 DEF Die
  <2>6. durable' \in 0 .. Len(file') /\ acked' \subseteq Cmd
    BY <1>18, <2>2 DEF TypeInv
  <2>7. /\ wpc' \in [Workers -> {"idle", "route", "lock", "apply", "append", "unlock", "respond"}]
        /\ req' \in [Workers -> Request \cup {NoReq}] /\ last' \in [Keys -> Cmd \cup {NoCmd}]
        /\ res' \in [Workers -> [status : {0, 200, 400, 404}, val : Vals \cup {Garbled, NoVal}]]
    BY <2>3, <2>4
  <2>8. /\ phase' \in {"open", "replay", "routes", "serving", "down"} /\ replay_pos' \in 0 .. Len(file')
        /\ route_count' \in 0 .. 3 /\ routes_set' \in 0 .. 3 /\ pool_mutex' \in Workers \cup {Nobody}
        /\ last_sync' \in 0 .. MaxTime /\ crashes' \in 0 .. MaxCrashes
        /\ now' \in 0 .. MaxTime /\ received' \in 0 .. MaxRequests /\ boot_len' \in Nat
        /\ unlogged' \subseteq Cmd /\ unsure' \in BOOLEAN /\ fails' \in 0 .. MaxFails
    <3>1. now \in 0 .. MaxTime /\ received \in 0 .. MaxRequests /\ boot_len \in Nat
          /\ unlogged \subseteq Cmd /\ fails \in 0 .. MaxFails
      BY DEF TypeInv
    <3> HIDE DEF TypeOK
    <3> QED BY <1>18, <2>3, <2>5, <3>1
  <2>9. global_open' \in BOOLEAN
    BY <2>5
  <2> QED BY <1>0, <2>2, <2>6, <2>7, <2>8, <2>9
<1>19. CASE Restart
  BY <1>0, <1>19 DEF TypeInv, Restart
<1>20. CASE Kill \/ PowerCut \/ ReplayCrash \/ \E w \in Workers : RouteCrash(w)
  <2>0. /\ durable \in 0 .. Len(file) /\ Len(file) \in 0 .. Len(file) /\ unsure \in BOOLEAN
        /\ crashes \in 0 .. MaxCrashes
    BY DEF TypeInv
  <2> HIDE DEF TypeOK
  <2>1. crashes < MaxCrashes => crashes + 1 \in 0 .. MaxCrashes
    BY <2>0, BoundAssumption
  <2>2. CASE Kill \/ ReplayCrash \/ \E w \in Workers : RouteCrash(w)
    <3>1. /\ Die(Len(file)) /\ UNCHANGED <<durable, acked, unsure>>
          /\ crashes' = crashes \/ (crashes < MaxCrashes /\ crashes' = crashes + 1)
      BY <2>2 DEF Kill, ReplayCrash, RouteCrash, Crash
    <3> QED BY <1>18, <2>0, <2>1, <3>1
  <2>3. CASE PowerCut
    <3>1. PICK kept \in durable .. Len(file) :
            /\ Crash(kept) /\ durable' = kept
            /\ acked' = acked \cap (ToSet(SubSeq(file, 1, kept)) \cup unlogged)
      BY <2>3 DEF PowerCut
    <3>2. kept \in 0 .. Len(file) /\ durable' \in 0 .. kept /\ acked' \subseteq acked
      BY <2>0, <3>1
    <3>3. crashes < MaxCrashes /\ crashes' = crashes + 1 /\ Die(kept) /\ unsure' = FALSE
      BY <2>3, <3>1 DEF PowerCut, Crash
    <3> QED BY <1>18, <2>1, <3>2, <3>3
  <2> QED BY <1>20, <2>2, <2>3
<1> HIDE DEF TypeOK, Goto, Answer
<1> QED BY <1>1, <1>2, <1>3, <1>4, <1>5, <1>6, <1>7, <1>8, <1>9, <1>10, <1>11, <1>12, <1>13,
           <1>14, <1>15, <1>16, <1>17, <1>19, <1>20
    DEF Next, Boot, Serve

(* Every variable keeps its type, whatever crashes and whenever.            *)
THEOREM TypeCorrect == Spec => []TypeOK
<1>1. TypeInv => TypeOK
  BY DEF TypeInv
<1> QED BY TypeInvInit, TypeStep, <1>1, PTL DEF Spec
-----------------------------------------------------------------------------
(* The start of a process: until the log is replayed no request gets past   *)
(* route_req, and the map holds nothing but what the replay put there.      *)

BootInv ==
  /\ phase \in {"open", "replay", "down"} =>
       /\ route_count = 0 /\ routes_set = 0
       /\ \A k \in Keys : last[k] = NoCmd
       /\ \A w \in Workers : /\ wpc[w] \in {"idle", "route", "respond"}
                             /\ wpc[w] = "respond" => res[w].status = 404
  /\ phase \in {"open", "replay"} => boot_len = Len(file)
  /\ phase \in {"open", "down"} => ~global_open /\ \A k \in Keys : db[k] = <<>>
  /\ phase = "down" \/ boot_len <= Len(file)
  /\ last_sync <= now

LEMMA BootInvInit == Init => BootInv
BY DEF Init, BootInv

LEMMA BootStep == TypeInv /\ BootInv /\ [Next]_vars => BootInv'
<1> SUFFICES ASSUME TypeInv, BootInv, [Next]_vars PROVE BootInv'
  OBVIOUS
<1>0. /\ wpc \in [Workers -> {"idle", "route", "lock", "apply", "append", "unlock", "respond"}]
      /\ res \in [Workers -> [status : {0, 200, 400, 404}, val : Vals \cup {Garbled, NoVal}]]
      /\ last \in [Keys -> Cmd \cup {NoCmd}] /\ file \in Seq(Cmd \cup Damage)
      /\ boot_len \in Nat /\ now \in Nat /\ last_sync \in Nat /\ routes_set \in 0 .. 3
      /\ \A w \in Workers : wpc[w] = "route" => RouteOf(req[w].fn) \in 1 .. 3
  BY RequestFacts, BoundAssumption DEF TypeInv, TypeOK, WorkerInv
<1> USE DEF Goto, Answer, workerVars, mainVars, routeVars, logVars
<1>1. CASE OpenLog
  BY <1>0, <1>1 DEF BootInv, OpenLog
<1>2. CASE ReplayCommand \/ ReplayDamage
  <2>1. /\ phase = "replay"
        /\ UNCHANGED <<phase, routeVars, global_open, logVars, workerVars, now, boot_len, last>>
    BY <1>2 DEF ReplayCommand, ReplayDamage, Damaged
  <2> QED BY <2>1 DEF BootInv
<1>3. CASE ReplayEnds
  BY <1>3 DEF BootInv, ReplayEnds
<1>4. CASE CountRoute \/ FillRoute
  BY <1>4 DEF BootInv, CountRoute, FillRoute
<1>5. ASSUME NEW w \in Workers, NEW r \in Request, Receive(w, r) PROVE BootInv'
  BY <1>0, <1>5 DEF BootInv, Receive
<1>6. ASSUME NEW w \in Workers, Route(w) PROVE BootInv'
  <2>1. routes_set # 0
    BY <1>0, <1>6 DEF Route
  <2>2. phase \notin {"open", "replay", "down"}
    BY <2>1 DEF BootInv
  <2>3. UNCHANGED <<phase, boot_len, file, last_sync, now>>
    BY <1>6 DEF Route
  <2> QED BY <2>2, <2>3 DEF BootInv
<1>7. ASSUME NEW w \in Workers, RouteMissing(w) PROVE BootInv'
  BY <1>0, <1>7 DEF BootInv, RouteMissing
<1>8. ASSUME NEW w \in Workers,
             \/ Lock(w) \/ ApplyPut(w) \/ ApplyDelete(w) \/ ApplyGet(w) \/ Unlock(w)
             \/ AppendCmd(w) \/ AppendFails(w)
      PROVE  BootInv'
  <2>1. phase \notin {"open", "replay", "down"}
    BY <1>8 DEF BootInv, Lock, ApplyPut, ApplyDelete, ApplyGet, AppendCmd, AppendFails, Unlock
  <2>2. /\ UNCHANGED <<phase, boot_len, now>> /\ last_sync' \in {last_sync, now}
    BY <1>8 DEF Lock, ApplyPut, ApplyDelete, ApplyGet, AppendCmd, AppendFails, Unlock, Fsync, NoSync
  <2>3. Len(file') >= Len(file)
    <3>1. UNCHANGED file \/ Len(file') = Len(file) + 1
      BY <1>8, AppendKeeps DEF Lock, ApplyPut, ApplyDelete, ApplyGet, Unlock
    <3> QED BY <1>0, <3>1
  <2> QED BY <1>0, <2>1, <2>2, <2>3 DEF BootInv
<1>9. ASSUME NEW w \in Workers, Respond(w) PROVE BootInv'
  BY <1>0, <1>9 DEF BootInv, Respond
<1>10. CASE Tick
  BY <1>0, <1>10 DEF BootInv, Tick
<1>11. ASSUME NEW kept, Die(kept) PROVE BootInv'
  BY <1>0, <1>11 DEF BootInv, Die
<1>12. CASE Restart
  BY <1>0, <1>12 DEF BootInv, Restart
<1>13. CASE UNCHANGED vars
  BY <1>13 DEF BootInv, vars
<1> QED BY <1>1, <1>2, <1>3, <1>4, <1>5, <1>6, <1>7, <1>8, <1>9, <1>10, <1>11, <1>12, <1>13
    DEF Next, Boot, Serve, Kill, PowerCut, RouteCrash, ReplayCrash, Crash

LEMMA BootInvHolds == Spec => [](TypeInv /\ BootInv)
BY TypeInvInit, TypeStep, BootInvInit, BootStep, PTL DEF Spec

(* No request reaches a handler before the log is replayed.                 *)
THEOREM ServedAfterReplay == Spec => []NoHandlerDuringReplay
<1>1. BootInv => NoHandlerDuringReplay
  BY DEF BootInv, NoHandlerDuringReplay, InHandler
<1> QED BY BootInvHolds, <1>1, PTL
-----------------------------------------------------------------------------
(* The log and what clients get to see.  Every value in the map is in the    *)
(* log, or of a command that left no record (both: Logged), but for the one  *)
(* that the holder of pool_mutex is about to append; so is what a worker has *)
(* read or stored.                                                           *)

SetCmd(k, v) == [fn |-> "SET", key |-> k, val |-> v]
Appending(k, v) == \E w \in Workers : wpc[w] = "append" /\ CmdOf(req[w]) = SetCmd(k, v)
Known(k, v) == v = Garbled \/ SetCmd(k, v) \in Logged

SeenInv ==
  \A w \in Workers : (wpc[w] \in {"unlock", "respond"} /\ res[w].status = 200) =>
    /\ req[w].fn = "PUT" => CmdOf(req[w]) \in Logged
    /\ req[w].fn = "GET" => Known(req[w].key, res[w].val)

MapInv ==
  \A k \in Keys : \A i \in DOMAIN db[k] : Known(k, db[k][i].val) \/ Appending(k, db[k][i].val)

LogInv == MapInv /\ SeenInv /\ AckedIsLogged

LEMMA LogInvInit == Init => LogInv
BY DEF Init, LogInv, MapInv, SeenInv, AckedIsLogged

\* only a crash takes anything from the log
LEMMA LogKeeps ==
  ASSUME TypeInv, [Next]_vars, ~\E kept \in 0 .. Len(file) : Die(kept)
  PROVE  Logged \subseteq Logged'
<1>1. file \in Seq(Entry) /\ durable \in 0 .. Len(file)
  BY DEF TypeInv, TypeOK, Entry
<1>2. CASE UNCHANGED <<file, unlogged>>
  BY <1>2 DEF Logged
<1>3. ASSUME NEW w \in Workers, AppendCmd(w) \/ AppendFails(w) PROVE Logged \subseteq Logged'
  BY <1>3, AppendKeeps
<1>4. Len(file) \in 0 .. Len(file) /\ \A kept \in durable .. Len(file) : kept \in 0 .. Len(file)
  BY <1>1
<1> QED BY <1>2, <1>3, <1>4
    DEF Next, vars, logVars, Boot, OpenLog, ReplayCommand, ReplayDamage, ReplayEnds, CountRoute,
        FillRoute, Serve, Receive, Route, RouteMissing, Lock, ApplyPut, ApplyDelete, ApplyGet,
        Unlock, Respond, Tick, Kill, PowerCut, RouteCrash, ReplayCrash, Crash, Restart

\* one worker at a time between Lock and Unlock
LEMMA Exclusion ==
  ASSUME TypeInv, NEW w \in Workers, Holding(w)
  PROVE  \A x \in Workers : x # w => ~Holding(x)
BY DEF TypeInv, WorkerInv

LEMMA MapStep == TypeInv /\ BootInv /\ MapInv /\ [Next]_vars => MapInv'
<1> SUFFICES ASSUME TypeInv, BootInv, MapInv, [Next]_vars PROVE MapInv'
  OBVIOUS
<1>0. /\ wpc \in [Workers -> {"idle", "route", "lock", "apply", "append", "unlock", "respond"}]
      /\ db \in [Keys -> Seq(Node)] /\ req \in [Workers -> Request \cup {NoReq}]
  BY DEF TypeInv, TypeOK
<1> USE DEF Goto, workerVars, mainVars, routeVars, logVars
<1>1. ASSUME NEW kept, Die(kept) PROVE MapInv'
  BY <1>1 DEF Die, MapInv
<1>2. ASSUME Logged \subseteq Logged', NEW k \in Keys, NEW v, Known(k, v)
      PROVE  v = Garbled \/ SetCmd(k, v) \in Logged'
  BY <1>2 DEF Known
<1>3. CASE OpenLog
  BY <1>3 DEF OpenLog, BootInv, MapInv
<1>4. CASE /\ UNCHANGED <<db, file, unlogged>>
            /\ \A w \in Workers : wpc[w] = "append" => wpc'[w] = "append" /\ req'[w] = req[w]
  <2>1. ASSUME NEW k \in Keys, NEW i \in DOMAIN db[k], Appending(k, db[k][i].val)
        PROVE  Appending(k, db[k][i].val)'
    BY <1>4, <2>1 DEF Appending, CmdOf
  <2> QED BY <1>4, <2>1 DEF MapInv, Known, Logged
<1>5. ASSUME NEW c, c.key \in Keys, Replayed(c), Logged \subseteq Logged', phase = "replay",
             \/ c.fn = "DEL"
             \/ c.fn = "SET" /\ c.val \in Vals \cup {Garbled} /\ Known(c.key, c.val)
      PROVE  MapInv'
  <2>1. PICK equal : db' = [db EXCEPT ![c.key] =
                              CASE c.fn = "SET" -> Inserted(@, equal, c.val, TRUE)
                                [] c.fn = "DEL" -> Deleted(@, equal)]
    BY <1>5 DEF Replayed
  <2>2. \A k \in Keys : \A i \in DOMAIN db[k] : Known(k, db[k][i].val)
    BY <1>5 DEF MapInv, Appending, BootInv
  <2>3. ASSUME NEW k \in Keys, NEW i \in DOMAIN db'[k] PROVE Known(k, db'[k][i].val)
    <3>1. CASE k # c.key
      BY <1>0, <2>1, <2>2, <2>3, <3>1
    <3>2. CASE k = c.key /\ c.fn = "SET"
      <4>1. db'[k] = Inserted(db[k], equal, c.val, TRUE)
        BY <1>0, <2>1, <3>2
      <4>2. \A j \in DOMAIN Inserted(db[k], equal, c.val, TRUE) :
              \/ Inserted(db[k], equal, c.val, TRUE)[j].val = c.val
              \/ j \in DOMAIN db[k] /\ Inserted(db[k], equal, c.val, TRUE)[j].val = db[k][j].val
        <5>1. db[k] \in Seq(Node) /\ c.val \in Vals \cup {Garbled} /\ TRUE \in BOOLEAN
          BY <1>0, <1>5, <3>2
        <5> QED BY <5>1, InsertedChain, Zenon
      <4> QED BY <1>5, <2>2, <2>3, <3>2, <4>1, <4>2
    <3>3. CASE k = c.key /\ c.fn = "DEL"
      <4>1. db'[k] = Deleted(db[k], equal)
        BY <1>0, <2>1, <3>3
      <4>2. i \in DOMAIN db[k] /\ db'[k][i].val = db[k][i].val
        BY <1>0, <2>3, <4>1, DeletedChain
      <4> QED BY <2>2, <4>2
    <3> QED BY <1>5, <3>1, <3>2, <3>3
  <2> QED BY <1>5, <2>3 DEF MapInv, Known
<1>6. CASE ReplayCommand
  <2> DEFINE c == file[replay_pos + 1]
  <2>1. c \in Cmd /\ Replayed(c) /\ phase = "replay" /\ UNCHANGED <<file, unlogged>>
    BY <1>6 DEF ReplayCommand
  <2>2. c \in ToSet(file) /\ (c.fn = "SET" => c.val \in Vals)
    BY <1>6 DEF TypeInv, TypeOK, FileInv, ReplayCommand, ToSet
  <2> HIDE DEF c
  <2>3. c.key \in Keys /\ c.fn \in {"SET", "DEL"} /\ (c.fn = "SET" => c = SetCmd(c.key, c.val))
    BY <2>1 DEF Cmd, SetCmd
  <2>4. c.fn = "SET" => Known(c.key, c.val)
    BY <2>2, <2>3 DEF Known, Logged
  <2> QED BY <1>5, <2>1, <2>2, <2>3, <2>4 DEF Logged
<1>7. CASE ReplayDamage
  <2>1. phase = "replay" /\ UNCHANGED <<file, unlogged, wpc, req>>
    BY <1>7 DEF ReplayDamage, Damaged
  <2>2. CASE UNCHANGED db
    BY <1>4, <2>1, <2>2
  <2>3. ASSUME NEW k \in Keys, NEW fn \in {"SET", "DEL"},
               Replayed([fn |-> fn, key |-> k, val |-> Garbled])
        PROVE  MapInv'
    <3>1. PICK c : c = [fn |-> fn, key |-> k, val |-> Garbled]
      OBVIOUS
    <3>2. c.key \in Keys /\ c.fn \in {"SET", "DEL"} /\ c.val = Garbled /\ Replayed(c)
      BY <2>3, <3>1
    <3> QED BY <1>5, <2>1, <3>2 DEF Known, Logged
  <2> QED BY <1>7, <2>2, <2>3 DEF ReplayDamage
<1>8. ASSUME NEW w \in Workers, ApplyPut(w) PROVE MapInv'
  <2>1. /\ wpc[w] = "apply" /\ wpc' = [wpc EXCEPT ![w] = "append"] /\ req[w].fn = "PUT"
        /\ UNCHANGED <<req, file, unlogged>>
    BY <1>8 DEF ApplyPut
  <2>2. /\ req[w] \in Request /\ req[w].key \in Keys /\ db[req[w].key] \in Seq(Node)
    BY <1>0, <2>1 DEF TypeInv, WorkerInv, Holding
  <2>3. req[w].val \in Vals /\ CmdOf(req[w]) = SetCmd(req[w].key, req[w].val)
    BY <2>1, <2>2, RequestFacts DEF CmdOf, SetCmd
  <2>4. PICK equal : db' = [db EXCEPT ![req[w].key] = Inserted(@, equal, req[w].val, FALSE)]
    BY <1>8 DEF ApplyPut
  <2>5. ASSUME NEW k \in Keys, NEW i \in DOMAIN db'[k]
        PROVE  Known(k, db'[k][i].val) \/ Appending(k, db[k][i].val)'
    <3>1. \A j \in DOMAIN db[k] : Known(k, db[k][j].val)
      BY <2>1, <2>5, Exclusion DEF MapInv, Appending, Holding
    <3>2. CASE k # req[w].key
      BY <1>0, <2>4, <2>5, <3>1, <3>2
    <3>3. CASE k = req[w].key
      <4>1. db'[k] = Inserted(db[k], equal, req[w].val, FALSE)
        BY <1>0, <2>2, <2>4, <3>3
      <4>2. \A j \in DOMAIN Inserted(db[k], equal, req[w].val, FALSE) :
              \/ Inserted(db[k], equal, req[w].val, FALSE)[j].val = req[w].val
              \/ j \in DOMAIN db[k]
                   /\ Inserted(db[k], equal, req[w].val, FALSE)[j].val = db[k][j].val
        <5>1. db[k] \in Seq(Node) /\ req[w].val \in Vals \cup {Garbled} /\ FALSE \in BOOLEAN
          BY <1>0, <2>3
        <5> QED BY <5>1, InsertedChain, Zenon
      <4>3. wpc'[w] = "append" /\ CmdOf(req'[w]) = SetCmd(k, req[w].val)
        BY <1>0, <2>1, <2>3, <3>3
      <4>4. db'[k][i].val = req[w].val => Appending(k, db[k][i].val)'
        BY <4>3 DEF Appending, CmdOf, SetCmd
      <4> QED BY <2>5, <3>1, <4>1, <4>2, <4>4
    <3> QED BY <3>2, <3>3
  <2> QED BY <2>1, <2>5 DEF MapInv, Known, Logged
<1>9. ASSUME NEW w \in Workers, ApplyDelete(w) PROVE MapInv'
  <2>1. /\ wpc[w] = "apply" /\ UNCHANGED <<file, unlogged>>
    BY <1>9 DEF ApplyDelete
  <2>2. PICK equal : db' = [db EXCEPT ![req[w].key] = Deleted(@, equal)]
    BY <1>9 DEF ApplyDelete
  <2>3. ASSUME NEW k \in Keys, NEW i \in DOMAIN db'[k] PROVE Known(k, db'[k][i].val)
    <3>1. \A j \in DOMAIN db[k] : Known(k, db[k][j].val)
      BY <2>1, <2>3, Exclusion DEF MapInv, Appending, Holding
    <3>2. i \in DOMAIN db[k] /\ db'[k][i].val = db[k][i].val
      BY <1>0, <2>2, <2>3, DeletedChain
    <3> QED BY <3>1, <3>2
  <2> QED BY <2>1, <2>3 DEF MapInv, Known, Logged
<1>10. ASSUME NEW w \in Workers, AppendCmd(w) \/ AppendFails(w) PROVE MapInv'
  <2>1. /\ wpc[w] = "append" /\ UNCHANGED db
        /\ Logged \subseteq Logged' /\ CmdOf(req[w]) \in Logged'
    BY <1>10, AppendEffect, AppendKeeps
  <2>2. \A k \in Keys : \A v : Appending(k, v) => CmdOf(req[w]) = SetCmd(k, v)
    BY <2>1, Exclusion DEF Appending, Holding
  <2>3. ASSUME NEW k \in Keys, NEW i \in DOMAIN db[k]
        PROVE  db[k][i].val = Garbled \/ SetCmd(k, db[k][i].val) \in Logged'
    BY <1>2, <2>1, <2>2, <2>3 DEF MapInv
  <2> QED BY <2>1, <2>3 DEF MapInv, Known
<1>11. ASSUME NEW w \in Workers,
              \/ \E r \in Request : Receive(w, r)
              \/ Route(w) \/ RouteMissing(w) \/ Lock(w) \/ ApplyGet(w) \/ Unlock(w) \/ Respond(w)
       PROVE  MapInv'
  <2>1. UNCHANGED <<db, file, unlogged>>
    BY <1>11 DEF Receive, Route, RouteMissing, Lock, ApplyGet, Unlock, Respond
  <2>2. /\ wpc[w] # "append"
        /\ \A x \in Workers \ {w} : wpc'[x] = wpc[x] /\ req'[x] = req[x]
    BY <1>0, <1>11 DEF Receive, Route, RouteMissing, Lock, ApplyGet, Unlock, Respond
  <2> QED BY <1>4, <2>1, <2>2
<1> QED BY <1>1, <1>3, <1>6, <1>7, <1>8, <1>9, <1>10, <1>4, <1>11
    DEF Next, vars, Boot, ReplayEnds, CountRoute, FillRoute, Serve, Tick, Kill, PowerCut,
        RouteCrash, ReplayCrash, Crash, Restart

LEMMA SeenStep == TypeInv /\ MapInv /\ SeenInv /\ [Next]_vars => SeenInv'
<1> SUFFICES ASSUME TypeInv, MapInv, SeenInv, [Next]_vars PROVE SeenInv'
  OBVIOUS
<1>0. /\ wpc \in [Workers -> {"idle", "route", "lock", "apply", "append", "unlock", "respond"}]
      /\ req \in [Workers -> Request \cup {NoReq}]
      /\ res \in [Workers -> [status : {0, 200, 400, 404}, val : Vals \cup {Garbled, NoVal}]]
      /\ db \in [Keys -> Seq(Node)]
  BY DEF TypeInv, TypeOK
<1> USE DEF Goto, Answer, workerVars, mainVars, routeVars, logVars
<1>1. ASSUME NEW kept, Die(kept) PROVE SeenInv'
  BY <1>1 DEF Die, SeenInv
<1>2. CASE UNCHANGED <<file, unlogged, workerVars>>
  BY <1>2 DEF SeenInv, CmdOf, Known, Logged
<1>3. ASSUME NEW w \in Workers, Logged \subseteq Logged',
             \A x \in Workers \ {w} : wpc'[x] = wpc[x] /\ req'[x] = req[x] /\ res'[x] = res[x],
             (wpc'[w] \in {"unlock", "respond"} /\ res'[w].status = 200) =>
               /\ req'[w].fn = "PUT" => CmdOf(req'[w]) \in Logged'
               /\ req'[w].fn = "GET" => \/ res'[w].val = Garbled
                                        \/ SetCmd(req'[w].key, res'[w].val) \in Logged'
      PROVE  SeenInv'
  BY <1>3 DEF SeenInv, CmdOf, Known
<1>4. UNCHANGED <<file, unlogged>> => Logged \subseteq Logged'
  BY DEF Logged
<1>5. ASSUME NEW w \in Workers,
             \/ \E r \in Request : Receive(w, r)
             \/ Lock(w) \/ ApplyPut(w) \/ ApplyDelete(w) \/ Respond(w)
      PROVE  SeenInv'
  <2>1. /\ UNCHANGED <<file, unlogged>>
        /\ \E to \in {"route", "apply", "append", "idle"} : wpc' = [wpc EXCEPT ![w] = to]
    BY <1>5 DEF Receive, Lock, ApplyPut, ApplyDelete, Respond
  <2>2. UNCHANGED req \/ \E y : req' = [req EXCEPT ![w] = y]
    BY <1>5 DEF Receive, Lock, ApplyPut, ApplyDelete, Respond
  <2>3. UNCHANGED res \/ \E y : res' = [res EXCEPT ![w] = y]
    BY <1>5 DEF Receive, Lock, ApplyPut, ApplyDelete, Respond
  <2>4. /\ wpc'[w] \notin {"unlock", "respond"}
        /\ \A x \in Workers \ {w} : wpc'[x] = wpc[x] /\ req'[x] = req[x] /\ res'[x] = res[x]
    BY <1>0, <2>1, <2>2, <2>3
  <2> QED BY <1>3, <1>4, <2>1, <2>4
<1>6. ASSUME NEW w \in Workers, Route(w) \/ RouteMissing(w) PROVE SeenInv'
  <2>1. /\ UNCHANGED <<file, unlogged, req>>
        /\ \/ wpc' = [wpc EXCEPT ![w] = "lock"] /\ UNCHANGED res
           \/ /\ wpc' = [wpc EXCEPT ![w] = "respond"]
              /\ \E n \in {400, 404} : res' = [res EXCEPT ![w] = [status |-> n, val |-> NoVal]]
    BY <1>6 DEF Route, RouteMissing
  <2>2. wpc'[w] \in {"unlock", "respond"} => res'[w].status # 200
    BY <1>0, <2>1
  <2>3. \A x \in Workers \ {w} : wpc'[x] = wpc[x] /\ req'[x] = req[x] /\ res'[x] = res[x]
    BY <1>0, <2>1
  <2> QED BY <1>3, <1>4, <2>1, <2>2, <2>3
<1>7. ASSUME NEW w \in Workers, ApplyGet(w) PROVE SeenInv'
  <2>1. /\ wpc[w] = "apply" /\ req[w].fn = "GET" /\ wpc' = [wpc EXCEPT ![w] = "unlock"]
        /\ UNCHANGED <<file, unlogged, req>>
    BY <1>7 DEF ApplyGet
  <2>2. PICK equal : LET v == Read(db[req[w].key], equal)
                     IN Answer(w, IF v = NoVal THEN 404 ELSE 200, v)
    BY <1>7 DEF ApplyGet
  <2> DEFINE v == Read(db[req[w].key], equal)
  <2>3. req[w].key \in Keys /\ db[req[w].key] \in Seq(Node)
    BY <1>0, <2>1 DEF TypeInv, WorkerInv, Holding
  <2>4. v = NoVal \/ \E i \in DOMAIN db[req[w].key] : v = db[req[w].key][i].val
    BY <2>3, ReadChain
  <2> HIDE DEF v
  <2>5. res' = [res EXCEPT ![w] = [status |-> IF v = NoVal THEN 404 ELSE 200, val |-> v]]
    BY <2>2 DEF v
  <2>6. v # NoVal => v = Garbled \/ SetCmd(req[w].key, v) \in Logged
    BY <2>1, <2>3, <2>4, Exclusion DEF MapInv, Appending, Holding, Known
  <2>7. res'[w].val = v /\ (res'[w].status = 200 => v # NoVal)
    BY <1>0, <2>5
  <2>8. \A x \in Workers \ {w} : wpc'[x] = wpc[x] /\ req'[x] = req[x] /\ res'[x] = res[x]
    BY <1>0, <2>1, <2>5
  <2> QED BY <1>3, <1>4, <2>1, <2>6, <2>7, <2>8
<1>8. ASSUME NEW w \in Workers, AppendCmd(w) \/ AppendFails(w) PROVE SeenInv'
  <2>1. /\ wpc[w] = "append" /\ wpc' = [wpc EXCEPT ![w] = "unlock"]
        /\ UNCHANGED <<req, res>> /\ req[w].fn \in {"PUT", "DELETE"}
        /\ Logged \subseteq Logged' /\ CmdOf(req[w]) \in Logged'
    BY <1>8, AppendEffect, AppendKeeps
  <2>2. \A x \in Workers \ {w} : wpc'[x] = wpc[x] /\ req'[x] = req[x] /\ res'[x] = res[x]
    BY <1>0, <2>1
  <2> QED BY <1>3, <2>1, <2>2
<1>9. ASSUME NEW w \in Workers, Unlock(w) PROVE SeenInv'
  <2>1. /\ wpc[w] = "unlock" /\ wpc' = [wpc EXCEPT ![w] = "respond"]
        /\ UNCHANGED <<file, unlogged, req, res>>
    BY <1>9 DEF Unlock
  <2>2. \A x \in Workers : wpc'[x] \in {"unlock", "respond"} => wpc[x] \in {"unlock", "respond"}
    BY <1>0, <2>1
  <2> QED BY <2>1, <2>2 DEF SeenInv, CmdOf, Known, Logged
<1> QED BY <1>1, <1>2, <1>5, <1>6, <1>7, <1>8, <1>9
    DEF Next, vars, Boot, OpenLog, ReplayCommand, ReplayDamage, ReplayEnds, CountRoute, FillRoute,
        Serve, Tick, Kill, PowerCut, RouteCrash, ReplayCrash, Crash, Restart

LEMMA AckedStep == TypeInv /\ SeenInv /\ AckedIsLogged /\ [Next]_vars => AckedIsLogged'
<1> SUFFICES ASSUME TypeInv, SeenInv, AckedIsLogged, [Next]_vars PROVE AckedIsLogged'
  OBVIOUS
<1>0. file \in Seq(Cmd \cup Damage) /\ Len(file) \in 0 .. Len(file)
  BY DEF TypeInv, TypeOK
<1> USE DEF AckedIsLogged, logVars
<1>1. CASE Kill \/ ReplayCrash \/ \E w \in Workers : RouteCrash(w)
  <2>1. file' = SubSeq(file, 1, Len(file)) /\ UNCHANGED <<acked, unlogged>>
    BY <1>1 DEF Kill, RouteCrash, ReplayCrash, Crash, Die
  <2> QED BY <1>0, <2>1, Prefix
<1>2. CASE PowerCut
  BY <1>2 DEF PowerCut, Crash, Die
<1>3. CASE UNCHANGED <<file, unlogged, acked>>
  BY <1>3
<1>4. ASSUME NEW w \in Workers, AppendCmd(w) \/ AppendFails(w) PROVE AckedIsLogged'
  <2>1. UNCHANGED acked
    BY <1>4, AppendEffect
  <2>2. Logged \subseteq Logged'
    BY <1>4, AppendKeeps
  <2> QED BY <2>1, <2>2 DEF Logged
<1>5. ASSUME NEW w \in Workers, Respond(w) PROVE AckedIsLogged'
  BY <1>5 DEF Respond, Goto, SeenInv, Logged
<1> QED BY <1>1, <1>2, <1>3, <1>4, <1>5
    DEF Next, vars, Boot, OpenLog, ReplayCommand, ReplayDamage, ReplayEnds, CountRoute, FillRoute, Serve,
        Receive, Route, RouteMissing, Lock, ApplyPut, ApplyDelete, ApplyGet, Unlock, Tick, Restart

LEMMA LogInvHolds == Spec => []LogInv
<1>1. TypeInv /\ BootInv /\ LogInv /\ [Next]_vars => LogInv'
  BY MapStep, SeenStep, AckedStep DEF LogInv
<1> QED BY LogInvInit, BootInvHolds, <1>1, PTL DEF Spec

(* What a GET has answered with is in the log, or is known to have left no   *)
(* record there, for every number of workers and of failed appends.          *)
THEOREM SeenAreLogged == Spec => []SeenIsLogged
<1>1. LogInv => SeenIsLogged
  BY DEF LogInv, SeenInv, SeenIsLogged, Known, Logged, SetCmd
<1> QED BY LogInvHolds, <1>1, PTL

(* A PUT that was acknowledged is in the log whenever the process is killed, *)
(* unless its append failed, met the part of another or had no log.          *)
THEOREM AckedAreLogged == Spec => []AckedIsLogged
<1>1. LogInv => AckedIsLogged
  BY DEF LogInv
<1> QED BY LogInvHolds, <1>1, PTL
-----------------------------------------------------------------------------
(* The map holds what the last command on a key says.                        *)

HoldInv ==
  \A k \in Keys : last[k] # NoCmd =>
    \E equal \in SUBSET Freed(db[k]) : Holds(db[k], equal, last[k])

LEMMA FoundIs ==
  ASSUME NEW c \in Seq(Node), NEW equal, NEW f \in DOMAIN c, Matches(c, equal, f),
         \A i \in DOMAIN c : i < f => ~Matches(c, equal, i)
  PROVE  FoundAt(c, equal) = f
<1> DEFINE S == {i \in DOMAIN c : Matches(c, equal, i)}
<1>1. f \in S /\ \A j \in S : f <= j
  OBVIOUS
<1>2. \A i \in S : (\A j \in S : i <= j) => i = f
  BY <1>1
<1>3. f # 0
  OBVIOUS
<1> HIDE DEF S
<1>4. FirstOf(S) = f
  BY <1>1, <1>2 DEF FirstOf
<1> QED BY <1>1, <1>4 DEF FoundAt, S

LEMMA InsertedHolds ==
  ASSUME NEW c \in Seq(Node), NEW equal \in SUBSET Freed(c), NEW v \in Vals \cup {Garbled}
  PROVE  \E e \in SUBSET Freed(Inserted(c, equal, v, FALSE)) :
           Read(Inserted(c, equal, v, FALSE), e) = v
<1> DEFINE S == {i \in DOMAIN c : c[i].tomb \/ Matches(c, equal, i)}
           n == [val |-> v, tomb |-> FALSE, freed |-> FALSE]
           f == FirstOf(S)
           d == Inserted(c, equal, v, FALSE)
<1>1. d \in Seq(Node) /\ n \in Node
  BY InsertedChain DEF Node
<1>2. CASE S = {}
  <2>1. d = Append(c, n)
    BY <1>2 DEF Inserted
  <2>2. /\ Len(c) \in Nat /\ DOMAIN c = 1 .. Len(c) /\ DOMAIN d = 1 .. (Len(c) + 1)
        /\ d[Len(c) + 1] = n /\ \A i \in 1 .. Len(c) : d[i] = c[i]
    <3> HIDE DEF n, d
    <3> QED BY <1>1, <2>1
  <2>3. \A i \in DOMAIN c : c[i].freed /\ i \notin equal
    BY <1>2 DEF Matches
  <2> HIDE DEF d, S
  <2>4. equal \in SUBSET Freed(d)
    BY <2>2 DEF Freed
  <2>5. FoundAt(d, equal) = Len(c) + 1
    <3>1. Matches(d, equal, Len(c) + 1) /\ \A i \in DOMAIN c : ~Matches(d, equal, i)
      BY <2>2, <2>3 DEF Matches
    <3>2. \A i \in DOMAIN d : i < Len(c) + 1 => i \in DOMAIN c
      BY <2>2
    <3> QED BY <1>1, <2>2, <3>1, <3>2, FoundIs
  <2>6. Read(d, equal) = v
    BY <2>2, <2>5 DEF Read
  <2> QED BY <2>4, <2>6 DEF d
<1>3. CASE S # {}
  <2>1. f \in S /\ f \in DOMAIN c /\ DOMAIN c \subseteq Nat
    <3>1. S \subseteq DOMAIN c /\ DOMAIN c \subseteq Nat
      OBVIOUS
    <3> QED BY <1>3, <3>1, FirstIn
  <2>2. \A j \in S : f <= j
    <3>1. S \subseteq Nat
      OBVIOUS
    <3>2. \E i \in S : \A j \in S : i <= j
      BY <1>3, <3>1, FirstExists
    <3> HIDE DEF S
    <3> QED BY <3>2 DEF FirstOf
  <2>3. \A i \in DOMAIN c : i < f => c[i].freed /\ i \notin equal
    <3>1. \A i \in DOMAIN c : i < f => i \notin S
      <4> HIDE DEF S, f
      <4> QED BY <2>1, <2>2
    <3> QED BY <3>1 DEF Matches
  <2>4. c[f] \in Node
    BY <2>1
  <2>5. c[f].tomb \/ Matches(c, equal, f)
    BY <2>1
  <2>6. c[f].tomb => d = [c EXCEPT ![f] = n]
    BY <1>3 DEF Inserted
  <2>7. ~c[f].tomb => d = [c EXCEPT ![f].val = v]
    BY <1>3 DEF Inserted
  <2> HIDE DEF d, S, f
  <2>8. CASE c[f].tomb
    <3>1. /\ DOMAIN d = DOMAIN c /\ d[f] = n /\ \A i \in DOMAIN c : i # f => d[i] = c[i]
      BY <2>1, <2>6, <2>8
    <3>2. equal \ {f} \in SUBSET Freed(d)
      BY <3>1 DEF Freed
    <3>3. FoundAt(d, equal \ {f}) = f
      <4>1. Matches(d, equal \ {f}, f)
        BY <3>1 DEF Matches
      <4>2. \A i \in DOMAIN d : i < f => ~Matches(d, equal \ {f}, i)
        BY <2>1, <2>3, <3>1 DEF Matches
      <4> QED BY <1>1, <2>1, <3>1, <4>1, <4>2, FoundIs
    <3>4. Read(d, equal \ {f}) = v
      BY <2>1, <3>1, <3>3 DEF Read
    <3> QED BY <3>2, <3>4 DEF d
  <2>9. CASE ~c[f].tomb
    <3>1. /\ DOMAIN d = DOMAIN c /\ d[f] = [c[f] EXCEPT !.val = v]
          /\ \A i \in DOMAIN c : i # f => d[i] = c[i]
      BY <2>1, <2>7, <2>9
    <3>2. d[f].val = v /\ d[f].freed = c[f].freed
      BY <2>4, <3>1 DEF Node
    <3>3. equal \in SUBSET Freed(d)
      BY <3>1, <3>2 DEF Freed
    <3>4. FoundAt(d, equal) = f
      <4>1. Matches(d, equal, f)
        BY <2>5, <2>9, <3>2 DEF Matches
      <4>2. \A i \in DOMAIN d : i < f => ~Matches(d, equal, i)
        BY <2>1, <2>3, <3>1 DEF Matches
      <4> QED BY <1>1, <2>1, <3>1, <4>1, <4>2, FoundIs
    <3>5. Read(d, equal) = v
      BY <2>1, <3>2, <3>4 DEF Read
    <3> QED BY <3>3, <3>5 DEF d
  <2> QED BY <2>8, <2>9
<1> QED BY <1>2, <1>3

LEMMA DeletedHolds ==
  ASSUME NEW c \in Seq(Node), NEW equal \in SUBSET Freed(c)
  PROVE  /\ equal \in SUBSET Freed(Deleted(c, equal))
         /\ \/ FoundAt(Deleted(c, equal), equal) = 0
            \/ Deleted(c, equal)[FoundAt(Deleted(c, equal), equal)].tomb
<1> DEFINE f == FoundAt(c, equal)
           d == Deleted(c, equal)
<1>1. CASE f = 0
  BY <1>1 DEF Deleted
<1>2. CASE f # 0
  <2>1. f \in DOMAIN c /\ c[f] \in Node /\ d = [c EXCEPT ![f].tomb = TRUE]
    BY <1>2, FoundIn DEF Deleted
  <2>2. DOMAIN d = DOMAIN c /\ d[f].tomb /\ \A i \in DOMAIN c : d[i].freed = c[i].freed
    <3>1. [c[f] EXCEPT !.tomb = TRUE].tomb /\ [c[f] EXCEPT !.tomb = TRUE].freed = c[f].freed
      BY <2>1 DEF Node
    <3> QED BY <2>1, <3>1
  <2>3. {i \in DOMAIN d : Matches(d, equal, i)} = {i \in DOMAIN c : Matches(c, equal, i)}
    BY <2>2 DEF Matches
  <2>4. FoundAt(d, equal) = f
    BY <2>3 DEF FoundAt
  <2>5. equal \in SUBSET Freed(d)
    BY <2>2 DEF Freed
  <2> QED BY <2>2, <2>4, <2>5
<1> QED BY <1>1, <1>2

LEMMA HoldStep == TypeInv /\ BootInv /\ HoldInv /\ [Next]_vars => HoldInv'
<1> SUFFICES ASSUME TypeInv, BootInv, HoldInv, [Next]_vars PROVE HoldInv'
  OBVIOUS
<1>0. db \in [Keys -> Seq(Node)] /\ last \in [Keys -> Cmd \cup {NoCmd}]
  BY DEF TypeInv, TypeOK
<1>1. CASE UNCHANGED <<db, last>>
  BY <1>1 DEF HoldInv
<1>2. CASE \A k \in Keys : last'[k] = NoCmd
  BY <1>2 DEF HoldInv
<1>3. CASE ReplayCommand \/ ReplayDamage
  BY <1>2, <1>3 DEF ReplayCommand, ReplayDamage, Damaged, BootInv
<1>4. ASSUME NEW kept, Die(kept) PROVE HoldInv'
  BY <1>2, <1>4 DEF Die
<1>5. ASSUME NEW k \in Keys, NEW chain, NEW c, NEW e \in SUBSET Freed(chain), Holds(chain, e, c),
             db' = [db EXCEPT ![k] = chain], last' = [last EXCEPT ![k] = c]
      PROVE  HoldInv'
  <2> SUFFICES ASSUME NEW x \in Keys, last'[x] # NoCmd
               PROVE  \E equal \in SUBSET Freed(db'[x]) : Holds(db'[x], equal, last'[x])
    BY DEF HoldInv
  <2>1. CASE x = k
    <3>1. db'[x] = chain /\ last'[x] = c
      BY <1>0, <1>5, <2>1
    <3> QED BY <1>5, <3>1
  <2>2. CASE x # k
    <3>1. db'[x] = db[x] /\ last'[x] = last[x]
      BY <1>0, <1>5, <2>2
    <3> QED BY <3>1 DEF HoldInv
  <2> QED BY <2>1, <2>2
<1>6. ASSUME NEW w \in Workers, ApplyPut(w) PROVE HoldInv'
  <2> DEFINE k == req[w].key
             v == req[w].val
             c == [fn |-> "SET", key |-> k, val |-> v]
  <2>1. req[w] \in Request /\ k \in Keys /\ req[w].fn = "PUT"
    BY <1>6 DEF ApplyPut, Goto, TypeInv, WorkerInv, Holding
  <2>2. v \in Vals /\ db[k] \in Seq(Node)
    BY <1>0, <2>1, RequestFacts
  <2>3. PICK equal \in SUBSET Freed(db[k]) : db' = [db EXCEPT ![k] = Inserted(@, equal, v, FALSE)]
    BY <1>6 DEF ApplyPut
  <2>4. PICK chain : chain = Inserted(db[k], equal, v, FALSE)
    OBVIOUS
  <2>5. PICK e \in SUBSET Freed(chain) : Read(chain, e) = v
    BY <2>2, <2>4, InsertedHolds
  <2>6. Holds(chain, e, c)
    BY <2>5 DEF Holds
  <2>7. db' = [db EXCEPT ![k] = chain] /\ last' = [last EXCEPT ![k] = c]
    BY <1>6, <2>3, <2>4 DEF ApplyPut
  <2> HIDE DEF k, v, c
  <2> QED BY <1>5, <2>1, <2>6, <2>7
<1>7. ASSUME NEW w \in Workers, ApplyDelete(w) PROVE HoldInv'
  <2> DEFINE k == req[w].key
             c == [fn |-> "DEL", key |-> k, val |-> NoVal]
  <2>1. k \in Keys /\ db[k] \in Seq(Node)
    BY <1>0, <1>7 DEF ApplyDelete, Goto, TypeInv, WorkerInv, Holding
  <2>2. PICK equal \in SUBSET Freed(db[k]) : db' = [db EXCEPT ![k] = Deleted(@, equal)]
    BY <1>7 DEF ApplyDelete
  <2>3. PICK chain : chain = Deleted(db[k], equal)
    OBVIOUS
  <2>4. equal \in SUBSET Freed(chain) /\ Holds(chain, equal, c)
    BY <2>1, <2>3, DeletedHolds DEF Holds
  <2>5. db' = [db EXCEPT ![k] = chain] /\ last' = [last EXCEPT ![k] = c]
    BY <1>7, <2>2, <2>3 DEF ApplyDelete
  <2> HIDE DEF k, c
  <2> QED BY <1>5, <2>1, <2>4, <2>5
<1> QED BY <1>1, <1>3, <1>4, <1>6, <1>7
    DEF Next, vars, Boot, OpenLog, ReplayEnds, CountRoute, FillRoute, Serve, Receive, Route,
        RouteMissing, Lock, ApplyGet, AppendCmd, AppendFails, Unlock, Respond, Tick, Kill, PowerCut,
        RouteCrash, ReplayCrash, Crash, Restart
-----------------------------------------------------------------------------
(* The order of the log is that of the map.  The last command of a key is    *)
(* the last one in the log, but for a command that left no record and for    *)
(* one whose worker is about to append it; with pool_mutex held there is one *)
(* such worker at most.                                                      *)

LastInv ==
  \A k \in Keys :
    /\ last[k] # NoCmd => last[k].key = k
    /\ \A w \in Workers : (wpc[w] = "append" /\ req[w].key = k) => last[k] = CmdOf(req[w])
    /\ (/\ phase # "down" /\ last[k] \notin unlogged
        /\ \A w \in Workers : wpc[w] = "append" => req[w].key # k) => last[k] = LastInFile(k)

LEMMA LastOfAppend ==
  ASSUME file \in Seq(Entry), boot_len \in Nat, boot_len <= Len(file), NEW c \in Entry,
         file' = Append(file, c), boot_len' = boot_len, NEW k \in Keys
  PROVE  LastInFile(k)' = IF c.key = k THEN c ELSE LastInFile(k)
<1> DEFINE S == {i \in DOMAIN file : i > boot_len /\ file[i].key = k}
           T == {i \in DOMAIN file' : i > boot_len /\ file'[i].key = k}
           n == Len(file) + 1
<1>1. /\ n \in Nat /\ DOMAIN file' = 1 .. n /\ DOMAIN file = 1 .. (n - 1) /\ file'[n] = c
      /\ \A i \in 1 .. (n - 1) : file'[i] = file[i]
      /\ n > boot_len
  OBVIOUS
<1>2. LastInFile(k)' = IF T = {} THEN NoCmd ELSE file'[CHOOSE i \in T : \A j \in T : j <= i]
  BY DEF LastInFile
<1>3. LastInFile(k) = IF S = {} THEN NoCmd ELSE file[CHOOSE i \in S : \A j \in S : j <= i]
  BY DEF LastInFile
<1>4. CASE c.key = k
  <2>1. n \in T /\ \A j \in T : j <= n
    BY <1>1, <1>4
  <2>2. \A i \in T : (\A j \in T : j <= i) => i = n
    BY <1>1, <2>1
  <2> HIDE DEF T
  <2>3. (CHOOSE i \in T : \A j \in T : j <= i) = n
    BY <2>1, <2>2
  <2> QED BY <1>1, <1>2, <1>4, <2>1, <2>3
<1>5. CASE c.key # k
  <2>1. S = T
    BY <1>1, <1>5
  <2>2. S # {} => (CHOOSE i \in S : \A j \in S : j <= i) \in S
    <3>1. S \subseteq 1 .. (n - 1) /\ n - 1 \in Nat
      BY <1>1
    <3> QED BY <3>1, LastExists
  <2>3. S # {} => file'[CHOOSE i \in S : \A j \in S : j <= i]
                    = file[CHOOSE i \in S : \A j \in S : j <= i]
    BY <1>1, <2>2
  <2> QED BY <1>2, <1>3, <1>5, <2>1, <2>3
<1> QED BY <1>4, <1>5

LEMMA LastStep == TypeInv /\ BootInv /\ LastInv /\ [Next]_vars => LastInv'
<1> SUFFICES ASSUME TypeInv, BootInv, LastInv, [Next]_vars PROVE LastInv'
  OBVIOUS
<1>0. /\ wpc \in [Workers -> {"idle", "route", "lock", "apply", "append", "unlock", "respond"}]
      /\ req \in [Workers -> Request \cup {NoReq}] /\ last \in [Keys -> Cmd \cup {NoCmd}]
      /\ file \in Seq(Entry) /\ boot_len \in Nat
  BY DEF TypeInv, TypeOK, Entry
<1> USE DEF Goto, Answer, workerVars, mainVars, routeVars, logVars
<1>1. ASSUME NEW kept, Die(kept) PROVE LastInv'
  BY <1>1 DEF Die, LastInv
<1>2. CASE Restart
  <2>1. \A k \in Keys : last[k] = NoCmd /\ LastInFile(k)' = NoCmd
    BY <1>0, <1>2 DEF Restart, BootInv, LastInFile
  <2>2. /\ \A w \in Workers : wpc[w] # "append"
        /\ UNCHANGED <<wpc, req, last, file>>
    BY <1>2 DEF Restart, BootInv
  <2> QED BY <2>1, <2>2 DEF LastInv
<1>3. CASE /\ UNCHANGED <<file, boot_len, unlogged, last>> /\ (phase' # "down" => phase # "down")
           /\ \A w \in Workers :
                \/ wpc[w] # "append" /\ wpc'[w] # "append"
                \/ wpc'[w] = wpc[w] /\ req'[w] = req[w]
  <2>1. \A k \in Keys : LastInFile(k)' = LastInFile(k)
    BY <1>3 DEF LastInFile
  <2> QED BY <1>3, <2>1 DEF LastInv, CmdOf
<1>4. ASSUME NEW w \in Workers,
             \/ \E r \in Request : Receive(w, r)
             \/ Route(w) \/ RouteMissing(w) \/ Lock(w) \/ ApplyGet(w) \/ Unlock(w) \/ Respond(w)
      PROVE  LastInv'
  <2>1. UNCHANGED <<file, boot_len, unlogged, last, phase>>
    BY <1>4 DEF Receive, Route, RouteMissing, Lock, ApplyGet, Unlock, Respond
  <2>2. wpc[w] # "append" /\ \E to \in {"route", "respond", "lock", "apply", "unlock", "idle"} :
                                wpc' = [wpc EXCEPT ![w] = to]
    BY <1>4 DEF Receive, Route, RouteMissing, Lock, ApplyGet, Unlock, Respond
  <2>3. UNCHANGED req \/ \E y : req' = [req EXCEPT ![w] = y]
    BY <1>4 DEF Receive, Route, RouteMissing, Lock, ApplyGet, Unlock, Respond
  <2> QED BY <1>0, <1>3, <2>1, <2>2, <2>3
<1>5. ASSUME NEW w \in Workers, ApplyPut(w) \/ ApplyDelete(w) PROVE LastInv'
  <2>1. /\ wpc[w] = "apply" /\ wpc' = [wpc EXCEPT ![w] = "append"]
        /\ last' = [last EXCEPT ![req[w].key] = CmdOf(req[w])]
        /\ UNCHANGED <<file, boot_len, unlogged, phase, req>>
    <3>1. CASE ApplyPut(w)
      BY <3>1 DEF ApplyPut, CmdOf
    <3>2. CASE ApplyDelete(w)
      <4>1. req[w].val = NoVal
        BY <1>0, <3>2 DEF ApplyDelete, Request, TypeInv, WorkerInv
      <4> QED BY <3>2, <4>1 DEF ApplyDelete, CmdOf
    <3> QED BY <1>5, <3>1, <3>2
  <2>2. req[w].key \in Keys /\ \A x \in Workers : wpc[x] # "append"
    BY <2>1, Exclusion DEF Holding, TypeInv, WorkerInv
  <2>3. \A k \in Keys : LastInFile(k)' = LastInFile(k)
    BY <2>1 DEF LastInFile
  <2>4. CmdOf(req[w]).key = req[w].key
    BY DEF CmdOf
  <2>5. \A x \in Workers : wpc'[x] = "append" <=> x = w
    BY <1>0, <2>1, <2>2
  <2>6. /\ last'[req[w].key] = CmdOf(req[w])
        /\ \A k \in Keys : k # req[w].key => last'[k] = last[k]
    BY <1>0, <2>1, <2>2
  <2> QED BY <2>1, <2>2, <2>3, <2>4, <2>5, <2>6 DEF LastInv, CmdOf
<1>6. ASSUME NEW w \in Workers, AppendCmd(w) \/ AppendFails(w) PROVE LastInv'
  <2> DEFINE c == CmdOf(req[w])
  <2>1. /\ wpc[w] = "append" /\ wpc' = [wpc EXCEPT ![w] = "unlock"]
        /\ UNCHANGED <<boot_len, phase, req, last>>
        /\ c \in Cmd /\ req[w].key \in Keys /\ c.key = req[w].key
        /\ NoLog(c) \/ \E entry \in {c} \cup Damage : Log(c, entry)
    BY <1>6, AppendEffect
  <2>2. \A x \in Workers : x # w => wpc[x] # "append"
    BY <2>1, Exclusion DEF Holding
  <2>3. /\ boot_len <= Len(file) /\ phase # "down"
    BY <2>1 DEF BootInv
  <2> HIDE DEF c
  <2>4. \A x \in Workers : wpc'[x] # "append"
    BY <1>0, <2>1, <2>2
  <2>5. last[req[w].key] = c
    BY <2>1 DEF LastInv, c
  <2>6. ASSUME NEW k \in Keys, last[k] \notin unlogged'
        PROVE  last[k] = LastInFile(k)'
    <3>1. k # req[w].key => last[k] # c
      <4>1. last[k] # NoCmd => last[k].key = k
        BY DEF LastInv
      <4> QED BY <2>1, <4>1, EntryFacts
    <3>2. k # req[w].key => last[k] = LastInFile(k)
      <4>1. k # req[w].key => last[k] \notin unlogged
        BY <2>1, <2>6, <3>1 DEF NoLog, Log
      <4> QED BY <2>2, <2>3, <4>1 DEF LastInv
    <3>3. CASE NoLog(c)
      <4>1. k # req[w].key
        BY <2>5, <2>6, <3>3 DEF NoLog
      <4>2. LastInFile(k)' = LastInFile(k)
        BY <2>1, <3>3 DEF NoLog, LastInFile
      <4> QED BY <3>2, <4>1, <4>2
    <3>4. ASSUME NEW entry \in {c} \cup Damage, Log(c, entry) PROVE last[k] = LastInFile(k)'
      <4>1. entry \in Entry /\ file' = Append(file, entry)
        BY <2>1, <3>4 DEF Entry, Log
      <4>2. LastInFile(k)' = IF entry.key = k THEN entry ELSE LastInFile(k)
        BY <1>0, <2>1, <2>3, <4>1, LastOfAppend
      <4>3. CASE k = req[w].key
        <5>1. entry = c
          BY <2>5, <2>6, <3>4, <4>3 DEF Log
        <5> QED BY <2>1, <2>5, <4>2, <4>3, <5>1
      <4>4. CASE k # req[w].key
        <5>1. entry.key # k
          BY <2>1, <3>4, <4>4, EntryFacts, NullAssumption
        <5> QED BY <3>2, <4>2, <4>4, <5>1
      <4> QED BY <4>3, <4>4
    <3> QED BY <2>1, <3>3, <3>4
  <2> QED BY <2>1, <2>4, <2>6 DEF LastInv
<1> QED BY <1>1, <1>2, <1>3, <1>4, <1>5, <1>6
    DEF Next, vars, Boot, OpenLog, ReplayCommand, ReplayDamage, ReplayEnds, CountRoute, FillRoute,
        Serve, Tick, Kill, PowerCut, RouteCrash, ReplayCrash, Crash

(* Map and log agree whenever pool_mutex is free: no two writers log in      *)
(* another order than they apply, and a lookup finds what the last record    *)
(* of the key says, unless its last command left no record.                  *)
THEOREM LogFollowsMap == Spec => []LogMatchesMap
<1>1. Init => LastInv /\ HoldInv
  BY DEF Init, LastInv, LastInFile, HoldInv
<1>2. TypeInv /\ LastInv /\ HoldInv => LogMatchesMap
  <2> SUFFICES ASSUME TypeInv, LastInv, HoldInv, pool_mutex = Nobody, phase # "down",
                      NEW k \in Keys, last[k] \notin unlogged
               PROVE  /\ LastInFile(k) = last[k]
                      /\ LastInFile(k) # NoCmd =>
                           \E equal \in SUBSET Freed(db[k]) : Holds(db[k], equal, LastInFile(k))
    BY DEF LogMatchesMap
  <2>1. \A w \in Workers : wpc[w] # "append"
    BY NobodyAssumption DEF TypeInv, WorkerInv, Holding
  <2>2. LastInFile(k) = last[k]
    BY <2>1 DEF LastInv
  <2> QED BY <2>2 DEF HoldInv
<1> QED BY BootInvHolds, LastStep, HoldStep, <1>1, <1>2, PTL DEF Spec
-----------------------------------------------------------------------------
(* What a power cut can take.  A command is appended when less than a second *)
(* has passed since last_sync, or synced with all that were before it.       *)

LEMMA SyncStep == TypeInv /\ BootInv /\ UnsyncedIsRecent /\ [Next]_vars => UnsyncedIsRecent'
<1> SUFFICES ASSUME TypeInv, BootInv, UnsyncedIsRecent, [Next]_vars PROVE UnsyncedIsRecent'
  OBVIOUS
<1>0. /\ file \in Seq(Entry) /\ stamps \in Seq(0 .. MaxTime) /\ Len(stamps) = Len(file)
      /\ durable \in 0 .. Len(file) /\ boot_len \in Nat /\ now \in Nat /\ last_sync \in Nat
      /\ last_sync <= now /\ unsure \in BOOLEAN
  BY BoundAssumption DEF TypeInv, TypeOK, BootInv, Entry
<1> USE DEF logVars, mainVars, routeVars, workerVars
<1>1. CASE UNCHANGED <<phase, global_open, file, durable, stamps, last_sync, boot_len, unsure>>
  BY <1>1 DEF UnsyncedIsRecent
<1>2. CASE OpenLog
  <2>1. boot_len = Len(file) /\ UNCHANGED <<boot_len, file, durable>>
    BY <1>2 DEF OpenLog, BootInv
  <2>2. \A i \in (durable + 1) .. Len(file) : ~(i > boot_len)
    BY <1>0, <2>1
  <2> QED BY <2>1, <2>2 DEF UnsyncedIsRecent
<1>3. CASE Restart
  BY <1>3 DEF Restart, BootInv, UnsyncedIsRecent
<1>4. ASSUME NEW kept, Die(kept) PROVE UnsyncedIsRecent'
  BY <1>4 DEF Die, UnsyncedIsRecent
<1>5. ASSUME NEW w \in Workers, AppendCmd(w) \/ AppendFails(w) PROVE UnsyncedIsRecent'
  <2> DEFINE c == CmdOf(req[w])
  <2>1. /\ UNCHANGED <<phase, global_open, boot_len>> /\ c \in Cmd
        /\ NoLog(c) \/ \E entry \in {c} \cup Damage : Log(c, entry)
    BY <1>5, AppendEffect
  <2>2. phase # "down"
    <3>1. wpc[w] = "append"
      BY <1>5, AppendEffect
    <3> QED BY <3>1 DEF BootInv
  <2>3. \/ Due /\ Fsync(TRUE)
        \/ unsure'
        \/ NoSync /\ (Due => \A i \in (Len(file) + 1) .. Len(file') : file'[i] \notin Cmd)
    <3>1. CASE AppendCmd(w)
      <4>1. CASE global_open /\ Due
        BY <3>1, <4>1 DEF AppendCmd
      <4>2. CASE global_open /\ ~Due
        BY <3>1, <4>2 DEF AppendCmd
      <4>3. CASE ~global_open
        <5>1. NoSync /\ file' = file
          BY <3>1, <4>3 DEF AppendCmd, NoLog
        <5>2. \A i \in (Len(file) + 1) .. Len(file') : FALSE
          BY <1>0, <5>1
        <5> QED BY <5>1, <5>2
      <4> QED BY <4>1, <4>2, <4>3
    <3>2. CASE AppendFails(w)
      <4>1. ASSUME NEW ok, Due, Fsync(ok) PROVE (Due /\ Fsync(TRUE)) \/ unsure'
        BY <4>1 DEF Fsync
      <4>2. ASSUME NoLog(c) \/ Log(c, Part) \/ Log(c, BadLine)
            PROVE  \A i \in (Len(file) + 1) .. Len(file') : file'[i] \notin Cmd
        <5>1. file' = file \/ \E entry \in Damage : file' = Append(file, entry)
          BY <4>2 DEF NoLog, Log, Damage
        <5>2. CASE file' = file
          BY <1>0, <5>2
        <5>3. ASSUME NEW entry \in Damage, file' = Append(file, entry)
              PROVE  \A i \in (Len(file) + 1) .. Len(file') : file'[i] \notin Cmd
          <6>1. Len(file') = Len(file) + 1 /\ file'[Len(file) + 1] = entry
            BY <1>0, <5>3
          <6>2. \A i \in (Len(file) + 1) .. Len(file') : i = Len(file) + 1
            BY <1>0, <6>1
          <6> QED BY <5>3, <6>1, <6>2, EntryFacts
        <5> QED BY <5>1, <5>2, <5>3
      <4> QED BY <3>2, <4>1, <4>2 DEF AppendFails, c
    <3> QED BY <1>5, <3>1, <3>2
  <2> HIDE DEF c
  <2>4. \/ UNCHANGED <<file, stamps>>
        \/ Len(file') = Len(file) + 1 /\ stamps' = Append(stamps, now)
           /\ \A i \in 1 .. Len(file) : file'[i] = file[i]
    <3>1. ASSUME NEW entry \in {c} \cup Damage, Log(c, entry)
          PROVE  Len(file') = Len(file) + 1 /\ stamps' = Append(stamps, now)
                 /\ \A i \in 1 .. Len(file) : file'[i] = file[i]
      <4>1. file' = Append(file, entry) /\ stamps' = Append(stamps, now) /\ entry \in Entry
        BY <2>1, <3>1 DEF Log, Entry
      <4> QED BY <1>0, <4>1
    <3> QED BY <2>1, <3>1 DEF NoLog
  <2>5. /\ Len(file') \in Nat /\ Len(file') >= Len(file)
        /\ \A i \in 1 .. Len(file) : stamps'[i] = stamps[i] /\ file'[i] = file[i]
        /\ \A i \in (Len(file) + 1) .. Len(file') : stamps'[i] = now
    <3>1. CASE UNCHANGED <<file, stamps>>
      BY <1>0, <3>1
    <3>2. CASE Len(file') = Len(file) + 1 /\ stamps' = Append(stamps, now)
               /\ \A i \in 1 .. Len(file) : file'[i] = file[i]
      <4>1. /\ \A i \in 1 .. Len(stamps) : Append(stamps, now)[i] = stamps[i]
            /\ Append(stamps, now)[Len(stamps) + 1] = now
        BY <1>0
      <4>2. \A i \in (Len(file) + 1) .. Len(file') : i = Len(stamps) + 1
        BY <1>0, <3>2
      <4> QED BY <1>0, <3>2, <4>1, <4>2
    <3> QED BY <2>4, <3>1, <3>2
  <2> SUFFICES ASSUME global_open', ~unsure', NEW i \in (durable' + 1) .. Len(file'),
                      i > boot_len', file'[i] \in Cmd
               PROVE  stamps'[i] = last_sync'
    BY DEF UnsyncedIsRecent
  <2>6. CASE Due /\ Fsync(TRUE)
    <3>1. durable' = Len(file')
      BY <2>6 DEF Fsync
    <3> QED BY <2>5, <3>1
  <2>7. CASE NoSync /\ (Due => \A j \in (Len(file) + 1) .. Len(file') : file'[j] \notin Cmd)
    <3>1. durable' = durable /\ last_sync' = last_sync /\ unsure' = unsure
      BY <2>7 DEF NoSync
    <3>2. CASE i \in 1 .. Len(file)
      <4>1. i \in (durable + 1) .. Len(file) /\ file[i] \in Cmd /\ i > boot_len /\ stamps'[i] = stamps[i]
        BY <1>0, <2>1, <2>5, <3>1, <3>2
      <4> QED BY <2>1, <2>2, <3>1, <4>1 DEF UnsyncedIsRecent
    <3>3. CASE i \in (Len(file) + 1) .. Len(file')
      <4>1. ~Due
        BY <2>7, <3>3
      <4>2. now = last_sync
        BY <1>0, <4>1 DEF Due
      <4> QED BY <2>5, <3>1, <3>3, <4>2
    <3>4. i \in 1 .. Len(file) \/ i \in (Len(file) + 1) .. Len(file')
      BY <1>0, <2>5, <3>1
    <3> QED BY <3>2, <3>3, <3>4
  <2> QED BY <2>3, <2>6, <2>7
<1>6. CASE ReplayEnds \/ FillRoute
  <2>1. phase # "down" /\ UNCHANGED <<global_open, file, durable, stamps, last_sync, boot_len, unsure>>
    BY <1>6 DEF ReplayEnds, FillRoute
  <2> QED BY <2>1 DEF UnsyncedIsRecent
<1> QED BY <1>1, <1>2, <1>3, <1>4, <1>5, <1>6
    DEF Next, vars, Boot, ReplayCommand, ReplayDamage, CountRoute, Serve, Receive, Route, RouteMissing,
        Lock, ApplyPut, ApplyDelete, ApplyGet, Unlock, Respond, Tick, Kill, PowerCut, RouteCrash,
        ReplayCrash, Crash

(* As long as no fsync fails, a power cut takes commands of the second of    *)
(* the last fsync, and no other.                                             *)
THEOREM UnsyncedAreRecent == Spec => []UnsyncedIsRecent
<1>1. Init => UnsyncedIsRecent
  BY DEF Init, UnsyncedIsRecent
<1> QED BY BootInvHolds, SyncStep, <1>1, PTL DEF Spec
=============================================================================
