----------------------------- MODULE OrcaServer ----------------------------
(***************************************************************************)
(* The server process: the main thread that opens the append log, replays  *)
(* it and adds the routes, the worker threads that have been serving since *)
(* before that, the hash map they share under pool_mutex, the log file,    *)
(* and the end of the process by a kill or of the machine by a power cut.  *)
(*                                                                         *)
(* Keys are taken to have homes far apart in the table, so that the map is *)
(* one chain of nodes per key (module HashMap has the collisions).         *)
(* data.orca is absent: only snapshot_worker writes it, and server() has   *)
(* the thread commented out.                                               *)
(*                                                                         *)
(* A write to the log may fail, in whole or in part: no handler looks at   *)
(* what aof_append_* returns, nor aof_sync at what fflush and fsync do.     *)
(***************************************************************************)
EXTENDS Naturals, Sequences, FiniteSets, SequencesExt

CONSTANTS
  Workers,      \* worker threads
  Keys, Vals,   \* of requests
  NoKey,        \* a request without its parameters
  Bare,         \* what such requests are for
  NoVal,        \* a NULL value
  Garbled,      \* whatever value a damaged line of the log yields
  Nobody,       \* pool_mutex is free
  MayFailOpen,  \* fopen of the log may fail
  MaxRequests,  \* bound: requests the clients send
  MaxCrashes,   \* bound: kills and power cuts
  MaxFails,     \* bound: appends whose write or fsync fails
  MaxTime       \* bound: seconds on the clock

ASSUME NullAssumption  == NoKey \notin Keys /\ NoVal \notin Vals \cup {Garbled}
                          /\ Garbled \notin Vals
ASSUME BareAssumption  == Bare \subseteq {"PUT", "GET", "DELETE"}
ASSUME NobodyAssumption == Nobody \notin Workers
ASSUME FlagAssumption  == MayFailOpen \in BOOLEAN
ASSUME BoundAssumption == {MaxRequests, MaxCrashes, MaxFails, MaxTime} \subseteq Nat

VARIABLES
  \* main thread
  phase,        \* its next step in server(), or "down" when there is no process
  replay_pos,   \* commands aof_replay has read
  \* routes[]: the stores of add_route
  route_count,  \* the counter
  routes_set,   \* entries whose fields are there
  \* shared under pool_mutex
  pool_mutex,   \* who holds it
  db,           \* per key, the nodes that were ever inserted for it
  global_open,  \* global # NULL
  last_sync,    \* global->last_sync
  \* worker threads
  wpc, req, res,
  \* the world
  file,         \* append_log.aof: commands, and what failed writes left of others
  durable,      \* how many of these the disk has
  now,          \* time(NULL)
  \* history
  received,     \* requests so far
  crashes,      \* crashes so far
  fails,        \* appends that failed so far
  stamps,       \* when each command of the file was appended
  boot_len,     \* commands in the file when this process started
  last,         \* per key, the last command a handler of this process applied
  acked,        \* commands of PUT requests answered with 200 and not lost to a power cut
  unlogged,     \* commands whose last append left no record of theirs
  unsure        \* an fsync has failed, and the kernel has forgotten what it was for

mainVars   == <<phase, replay_pos>>
routeVars  == <<route_count, routes_set>>
logVars    == <<file, durable, stamps, last_sync, unlogged, unsure, fails>>
workerVars == <<wpc, req, res>>
vars == <<mainVars, routeVars, pool_mutex, db, global_open, logVars, workerVars, now,
          received, crashes, boot_len, last, acked>>

Cmd     == [fn : {"SET", "DEL"}, key : Keys, val : Vals \cup {NoVal}]
NoCmd   == [fn |-> "none", key |-> NoKey, val |-> NoVal]
\* what a failed write leaves: the beginning of a line, or a line that is no record
Part    == [fn |-> "part", key |-> NoKey, val |-> NoVal]
BadLine == [fn |-> "line", key |-> NoKey, val |-> NoVal]
Damage  == {Part, BadLine}
Request == [fn : {"PUT"}, key : Keys, val : Vals]
             \cup [fn : {"GET", "DELETE"}, key : Keys, val : {NoVal}]
             \cup [fn : Bare, key : {NoKey}, val : {NoVal}]
NoReq   == [fn |-> "none", key |-> NoKey, val |-> NoVal]
NoRes   == [status |-> 0, val |-> NoVal]

\* the order of the add_route calls
RouteOf(fn) == CASE fn = "PUT" -> 1 [] fn = "GET" -> 2 [] fn = "DELETE" -> 3
-----------------------------------------------------------------------------
(* The chain of one key: what hm_insert, hm_get and hm_delete do to it.     *)
(* "freed" marks a node whose key string the replay has freed; whether its *)
(* bytes still compare equal is up to malloc, so every call picks a set    *)
(* "equal" of such nodes.                                                  *)

Node == [val : Vals \cup {Garbled}, tomb : BOOLEAN, freed : BOOLEAN]

Freed(c) == {i \in DOMAIN c : c[i].freed}
Matches(c, equal, i) == ~c[i].freed \/ i \in equal
FirstOf(S) == CHOOSE i \in S : \A j \in S : i <= j

\* the node where hm_get and hm_delete stop, 0 if there is none
FoundAt(c, equal) ==
  LET S == {i \in DOMAIN c : Matches(c, equal, i)}
  IN IF S = {} THEN 0 ELSE FirstOf(S)

\* hm_insert: over the first tombstone, into the first match, or at the end
Inserted(c, equal, v, freed) ==
  LET S == {i \in DOMAIN c : c[i].tomb \/ Matches(c, equal, i)}
      n == [val |-> v, tomb |-> FALSE, freed |-> freed]
  IN CASE S = {}               -> Append(c, n)
       [] S # {} /\ c[FirstOf(S)].tomb  -> [c EXCEPT ![FirstOf(S)] = n]
       [] S # {} /\ ~c[FirstOf(S)].tomb -> [c EXCEPT ![FirstOf(S)].val = v]

Deleted(c, equal) ==
  IF FoundAt(c, equal) = 0 THEN c ELSE [c EXCEPT ![FoundAt(c, equal)].tomb = TRUE]

Read(c, equal) == IF FoundAt(c, equal) = 0 THEN NoVal ELSE c[FoundAt(c, equal)].val
-----------------------------------------------------------------------------
Init ==
  /\ phase = "open" /\ replay_pos = 0
  /\ route_count = 0 /\ routes_set = 0
  /\ pool_mutex = Nobody
  /\ db = [k \in Keys |-> <<>>]
  /\ global_open = FALSE /\ last_sync = 0
  /\ wpc = [w \in Workers |-> "idle"]
  /\ req = [w \in Workers |-> NoReq] /\ res = [w \in Workers |-> NoRes]
  /\ file = <<>> /\ durable = 0 /\ now = 0
  /\ received = 0 /\ crashes = 0 /\ stamps = <<>> /\ boot_len = 0
  /\ last = [k \in Keys |-> NoCmd] /\ acked = {} 
  /\ unlogged = {} /\ unsure = FALSE /\ fails = 0
-----------------------------------------------------------------------------
(* server(): CreateServer has started the workers. *)

OpenLog ==
  /\ phase = "open"
  /\ global_open' \in IF MayFailOpen THEN BOOLEAN ELSE {TRUE}
  /\ last_sync' = IF global_open' THEN now ELSE last_sync
  /\ phase' = IF global_open' THEN "replay" ELSE "routes"
  /\ UNCHANGED <<replay_pos, routeVars, pool_mutex, db, file, durable, stamps, unlogged, unsure, fails,
                 workerVars, now, received, crashes, boot_len, last, acked>>

Replayed(c) ==
  \E equal \in SUBSET Freed(db[c.key]) :
    db' = [db EXCEPT ![c.key] =
             CASE c.fn = "SET" -> Inserted(@, equal, c.val, TRUE)
               [] c.fn = "DEL" -> Deleted(@, equal)]

\* mutant: while(!feof), which handles the last line once more
Mut_ReplayFeof ==
  /\ phase = "replay" /\ file # <<>> /\ replay_pos <= Len(file)
  /\ LET c == file[IF replay_pos = Len(file) THEN replay_pos ELSE replay_pos + 1]
     IN c \in Cmd /\ Replayed(c)
  /\ replay_pos' = replay_pos + 1
  /\ UNCHANGED <<phase, routeVars, pool_mutex, global_open, logVars, workerVars, now,
                 received, crashes, boot_len, last, acked>>

\* one turn of the loop of aof_replay; the key it inserts is freed at once
ReplayCommand ==
  /\ phase = "replay" /\ replay_pos < Len(file)
  /\ file[replay_pos + 1] \in Cmd /\ Replayed(file[replay_pos + 1])
  /\ replay_pos' = replay_pos + 1
  /\ UNCHANGED <<phase, routeVars, pool_mutex, global_open, logVars, workerVars, now,
                 received, crashes, boot_len, last, acked>>

\* a damaged line is skipped, or taken for a command (module Storage has which); a
\* part with more behind it is only the beginning of that line
Damaged == /\ phase = "replay" /\ replay_pos < Len(file)
           /\ file[replay_pos + 1] \in Damage
LineEnds == file[replay_pos + 1] = BadLine \/ replay_pos + 1 = Len(file)

ReplayDamage ==
  /\ Damaged
  /\ \/ UNCHANGED db
     \/ LineEnds /\ \E k \in Keys, fn \in {"SET", "DEL"} :
                      Replayed([fn |-> fn, key |-> k, val |-> Garbled])
  /\ replay_pos' = replay_pos + 1
  /\ UNCHANGED <<phase, routeVars, pool_mutex, global_open, logVars, workerVars, now,
                 received, crashes, boot_len, last, acked>>

ReplayEnds ==
  /\ phase = "replay" /\ replay_pos = Len(file)
  /\ phase' = "routes"
  /\ UNCHANGED <<replay_pos, routeVars, pool_mutex, db, global_open, logVars, workerVars,
                 now, received, crashes, boot_len, last, acked>>

\* add_route: the compiled code stores the counter before the entry
CountRoute ==
  /\ phase = "routes" /\ route_count = routes_set /\ route_count < 3
  /\ route_count' = route_count + 1
  /\ UNCHANGED <<mainVars, routes_set, pool_mutex, db, global_open, logVars, workerVars,
                 now, received, crashes, boot_len, last, acked>>

FillRoute ==
  /\ phase = "routes" /\ routes_set < route_count
  /\ routes_set' = routes_set + 1
  /\ phase' = IF routes_set' = 3 THEN "serving" ELSE "routes"
  /\ UNCHANGED <<replay_pos, route_count, pool_mutex, db, global_open, logVars, workerVars,
                 now, received, crashes, boot_len, last, acked>>

Boot == OpenLog \/ ReplayCommand \/ ReplayDamage \/ ReplayEnds \/ CountRoute \/ FillRoute
-----------------------------------------------------------------------------
(* A worker thread: one request at a time. *)

Goto(w, from, to) == wpc[w] = from /\ wpc' = [wpc EXCEPT ![w] = to]
Answer(w, status, v) == res' = [res EXCEPT ![w] = [status |-> status, val |-> v]]

Receive(w, r) ==
  /\ phase # "down" /\ received < MaxRequests
  /\ Goto(w, "idle", "route")
  /\ req' = [req EXCEPT ![w] = r]
  /\ received' = received + 1
  /\ UNCHANGED <<mainVars, routeVars, pool_mutex, db, global_open, logVars, res, now,
                 crashes, boot_len, last, acked>>

\* mutant: the routes are there from the start
Mut_RouteAlways(w) ==
  /\ wpc[w] = "route"
  /\ Goto(w, "route", "lock")
  /\ UNCHANGED <<mainVars, routeVars, pool_mutex, db, global_open, logVars, req, res, now,
                 received, crashes, boot_len, last, acked>>

\* route_req finds the handler; the handler checks the parameters
Route(w) ==
  /\ wpc[w] = "route" /\ RouteOf(req[w].fn) <= routes_set
  /\ IF req[w].key = NoKey
     THEN Goto(w, "route", "respond") /\ Answer(w, 400, NoVal)
     ELSE Goto(w, "route", "lock") /\ UNCHANGED res
  /\ UNCHANGED <<mainVars, routeVars, pool_mutex, db, global_open, logVars, req, now,
                 received, crashes, boot_len, last, acked>>

\* the main thread has not come so far
RouteMissing(w) ==
  /\ wpc[w] = "route" /\ RouteOf(req[w].fn) > route_count
  /\ routes_set = route_count
  /\ Goto(w, "route", "respond") /\ Answer(w, 404, NoVal)
  /\ UNCHANGED <<mainVars, routeVars, pool_mutex, db, global_open, logVars, req, now,
                 received, crashes, boot_len, last, acked>>

Lock(w) ==
  /\ pool_mutex = Nobody
  /\ pool_mutex' = w
  /\ Goto(w, "lock", "apply")
  /\ UNCHANGED <<mainVars, routeVars, db, global_open, logVars, req, res, now,
                 received, crashes, boot_len, last, acked>>

\* mutant: the mutex is given back before the command is logged
Mut_PutUnlocks(w) ==
  /\ req[w].fn = "PUT"
  /\ Goto(w, "apply", "append")
  /\ \E equal \in SUBSET Freed(db[req[w].key]) :
       db' = [db EXCEPT ![req[w].key] = Inserted(@, equal, req[w].val, FALSE)]
  /\ Answer(w, 200, NoVal)
  /\ last' = [last EXCEPT ![req[w].key] = [fn |-> "SET", key |-> req[w].key, val |-> req[w].val]]
  /\ pool_mutex' = Nobody
  /\ UNCHANGED <<mainVars, routeVars, global_open, logVars, req, now,
                 received, crashes, boot_len, acked>>

ApplyPut(w) ==
  /\ req[w].fn = "PUT"
  /\ Goto(w, "apply", "append")
  /\ \E equal \in SUBSET Freed(db[req[w].key]) :
       db' = [db EXCEPT ![req[w].key] = Inserted(@, equal, req[w].val, FALSE)]
  /\ Answer(w, 200, NoVal)
  /\ last' = [last EXCEPT ![req[w].key] = [fn |-> "SET", key |-> req[w].key, val |-> req[w].val]]
  /\ UNCHANGED <<mainVars, routeVars, pool_mutex, global_open, logVars, req, now,
                 received, crashes, boot_len, acked>>

ApplyDelete(w) ==
  /\ req[w].fn = "DELETE"
  /\ Goto(w, "apply", "append")
  /\ \E equal \in SUBSET Freed(db[req[w].key]) :
       /\ db' = [db EXCEPT ![req[w].key] = Deleted(@, equal)]
       /\ Answer(w, IF FoundAt(db[req[w].key], equal) = 0 THEN 404 ELSE 200, NoVal)
  /\ last' = [last EXCEPT ![req[w].key] = [fn |-> "DEL", key |-> req[w].key, val |-> NoVal]]
  /\ UNCHANGED <<mainVars, routeVars, pool_mutex, global_open, logVars, req, now,
                 received, crashes, boot_len, acked>>

ApplyGet(w) ==
  /\ req[w].fn = "GET"
  /\ Goto(w, "apply", "unlock")
  /\ \E equal \in SUBSET Freed(db[req[w].key]) :
       LET v == Read(db[req[w].key], equal)
       IN Answer(w, IF v = NoVal THEN 404 ELSE 200, v)
  /\ UNCHANGED <<mainVars, routeVars, pool_mutex, db, global_open, logVars, req, now,
                 received, crashes, boot_len, last, acked>>

\* aof_append_set, aof_append_del: the record, fflush, and fsync if a second has
\* passed.  What stdio cannot write it drops (glibc), so a failed write leaves
\* nothing, a part that the next record is glued to, or a part and the newline.
\* If it is fprintf that fails they return -1 before aof_sync; without a log they
\* return -1 at once.  The handlers ignore it.
CmdOf(r) == [fn |-> IF r.fn = "PUT" THEN "SET" ELSE "DEL", key |-> r.key, val |-> r.val]

Mid           == file # <<>> /\ Last(file) = Part
Written(c)    == IF Mid THEN BadLine ELSE c
Log(c, entry) == /\ file' = Append(file, entry) /\ stamps' = Append(stamps, now)
                 /\ unlogged' = IF entry = c THEN unlogged \ {c} ELSE unlogged \cup {c}
NoLog(c)      == UNCHANGED <<file, stamps>> /\ unlogged' = unlogged \cup {c}

Due       == now - last_sync >= 1
Fsync(ok) == /\ unsure' = (unsure \/ ~ok)
             /\ durable' = IF unsure' THEN durable ELSE Len(file')
             /\ last_sync' = now
NoSync    == UNCHANGED <<durable, last_sync, unsure>>

\* mutant: no fflush, the record stays in the process until the next fsync
Mut_NoFlush(w) ==
  /\ Goto(w, "append", "unlock")
  /\ IF global_open /\ Due
     THEN Log(CmdOf(req[w]), Written(CmdOf(req[w]))) /\ Fsync(TRUE) /\ UNCHANGED fails
     ELSE UNCHANGED logVars
  /\ UNCHANGED <<mainVars, routeVars, pool_mutex, db, global_open, req, res, now,
                 received, crashes, boot_len, last, acked>>
\* mutant: fsync only after more than a second
Mut_SyncLate(w) ==
  /\ Goto(w, "append", "unlock")
  /\ IF global_open
     THEN /\ Log(CmdOf(req[w]), Written(CmdOf(req[w])))
          /\ IF now - last_sync > 1 THEN Fsync(TRUE) ELSE NoSync
     ELSE NoLog(CmdOf(req[w])) /\ NoSync
  /\ UNCHANGED <<mainVars, routeVars, pool_mutex, db, global_open, req, res, now,
                 received, crashes, boot_len, last, acked, fails>>

AppendCmd(w) ==
  /\ Goto(w, "append", "unlock")
  /\ IF global_open
     THEN /\ Log(CmdOf(req[w]), Written(CmdOf(req[w])))
          /\ IF Due THEN Fsync(TRUE) ELSE NoSync
     ELSE NoLog(CmdOf(req[w])) /\ NoSync
  /\ UNCHANGED <<mainVars, routeVars, pool_mutex, db, global_open, req, res, now,
                 received, crashes, boot_len, last, acked, fails>>

AppendFails(w) ==
  LET c == CmdOf(req[w]) IN
  /\ global_open /\ fails < MaxFails
  /\ Goto(w, "append", "unlock")
  /\ \/ /\ NoLog(c) \/ Log(c, Part) \/ Log(c, BadLine)
        /\ NoSync \/ (Due /\ \E ok \in BOOLEAN : Fsync(ok))
     \/ Log(c, Written(c)) /\ Due /\ Fsync(FALSE)
  /\ fails' = fails + 1
  /\ UNCHANGED <<mainVars, routeVars, pool_mutex, db, global_open, req, res, now,
                 received, crashes, boot_len, last, acked>>

\* mutant: the mutex is never given back
Mut_NoUnlock(w) ==
  /\ Goto(w, "unlock", "respond")
  /\ UNCHANGED <<mainVars, routeVars, pool_mutex, db, global_open, logVars, req, res, now,
                 received, crashes, boot_len, last, acked>>

Unlock(w) ==
  /\ Goto(w, "unlock", "respond")
  /\ pool_mutex' = Nobody
  /\ UNCHANGED <<mainVars, routeVars, db, global_open, logVars, req, res, now,
                 received, crashes, boot_len, last, acked>>

\* build_resp and the writes to the socket
Respond(w) ==
  /\ Goto(w, "respond", "idle")
  /\ acked' = IF req[w].fn = "PUT" /\ res[w].status = 200
              THEN acked \cup {CmdOf(req[w])} ELSE acked
  /\ req' = [req EXCEPT ![w] = NoReq] /\ res' = [res EXCEPT ![w] = NoRes]
  /\ UNCHANGED <<mainVars, routeVars, pool_mutex, db, global_open, logVars, now,
                 received, crashes, boot_len, last>>

Serve(w) == \/ Route(w) \/ RouteMissing(w) \/ Lock(w)
            \/ ApplyPut(w) \/ ApplyDelete(w) \/ ApplyGet(w)
            \/ AppendCmd(w) \/ AppendFails(w) \/ Unlock(w) \/ Respond(w)
-----------------------------------------------------------------------------
(* The world. *)

Tick ==
  /\ now < MaxTime
  /\ now' = now + 1
  /\ UNCHANGED <<mainVars, routeVars, pool_mutex, db, global_open, logVars, workerVars,
                 received, crashes, boot_len, last, acked>>

\* the process is gone; so is every file record from "kept" + 1 on
Die(kept) ==
  /\ phase # "down"
  /\ phase' = "down" /\ replay_pos' = 0
  /\ route_count' = 0 /\ routes_set' = 0
  /\ pool_mutex' = Nobody
  /\ db' = [k \in Keys |-> <<>>]
  /\ global_open' = FALSE /\ last_sync' = 0
  /\ wpc' = [w \in Workers |-> "idle"]
  /\ req' = [w \in Workers |-> NoReq] /\ res' = [w \in Workers |-> NoRes]
  /\ file' = SubSeq(file, 1, kept) /\ stamps' = SubSeq(stamps, 1, kept)
  /\ last' = [k \in Keys |-> NoCmd]
  /\ UNCHANGED <<now, received, boot_len, unlogged, fails>>

Crash(kept) == crashes < MaxCrashes /\ crashes' = crashes + 1 /\ Die(kept)

\* what fflush handed to the kernel stays
Kill ==
  /\ Crash(Len(file))
  /\ UNCHANGED <<durable, acked, unsure>>

\* what fsync has not covered may be lost
PowerCut ==
  /\ \E kept \in durable .. Len(file) :
       /\ Crash(kept)
       /\ durable' = kept
       /\ acked' = acked \cap (ToSet(SubSeq(file, 1, kept)) \cup unlogged)
  /\ unsure' = FALSE

\* route_req walks into an entry that is counted but not yet filled
RouteCrash(w) ==
  /\ wpc[w] = "route"
  /\ RouteOf(req[w].fn) > routes_set /\ routes_set < route_count
  /\ Crash(Len(file))
  /\ UNCHANGED <<durable, acked, unsure>>

\* aof_replay dies over a damaged line (ParseSegv in Storage), at any restart
ReplayCrash ==
  /\ Damaged /\ LineEnds
  /\ Die(Len(file))
  /\ UNCHANGED <<durable, acked, unsure, crashes>>

Restart ==
  /\ phase = "down"
  /\ phase' = "open"
  /\ boot_len' = Len(file)
  /\ UNCHANGED <<replay_pos, routeVars, pool_mutex, db, global_open, logVars, workerVars,
                 now, received, crashes, last, acked>>
-----------------------------------------------------------------------------
Next ==
  \/ Boot
  \/ \E w \in Workers : Serve(w) \/ RouteCrash(w) \/ \E r \in Request : Receive(w, r)
  \/ Tick \/ Kill \/ PowerCut \/ ReplayCrash \/ Restart

\* every thread that can run does, a dead process is started again; clients need
\* not send and nothing need crash
Spec == /\ Init /\ [][Next]_vars
        /\ WF_vars(Boot) /\ WF_vars(Restart)
        /\ \A w \in Workers : WF_vars(Serve(w))
-----------------------------------------------------------------------------
\* every program counter is in its function, every node and record well formed
TypeOK ==
  /\ phase \in {"open", "replay", "routes", "serving", "down"}
  /\ replay_pos \in 0 .. Len(file)
  /\ route_count \in 0 .. 3 /\ routes_set \in 0 .. 3
  /\ pool_mutex \in Workers \cup {Nobody}
  /\ db \in [Keys -> Seq(Node)]
  /\ global_open \in BOOLEAN /\ last_sync \in 0 .. MaxTime
  /\ wpc \in [Workers -> {"idle", "route", "lock", "apply", "append", "unlock", "respond"}]
  /\ req \in [Workers -> Request \cup {NoReq}]
  /\ res \in [Workers -> [status : {0, 200, 400, 404}, val : Vals \cup {Garbled, NoVal}]]
  /\ file \in Seq(Cmd \cup Damage) /\ stamps \in Seq(0 .. MaxTime) /\ Len(stamps) = Len(file)
  /\ durable \in 0 .. Len(file) /\ now \in 0 .. MaxTime
  /\ received \in 0 .. MaxRequests /\ crashes \in 0 .. MaxCrashes /\ boot_len \in Nat
  /\ last \in [Keys -> Cmd \cup {NoCmd}] /\ acked \subseteq Cmd
  /\ unlogged \subseteq Cmd /\ unsure \in BOOLEAN /\ fails \in 0 .. MaxFails

InHandler(w) == wpc[w] \in {"lock", "apply", "append", "unlock"}

\* No handler touches the map before it is rebuilt: a request that reaches a
\* handler during the replay would be overwritten by older commands of the log
\* (server.c:120 starts the workers, server.c:133 replays, server.c:141 routes).
NoHandlerDuringReplay ==
  phase \in {"open", "replay"} => \A w \in Workers : ~InHandler(w)

\* Map and log agree whenever pool_mutex is free: unless the last command on a key
\* left no record (unlogged), it is the last record of the key that this process
\* wrote, and what that record does is what a lookup finds: the node holds the value
\* of a SET, or is missing or a tombstone after a DEL.  So no two writers log in
\* another order than they apply (server.handler.c:58-69, 140-148).  Where the replay
\* left nodes with freed keys, a lookup can find it, by luck of malloc.
LastInFile(k) ==
  LET S == {i \in DOMAIN file : i > boot_len /\ file[i].key = k}
  IN IF S = {} THEN NoCmd ELSE file[CHOOSE i \in S : \A j \in S : j <= i]
Holds(chain, equal, c) ==
  IF c.fn = "SET" THEN Read(chain, equal) = c.val
  ELSE FoundAt(chain, equal) = 0 \/ chain[FoundAt(chain, equal)].tomb
LogMatchesMap ==
  (pool_mutex = Nobody /\ phase # "down") =>
    \A k \in Keys : last[k] \notin unlogged =>
      /\ LastInFile(k) = last[k]
      /\ LastInFile(k) # NoCmd =>
           \E equal \in SUBSET Freed(db[k]) : Holds(db[k], equal, LastInFile(k))

\* A value a client gets to see is in the log before the client sees it: no other
\* client's PUT is observed, and then lost when the process is killed.  Only a
\* command that left no record is, which its own client is not told either, or what
\* the replay made of a damaged line.
SeenIsLogged ==
  \A w \in Workers :
    (wpc[w] = "respond" /\ req[w].fn = "GET" /\ res[w].status = 200) =>
      \/ res[w].val = Garbled
      \/ [fn |-> "SET", key |-> req[w].key, val |-> res[w].val] \in ToSet(file) \cup unlogged

\* A PUT answered with 200 is in the log, also after the process was killed at any
\* moment and started again (aof.c:10-11 "when crach occurs ... the AoF called to
\* replay all the client calls"), with the exception of those whose append failed or
\* met the part of another that failed, or had no log: the answer is 200 all the
\* same (server.handler.c:61-66).
AckedIsLogged == acked \subseteq ToSet(file) \cup unlogged

\* As long as no fsync has failed, a record of this process that fsync has not covered
\* was appended in the second of the last fsync: a later append would have synced it
\* (aof.c:81-87).
UnsyncedIsRecent ==
  (phase # "down" /\ global_open /\ ~unsure) =>
    \A i \in (durable + 1) .. Len(file) :
      (i > boot_len /\ file[i] \in Cmd) => stamps[i] = last_sync

\* Every request is answered, unless the process dies first.
RequestAnswered == \A w \in Workers : wpc[w] = "route" ~> wpc[w] = "idle"

\* After a restart, a GET of a key that was not written since answers with the
\* value of the log (tests/recovery.test.c:23 "Now database is fully recovered!").
LoggedValue(k) ==
  LET S == {i \in DOMAIN file : file[i].key = k}
  IN IF S = {} THEN NoVal ELSE file[CHOOSE i \in S : \A j \in S : j <= i].val
RecoveredIsReadable ==
  \A w \in Workers :
    (wpc[w] = "unlock" /\ req[w].fn = "GET" /\ last[req[w].key] = NoCmd
       /\ LoggedValue(req[w].key) # NoVal)
      => res[w].val = LoggedValue(req[w].key)
=============================================================================
