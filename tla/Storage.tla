------------------------------ MODULE Storage ------------------------------
(***************************************************************************)
(* The files of the server, character by character where OrcaServer has    *)
(* whole commands: the records of append_log.aof and the blocks in which   *)
(* stdio writes them, what a kill or a power cut leaves of a record, and   *)
(* aof_replay with its line buffer, which reads whatever is there.  Also   *)
(* the calls that write a temporary file first, db_save and aof_rewrite,   *)
(* as snapshot_worker makes them under pool_mutex.                         *)
(*                                                                         *)
(* Of the map there are the calls that the replay and the handlers make.   *)
(* What hm_get finds after them is the subject of HashMap, and of          *)
(* OrcaServer where aof_replay has freed the keys it inserted.  A write    *)
(* that fails is in OrcaServer.  Lengths have one digit.                   *)
(***************************************************************************)
EXTENDS Naturals, Sequences, FiniteSets, SequencesExt

CONSTANTS
  Cmds,        \* the commands that handlers log: fn, key and val, strings being
               \* sequences of characters
  LineMax,     \* sizeof(line) in aof_replay
  Block,       \* the stdio buffer of the log: what one write() takes
  Junk,        \* what the stack may hold where line[] comes to lie
  MaxAppends,  \* bound: commands
  MaxKills,    \* bound: ends of the process
  MaxCuts      \* bound: ends of the machine

ASSUME CmdAssumption   ==
  \A c \in Cmds : /\ c \in [fn : {"SET", "DEL"}, key : Seq(STRING), val : Seq(STRING)]
                  /\ Len(c.key) \in 1 .. 9 /\ Len(c.val) \in 0 .. 9
                  /\ c.fn = "DEL" => c.val = <<>>
ASSUME SizeAssumption  == {LineMax, Block} \subseteq Nat \ {0, 1}
ASSUME BoundAssumption == {MaxAppends, MaxKills, MaxCuts} \subseteq Nat

VARIABLES
  phase,    \* the main thread: "down", "replay" and "parse" in aof_replay, or "serving"
  file,     \* append_log.aof, as a process reads it
  durable,  \* how many of its characters the disk has
  pending,  \* the part of a record that is still in the stdio buffer
  pos,      \* aof_replay: characters read
  line,     \* aof_replay: its buffer, with what earlier lines left in it
  asked,    \* what was asked of the map last, by key: SET for hm_insert with that
            \* value, DEL for hm_delete (in aof_replay for hm_get, and hm_delete if
            \* that finds the key)
  saver,    \* the call that snapshot_worker is in, holding pool_mutex
  \* history
  recs,     \* the records of the file: command, where it starts, characters it has
  fresh,    \* no command since the replay
  segv,     \* the process died in aof_replay
  appends, kills, cuts

logVars   == <<file, durable, pending, recs>>
bootVars  == <<pos, line, segv>>
counters  == <<appends, kills, cuts>>
vars == <<phase, logVars, bootVars, asked, saver, fresh, counters>>

NUL    == "NUL"
Blank  == {" ", "\n"}
Digits == <<"0", "1", "2", "3", "4", "5", "6", "7", "8", "9">>
Keys   == {c.key : c \in Cmds}

\* the formats of aof_append_set and aof_append_del
Number(s) == <<Digits[Len(s) + 1]>>

\* mutant: the format of a SET without its last blank
Mut_NoBlank(c) ==
  CASE c.fn = "SET" -> <<"S", "E", "T", " ">> \o Number(c.key) \o <<" ">> \o c.key
                         \o <<" ">> \o Number(c.val) \o c.val \o <<"\n">>
    [] c.fn = "DEL" -> <<"D", "E", "L", " ">> \o Number(c.key) \o <<" ">> \o c.key \o <<"\n">>

\* mutant: a DEL does not end its line
Mut_NoNewline(c) ==
  CASE c.fn = "SET" -> <<"S", "E", "T", " ">> \o Number(c.key) \o <<" ">> \o c.key
                         \o <<" ">> \o Number(c.val) \o <<" ">> \o c.val \o <<"\n">>
    [] c.fn = "DEL" -> <<"D", "E", "L", " ">> \o Number(c.key) \o <<" ">> \o c.key

Record(c) ==
  CASE c.fn = "SET" -> <<"S", "E", "T", " ">> \o Number(c.key) \o <<" ">> \o c.key
                         \o <<" ">> \o Number(c.val) \o <<" ">> \o c.val \o <<"\n">>
    [] c.fn = "DEL" -> <<"D", "E", "L", " ">> \o Number(c.key) \o <<" ">> \o c.key \o <<"\n">>

NoKeys      == [k \in {} |-> <<>>]
SetOf(k, v) == [fn |-> "SET", key |-> k, val |-> v]
DelOf(k)    == [fn |-> "DEL", key |-> k, val |-> <<>>]
Ask(d, c)   == [k \in DOMAIN d \cup {c.key} |-> IF k = c.key THEN c ELSE d[k]]
Least(m, n) == IF m < n THEN m ELSE n
-----------------------------------------------------------------------------
(* aof_replay reads its buffer b: At(b, i) is line[i - 1]. *)

\* fgets: up to a newline, the end of the file or the size of the buffer, a NUL
\* behind it, and what was there before behind that
Taken == CHOOSE n \in 1 .. (LineMax - 1) :
           /\ n = LineMax - 1 \/ pos + n = Len(file) \/ file[pos + n] = "\n"
           /\ \A m \in 1 .. (n - 1) : pos + m < Len(file) /\ file[pos + m] # "\n"
Fetched == SubSeq(file, pos + 1, pos + Taken) \o <<NUL>> \o SubSeq(line, Taken + 2, LineMax)

\* no text goes on behind the buffer
At(b, i) == IF i \in DOMAIN b THEN b[i] ELSE NUL
\* the first place from p on that holds one of S, of which NUL is one
From(b, p, S) == CHOOSE i \in p .. (p + LineMax + 1) :
                   At(b, i) \in S /\ \A j \in p .. (i - 1) : At(b, j) \notin S
NonBlank(b, p) == CHOOSE i \in p .. (p + LineMax + 1) :
                    At(b, i) \notin Blank /\ \A j \in p .. (i - 1) : At(b, j) \in Blank

\* n characters as a C string, and the word that sscanf("%15s") finds
CString(b, p, n) == [i \in 1 .. Least(n, From(b, p, {NUL}) - p) |-> b[p + i - 1]]
Word(b) == LET p == NonBlank(b, 1)
           IN CString(b, p, Least(15, From(b, p, Blank \cup {NUL}) - p))

\* sscanf("%zu") and strchr(' ') at p: whether there is a number, the number,
\* whether there is a blank, and the place behind it
Field(b, p) ==
  LET digit == At(b, NonBlank(b, p))
      blank == From(b, p, {" ", NUL})
  IN [ok    |-> digit \in ToSet(Digits),
      len   |-> IF digit \in ToSet(Digits) THEN CHOOSE n \in 0 .. 9 : Digits[n + 1] = digit ELSE 0,
      found |-> At(b, blank) = " ",
      at    |-> blank + 1]

KeyField(b) == Field(b, 5)
ValField(b) == Field(b, KeyField(b).at + KeyField(b).len + 1)
\* key and value as they are used later, strcmp and "%s" (hashmap.c:80,
\* server.handler.c:109): up to the first NUL, which fgets wrote behind the line.
\* The copy itself takes all the characters that the number says.
Key(b) == CString(b, KeyField(b).at, KeyField(b).len)
Val(b) == CString(b, ValField(b).at, ValField(b).len)

\* where the line leads: "segv" is a copy from the NULL of strchr
Outcome(b) ==
  LET k == KeyField(b)
      v == ValField(b)
  IN CASE Word(b) \notin {<<"S", "E", "T">>, <<"D", "E", "L">>} -> "skip"
       [] ~k.ok                                                 -> "skip"
       [] k.ok /\ Word(b) = <<"D", "E", "L">> ->
            IF k.found \/ k.len = 0 THEN "del" ELSE "segv"
       [] k.ok /\ Word(b) = <<"S", "E", "T">> ->
            CASE ~k.found             -> "segv"
              [] k.found /\ ~v.ok     -> "skip"
              [] k.found /\ v.ok      -> IF v.found \/ v.len = 0 THEN "set" ELSE "segv"

\* the copy of the key or of the value reads beyond line[], which is undefined: it
\* may end the process or take what is there
Beyond(f)   == f.at + f.len > LineMax + 1
Overruns(b) ==
  \/ /\ Word(b) \in {<<"S", "E", "T">>, <<"D", "E", "L">>}
     /\ KeyField(b).ok /\ KeyField(b).found /\ Beyond(KeyField(b))
  \/ Outcome(b) = "set" /\ Beyond(ValField(b))
-----------------------------------------------------------------------------
Init ==
  /\ phase = "down"
  /\ file = <<>> /\ durable = 0 /\ pending = <<>> /\ recs = <<>>
  /\ pos = 0 /\ line = <<>> /\ segv = FALSE
  /\ asked = NoKeys
  /\ saver = "idle"
  /\ fresh = TRUE
  /\ appends = 0 /\ kills = 0 /\ cuts = 0
-----------------------------------------------------------------------------
(* server(): aof_open, then aof_replay into a new map. *)

Start ==
  /\ phase = "down"
  /\ phase' = "replay"
  /\ \E j \in Junk : line' = [i \in 1 .. LineMax |-> j]
  /\ segv' = FALSE
  /\ fresh' = TRUE
  /\ UNCHANGED <<logVars, pos, asked, saver, counters>>

\* mutant: every line is taken to fill the buffer
Mut_ReadFull ==
  /\ phase = "replay" /\ pos < Len(file)
  /\ phase' = "parse"
  /\ pos' = pos + LineMax - 1
  /\ line' = Fetched
  /\ UNCHANGED <<logVars, segv, asked, saver, fresh, counters>>

ReadLine ==
  /\ phase = "replay" /\ pos < Len(file)
  /\ phase' = "parse"
  /\ pos' = pos + Taken
  /\ line' = Fetched
  /\ UNCHANGED <<logVars, segv, asked, saver, fresh, counters>>

\* the body of the loop, by where the line leads
Parsed(outcome) ==
  /\ phase = "parse" /\ Outcome(line) = outcome
  /\ phase' = "replay"
  /\ UNCHANGED <<logVars, bootVars, saver, fresh, counters>>

ParseSkip == Parsed("skip") /\ UNCHANGED asked

ParseSet == Parsed("set") /\ asked' = Ask(asked, SetOf(Key(line), Val(line)))

ParseDel == Parsed("del") /\ asked' = Ask(asked, DelOf(Key(line)))

ParseSegv ==
  /\ phase = "parse" /\ (Outcome(line) = "segv" \/ Overruns(line))
  /\ phase' = "down"
  /\ segv' = TRUE
  /\ pos' = 0 /\ line' = <<>> /\ asked' = NoKeys
  /\ UNCHANGED <<logVars, saver, fresh, counters>>

ReplayEnds ==
  /\ phase = "replay" /\ pos = Len(file)
  /\ phase' = "serving"
  /\ pos' = 0 /\ line' = <<>>
  /\ UNCHANGED <<logVars, segv, asked, saver, fresh, counters>>

Replay == ReadLine \/ ParseSkip \/ ParseSet \/ ParseDel \/ ParseSegv \/ ReplayEnds
-----------------------------------------------------------------------------
(* A handler: the map, then the record, under pool_mutex. *)

BeginAppend(c) ==
  /\ phase = "serving" /\ saver = "idle" /\ pending = <<>>
  /\ appends < MaxAppends
  /\ appends' = appends + 1
  /\ asked' = Ask(asked, c)
  /\ pending' = Record(c)
  /\ recs' = Append(recs, [cmd |-> c, from |-> Len(file) + 1, len |-> Len(Record(c))])
  /\ fresh' = FALSE
  /\ UNCHANGED <<phase, file, durable, bootVars, saver, kills, cuts>>

\* mutant: the log is unbuffered
Mut_WriteChar ==
  /\ pending # <<>>
  /\ file' = Append(file, Head(pending))
  /\ pending' = Tail(pending)
  /\ durable' \in IF pending' = <<>> THEN {durable, Len(file')} ELSE {durable}
  /\ UNCHANGED <<phase, recs, bootVars, asked, saver, fresh, counters>>

\* mutant: what stdio holds when a record is complete is not flushed
Mut_NoFlush ==
  /\ pending # <<>>
  /\ file' = IF Len(pending) < Block THEN file ELSE file \o SubSeq(pending, 1, Block)
  /\ pending' = IF Len(pending) < Block THEN <<>> ELSE SubSeq(pending, Block + 1, Len(pending))
  /\ durable' \in IF pending' = <<>> THEN {durable, Len(file')} ELSE {durable}
  /\ UNCHANGED <<phase, recs, bootVars, asked, saver, fresh, counters>>

\* stdio writes when its buffer is full and at fflush; the fsync that may follow
\* fflush is due once a second
WriteBlock ==
  /\ pending # <<>>
  /\ file' = file \o SubSeq(pending, 1, Least(Block, Len(pending)))
  /\ pending' = SubSeq(pending, Block + 1, Len(pending))
  /\ durable' \in IF pending' = <<>> THEN {durable, Len(file')} ELSE {durable}
  /\ UNCHANGED <<phase, recs, bootVars, asked, saver, fresh, counters>>
-----------------------------------------------------------------------------
(* snapshot_worker, if it runs: db_save, and aof_rewrite after it if the      *)
(* temporary file could not be opened.  Both walk the table with a            *)
(* while(node) that never ends, so that nothing behind it is ever reached.    *)

Busy(call) ==
  /\ phase = "serving" /\ saver = "idle" /\ pending = <<>>
  /\ saver' = call

BeginDbSave ==
  /\ Busy("db_save")
  /\ UNCHANGED <<phase, logVars, bootVars, asked, fresh, counters>>

\* mutant: the log is opened for writing in place of a temporary file
Mut_RewriteInPlace ==
  /\ Busy("aof_rewrite")
  /\ file' = <<>>
  /\ UNCHANGED <<phase, durable, pending, recs, bootVars, asked, fresh, counters>>

BeginRewrite ==
  /\ Busy("aof_rewrite")
  /\ UNCHANGED <<phase, logVars, bootVars, asked, fresh, counters>>
-----------------------------------------------------------------------------
(* The end of the process, and of the machine.  *)

\* how many records begin in the first characters of the file
Begun(kept) == CHOOSE n \in 0 .. Len(recs) :
                 \A i \in DOMAIN recs : i <= n <=> recs[i].from <= kept

\* the process is gone, and so is the file behind its first characters
Die(kept) ==
  /\ phase' = "down"
  /\ file' = SubSeq(file, 1, kept) /\ pending' = <<>>
  /\ recs' = [i \in 1 .. Begun(kept) |->
                [recs[i] EXCEPT !.len = Least(@, kept + 1 - recs[i].from)]]
  /\ pos' = 0 /\ line' = <<>> /\ asked' = NoKeys
  /\ saver' = "idle"
  /\ fresh' = TRUE /\ segv' = FALSE

Kill ==
  /\ phase # "down" /\ kills < MaxKills
  /\ kills' = kills + 1
  /\ Die(Len(file))
  /\ UNCHANGED <<durable, appends, cuts>>

PowerCut ==
  /\ cuts < MaxCuts
  /\ cuts' = cuts + 1
  /\ \E kept \in durable .. Len(file) : Die(kept) /\ durable' = kept
  /\ UNCHANGED <<appends, kills>>
-----------------------------------------------------------------------------
Next ==
  \/ Start \/ Replay
  \/ \E c \in Cmds : BeginAppend(c)
  \/ WriteBlock \/ BeginDbSave \/ BeginRewrite
  \/ Kill \/ PowerCut

Spec == Init /\ [][Next]_vars
-----------------------------------------------------------------------------
Characters == (UNION {ToSet(Record(c)) : c \in Cmds}) \cup Junk \cup {NUL}

\* the file, the records and the replay's place in them are well formed
TypeOK ==
  /\ phase \in {"down", "replay", "parse", "serving"}
  /\ file \in Seq(Characters) /\ pending \in Seq(Characters)
  /\ durable \in 0 .. Len(file) /\ pos \in 0 .. Len(file)
  /\ line \in Seq(Characters) /\ Len(line) \in {0, LineMax}
  /\ \A k \in DOMAIN asked :
       asked[k] \in [fn : {"SET", "DEL"}, key : Seq(Characters), val : Seq(Characters)]
  /\ saver \in {"idle", "db_save", "aof_rewrite"}
  /\ \A i \in DOMAIN recs :
       /\ recs[i].cmd \in Cmds /\ recs[i].len \in 1 .. Len(Record(recs[i].cmd))
       /\ recs[i].from \in 1 .. (Len(file) + 1)
  /\ fresh \in BOOLEAN /\ segv \in BOOLEAN
  /\ appends \in 0 .. MaxAppends /\ kills \in 0 .. MaxKills /\ cuts \in 0 .. MaxCuts

Whole(r) == r.len = Len(Record(r.cmd))
\* a command whose record is one line to fgets
Fits(c) ==
  /\ Len(Record(c)) < LineMax /\ "\n" \notin ToSet(c.key)
  /\ \A j \in 1 .. (Len(c.val) - 1) : c.val[j] # "\n"
\* a record that aof_replay can read, and does if no other is torn into its line
OneLine(r) == Whole(r) /\ Fits(r.cmd)
Clean(i)   == OneLine(recs[i]) /\ (i = 1 \/ Whole(recs[i - 1]))

\* The replay of a damaged record may do something to a key that begins like its
\* own; cut down to the word of the command, to the key of the line before, which
\* is still in the buffer.
Touches(i, k) ==
  \/ k = recs[i].cmd.key
  \/ ~Clean(i) /\ IsPrefix(k, recs[i].cmd.key)
  \/ i > 1 /\ recs[i].len = 3 /\ k = recs[i - 1].cmd.key

\* Damage is local: after a restart the map has last been asked, of every key whose
\* last record was neither torn, nor glued to a torn one, nor longer than the line
\* buffer, for what that record says, and of the others of the keys for nothing
\* (aof.c:154-222).  That is so if no key reads like the beginning of another with
\* the name of a command behind it, and no value that is longer than the line goes
\* on like a record.
DamageIsLocal ==
  (phase = "serving" /\ fresh) =>
    \A k \in Keys :
      LET S == {i \in DOMAIN recs : Touches(i, k)} IN
      IF S = {} THEN k \notin DOMAIN asked
      ELSE LET i == CHOOSE x \in S : \A y \in S : y <= x
           IN (Clean(i) /\ recs[i].cmd.key = k) =>
                k \in DOMAIN asked /\ asked[k] = recs[i].cmd

\* As long as the machine stays up, no record that fits the stdio buffer is torn,
\* whenever the process is killed (aof.c:74, one fflush for the whole record).
KillTearsOnlyLong ==
  cuts = 0 => \A i \in DOMAIN recs : Len(Record(recs[i].cmd)) <= Block => Whole(recs[i])

\* aof_replay ends the process only over a log with a record that was cut off, is
\* longer than its buffer, or has a newline in its key or inside its value.
Undamaged == \A i \in DOMAIN recs : OneLine(recs[i])
OnlyDamageStopsBoot == segv => ~Undamaged

\* Only a power cut takes anything from the log: no restart, no replay and no
\* rewrite, wherever it is interrupted (aof.c:240-244 writes a temporary file).
LogOnlyGrows == [][cuts' = cuts => IsPrefix(file, file')]_vars

\* The characters are a log of commands: a kill loses no command but the one that is
\* being appended, a power cut none that was synced, and a restart over records that
\* are one line each asks the map for the last of them on every key (aof.c:96-130,
\* aof.c:140-230).
AbsLog == INSTANCE CommandLog WITH
            Readable <- {c \in Cmds : Fits(c)},
            log      <- [i \in DOMAIN recs |-> [cmd   |-> recs[i].cmd,
                                               whole |-> Whole(recs[i])]],
            open     <- pending # <<>>,
            safe     <- {i \in DOMAIN recs : recs[i].from + recs[i].len <= durable + 1},
            asked    <- IF phase = "serving" THEN asked ELSE NoKeys,
            up       <- phase = "serving"
RefinesCommandLog == AbsLog!Spec
=============================================================================
