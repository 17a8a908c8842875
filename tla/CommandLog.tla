----------------------------- MODULE CommandLog -----------------------------
(***************************************************************************)
(* What an append-only log is kept for: the commands that were answered    *)
(* survive the process, those that were synced survive the machine, and a  *)
(* restart asks the map for what is left.  One command at a time is on     *)
(* its way.                                                                *)
(***************************************************************************)
EXTENDS Naturals, Sequences

CONSTANTS
  Cmds,      \* fn "SET" or "DEL", key and val
  Readable   \* those that a restart can read back

VARIABLES
  log,   \* the commands, and whether they are there in full
  open,  \* the last one is not answered yet
  safe,  \* the places in the log that are on the disk
  asked, \* the last command on each key that the map was asked to do
  up

logVars == <<log, open, safe, asked, up>>

NoKeys == [k \in {} |-> <<>>]

Ask(d, c) == [k \in DOMAIN d \cup {c.key} |-> IF k = c.key THEN c ELSE d[k]]

\* what the commands of a log amount to: the last one on a key counts
On(l, k)   == {i \in DOMAIN l : l[i].cmd.key = k}
Last(l, k) == l[CHOOSE i \in On(l, k) : \A j \in On(l, k) : j <= i].cmd
Amounts(l) == [k \in {l[i].cmd.key : i \in DOMAIN l} |-> Last(l, k)]

\* the first n commands, the n-th of them cut off
Torn(n) == [i \in 1 .. n |-> IF i = n THEN [log[i] EXCEPT !.whole = FALSE] ELSE log[i]]

Init ==
  /\ log = <<>> /\ open = FALSE /\ safe = {}
  /\ asked = NoKeys /\ up = FALSE

Add(c) ==
  /\ up /\ ~open
  /\ log' = Append(log, [cmd |-> c, whole |-> TRUE])
  /\ open' = TRUE
  /\ asked' = Ask(asked, c)
  /\ UNCHANGED <<safe, up>>

Answer ==
  /\ open /\ open' = FALSE
  /\ safe' \in {safe, DOMAIN log}
  /\ UNCHANGED <<log, asked, up>>

Stop == up' = FALSE /\ open' = FALSE /\ asked' = NoKeys

\* only the command that is on its way is lost, or a part of it
Kill ==
  /\ Stop
  /\ IF open THEN log' \in {SubSeq(log, 1, Len(log) - 1), Torn(Len(log))} ELSE log' = log
  /\ UNCHANGED safe

\* what is safe is not lost, and nothing in front of what is kept is
PowerCut ==
  /\ Stop
  /\ \E n \in 0 .. Len(log) :
       /\ safe \subseteq 1 .. n /\ safe' = 1 .. n
       /\ \/ log' = SubSeq(log, 1, n)
          \/ n \notin safe /\ log' = Torn(n)

Recover ==
  /\ ~up /\ up' = TRUE
  /\ (\A i \in DOMAIN log : log[i].whole /\ log[i].cmd \in Readable) => asked' = Amounts(log)
  /\ UNCHANGED <<log, open, safe>>

Next == Answer \/ Kill \/ PowerCut \/ Recover \/ \E c \in Cmds : Add(c)

Spec == Init /\ [][Next]_logVars
=============================================================================
