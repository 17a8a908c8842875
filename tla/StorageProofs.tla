--------------------------- MODULE StorageProofs ---------------------------
(***************************************************************************)
(* The proofs about the files, for any commands, line buffer and block     *)
(* size.  First without the parser: only a power cut takes from the log,   *)
(* and the log is its records, one behind the other, of which a kill tears *)
(* none that fits a block.  Then along the parser: what fgets, sscanf and  *)
(* strchr find in a line that holds a whole record, so that a log without  *)
(* damage is replayed record by record to what the records amount to.      *)
(***************************************************************************)
EXTENDS Storage, ProofLemmas, SequenceTheorems, TLAPS

Alphabet == STRING \cup {"S", "E", "T", "D", "L", " ", "\n"} \cup {Digits[i] : i \in 1 .. 10}

\* the log and the stdio buffer are strings, and the disk has no more than the kernel
FileInv ==
  /\ file \in Seq(Alphabet) /\ pending \in Seq(Alphabet)
  /\ durable \in 0 .. Len(file)
  /\ cuts \in Nat

LEMMA SeqMonotone == ASSUME NEW S, NEW T, S \subseteq T, NEW s \in Seq(S) PROVE s \in Seq(T)
OBVIOUS

(* What the formats write is a string. *)
LEMMA RecordIsString == \A c \in Cmds : Record(c) \in Seq(Alphabet)
<1> SUFFICES ASSUME NEW c \in Cmds PROVE Record(c) \in Seq(Alphabet)
  OBVIOUS
<1>1. /\ c.key \in Seq(STRING) /\ c.val \in Seq(STRING)
      /\ Len(c.key) \in 0 .. 9 /\ Len(c.val) \in 0 .. 9 /\ (c.fn = "SET" \/ c.fn = "DEL")
  BY CmdAssumption
<1>2. c.key \in Seq(Alphabet) /\ c.val \in Seq(Alphabet)
  BY <1>1, SeqMonotone DEF Alphabet
<1>3. ASSUME NEW s, Len(s) \in 0 .. 9 PROVE Number(s) \in Seq(Alphabet)
  <2> DEFINE n == Len(s)
  <2>1. Digits[n + 1] \in Alphabet
    <3>1. n + 1 \in 1 .. 10
      <4> HIDE DEF n
      <4>1. \A m \in 0 .. 9 : m + 1 \in 1 .. 10
        OBVIOUS
      <4> QED BY <1>3, <4>1 DEF n
    <3> HIDE DEF n
    <3> QED BY <3>1 DEF Alphabet
  <2> QED BY <2>1 DEF Number
<1>4. /\ <<"S", "E", "T", " ">> \in Seq(Alphabet) /\ <<"D", "E", "L", " ">> \in Seq(Alphabet)
      /\ <<" ">> \in Seq(Alphabet) /\ <<"\n">> \in Seq(Alphabet)
  BY DEF Alphabet
<1>5. Number(c.key) \in Seq(Alphabet) /\ Number(c.val) \in Seq(Alphabet)
  BY <1>1, <1>3
\* the records piece by piece; what a piece is does not matter
<1> DEFINE P      == Seq(Alphabet)
           set    == <<"S", "E", "T", " ">>
           del    == <<"D", "E", "L", " ">>
           blank  == <<" ">>
           end    == <<"\n">>
           keyLen == Number(c.key)
           valLen == Number(c.val)
<1>6. \A s, t \in P : s \o t \in P
  BY ConcatProperties
<1>7. /\ set \in P /\ del \in P /\ blank \in P /\ end \in P /\ keyLen \in P /\ valLen \in P
      /\ c.key \in P /\ c.val \in P
  BY <1>2, <1>4, <1>5
<1>8. CASE c.fn = "SET"
  <2>1. Record(c) = set \o keyLen \o blank \o c.key \o blank \o valLen \o blank \o c.val \o end
    BY <1>8, Zenon DEF Record
  <2> HIDE DEF P, set, del, blank, end, keyLen, valLen
  <2>2. set \o keyLen \o blank \o c.key \in P
    <3>1. set \o keyLen \in P
      BY <1>6, <1>7
    <3>2. set \o keyLen \o blank \in P
      BY <1>6, <1>7, <3>1
    <3> QED BY <1>6, <1>7, <3>2
  <2>3. set \o keyLen \o blank \o c.key \o blank \o valLen \in P
    <3>1. set \o keyLen \o blank \o c.key \o blank \in P
      BY <1>6, <1>7, <2>2
    <3> QED BY <1>6, <1>7, <3>1
  <2>4. set \o keyLen \o blank \o c.key \o blank \o valLen \o blank \o c.val \in P
    <3>1. set \o keyLen \o blank \o c.key \o blank \o valLen \o blank \in P
      BY <1>6, <1>7, <2>3
    <3> QED BY <1>6, <1>7, <3>1
  <2>5. set \o keyLen \o blank \o c.key \o blank \o valLen \o blank \o c.val \o end \in P
    BY <1>6, <1>7, <2>4
  <2> QED BY <2>1, <2>5 DEF P
<1>9. CASE c.fn = "DEL"
  <2>1. Record(c) = del \o keyLen \o blank \o c.key \o end
    BY <1>9, Zenon DEF Record
  <2> HIDE DEF P, set, del, blank, end, keyLen, valLen
  <2>2. del \o keyLen \in P
    BY <1>6, <1>7
  <2>3. del \o keyLen \o blank \in P
    BY <1>6, <1>7, <2>2
  <2>4. del \o keyLen \o blank \o c.key \in P
    BY <1>6, <1>7, <2>3
  <2>5. del \o keyLen \o blank \o c.key \o end \in P
    BY <1>6, <1>7, <2>4
  <2> QED BY <2>1, <2>5 DEF P
<1> QED BY <1>1, <1>8, <1>9

LEMMA PrefixSelf == ASSUME NEW S, NEW s \in Seq(S) PROVE IsPrefix(s, s) /\ SubSeq(s, 1, Len(s)) = s
BY DEF IsPrefix

LEMMA PrefixConcat ==
  ASSUME NEW S, NEW s \in Seq(S), NEW t \in Seq(S)
  PROVE  IsPrefix(s, s \o t)
<1>1. Len(s) <= Len(s \o t) /\ s \o t \in Seq(S)
  BY ConcatProperties
<1>2. SubSeq(s \o t, 1, Len(s)) = s
  BY <1>1, ConcatProperties, SubSeqProperties
<1> QED BY <1>1, <1>2, PrefixSelf DEF IsPrefix

(* A block of the stdio buffer, and what is left behind it. *)
LEMMA BlockIs ==
  ASSUME pending \in Seq(Alphabet), pending # <<>>
  PROVE  /\ SubSeq(pending, 1, Least(Block, Len(pending))) \in Seq(Alphabet)
         /\ SubSeq(pending, Block + 1, Len(pending)) \in Seq(Alphabet)
BY SizeAssumption DEF Least

(* One step: the strings stay strings, and only PowerCut shortens the file.   *)
LEMMA FileStep == FileInv /\ [Next]_vars => FileInv' /\ (cuts' = cuts => IsPrefix(file, file'))
<1> SUFFICES ASSUME FileInv, [Next]_vars
             PROVE  FileInv' /\ (cuts' = cuts => IsPrefix(file, file'))
  OBVIOUS
<1> USE DEF FileInv
<1>1. CASE UNCHANGED <<file, durable, pending, cuts>>
  BY <1>1, PrefixSelf
<1>2. ASSUME NEW c \in Cmds, BeginAppend(c) PROVE FileInv' /\ IsPrefix(file, file')
  BY <1>2, RecordIsString, PrefixSelf DEF BeginAppend
<1>3. ASSUME WriteBlock PROVE FileInv' /\ IsPrefix(file, file')
  <2> DEFINE written == SubSeq(pending, 1, Least(Block, Len(pending)))
  <2>1. /\ file' = file \o written
        /\ pending' = SubSeq(pending, Block + 1, Len(pending))
        /\ durable' \in {durable, Len(file')} /\ UNCHANGED cuts
    BY <1>3 DEF WriteBlock, counters
  <2>2. written \in Seq(Alphabet) /\ pending' \in Seq(Alphabet)
    BY <1>3, <2>1, BlockIs DEF WriteBlock
  <2> HIDE DEF written
  <2>3. file' \in Seq(Alphabet) /\ Len(file) <= Len(file') /\ IsPrefix(file, file')
    BY <2>1, <2>2, PrefixConcat, ConcatProperties
  <2> QED BY <2>1, <2>2, <2>3
<1>4. ASSUME NEW kept \in durable .. Len(file), Die(kept)
      PROVE  file' \in Seq(Alphabet) /\ Len(file') = kept /\ pending' \in Seq(Alphabet)
  BY <1>4, SubSeqProperties DEF Die
<1>5. CASE Kill
  <2>1. Die(Len(file)) /\ UNCHANGED <<durable, cuts>> /\ Len(file) \in durable .. Len(file)
    BY <1>5 DEF Kill
  <2>2. file' = file
    BY <2>1, PrefixSelf DEF Die
  <2> QED BY <1>4, <2>1, <2>2, PrefixSelf
<1>6. CASE PowerCut
  <2>1. PICK kept \in durable .. Len(file) : Die(kept) /\ durable' = kept
    BY <1>6 DEF PowerCut
  <2>2. cuts' = cuts + 1
    BY <1>6 DEF PowerCut
  <2> QED BY <1>4, <2>1, <2>2
<1> QED BY <1>1, <1>2, <1>3, <1>5, <1>6
    DEF Next, vars, logVars, counters, Start, Replay, ReadLine, ParseSkip, ParseSet, ParseDel,
        Parsed, ParseSegv, ReplayEnds, BeginDbSave, BeginRewrite, Busy

(* No restart, no replay, no kill and no rewrite takes a character from the  *)
(* log, wherever it is interrupted: only a power cut does.                   *)
THEOREM OnlyCutsShorten == Spec => LogOnlyGrows
<1>1. Init => FileInv
  BY DEF Init, FileInv
<1>2. FileInv /\ [Next]_vars => [cuts' = cuts => IsPrefix(file, file')]_vars
  BY FileStep
<1>3. FileInv /\ [Next]_vars => FileInv'
  BY FileStep
<1> QED BY <1>1, <1>2, <1>3, PTL DEF Spec, LogOnlyGrows
-----------------------------------------------------------------------------
(* The file is its records, one behind the other, and the last of them may *)
(* be in the stdio buffer in part.                                         *)

RecType == [cmd : Cmds, from : Nat \ {0}, len : Nat \ {0}]

\* the records r make up the string L, and each is what its format wrote or the
\* beginning of that
Tiled(r, L) ==
  /\ r \in Seq(RecType) /\ L \in Seq(Alphabet)
  /\ \A i \in 1 .. Len(r) : r[i].len <= Len(Record(r[i].cmd))
  /\ \A i, j \in 1 .. Len(r) : i < j => r[i].from + r[i].len <= r[j].from
  /\ \A i \in 1 .. Len(r) : i < Len(r) => r[i + 1].from = r[i].from + r[i].len
  /\ r = <<>> => Len(L) = 0
  /\ r # <<>> => r[1].from = 1 /\ r[Len(r)].from + r[Len(r)].len = Len(L) + 1
  /\ \A i \in 1 .. Len(r) : \A t \in 1 .. r[i].len :
       L[r[i].from + t - 1] = Record(r[i].cmd)[t]

(* The characters that the formats write, by name: no proof below looks into *)
(* a string.                                                                 *)
CS == "S"
CE == "E"
CT == "T"
CD == "D"
CL == "L"
Space   == " "
Newline == "\n"
Digit(n) == Digits[n + 1]

LEMMA CharsHas ==
  /\ CS \in Alphabet /\ CE \in Alphabet /\ CT \in Alphabet /\ CD \in Alphabet /\ CL \in Alphabet
  /\ Space \in Alphabet /\ Newline \in Alphabet
  /\ \A n \in 0 .. 9 : Digit(n) \in Alphabet
<1>1. \A n \in 0 .. 9 : n + 1 \in 1 .. 10
  OBVIOUS
<1>2. \A n \in 0 .. 9 : Digits[n + 1] \in {Digits[i] : i \in 1 .. 10}
  BY <1>1, Zenon
<1>3. /\ CS \in Alphabet /\ CE \in Alphabet /\ CT \in Alphabet /\ CD \in Alphabet
      /\ CL \in Alphabet /\ Space \in Alphabet /\ Newline \in Alphabet
  BY Zenon DEF CS, CE, CT, CD, CL, Space, Newline, Alphabet
<1> QED BY <1>2, <1>3, Zenon DEF Alphabet, Digit

LEMMA CmdStrings ==
  ASSUME NEW c \in Cmds
  PROVE  /\ c.key \in Seq(Alphabet) /\ Len(c.key) \in 1 .. 9
         /\ c.val \in Seq(Alphabet) /\ Len(c.val) \in 0 .. 9
         /\ c.fn = "SET" \/ c.fn = "DEL"
<1>1. STRING \subseteq Alphabet
  BY Zenon DEF Alphabet
<1>2. /\ c.key \in Seq(STRING) /\ Len(c.key) \in 1 .. 9
      /\ c.val \in Seq(STRING) /\ Len(c.val) \in 0 .. 9
      /\ c.fn = "SET" \/ c.fn = "DEL"
  BY CmdAssumption
<1> QED BY <1>1, <1>2, SeqMonotone, Zenon

(* A command is one of the two that handlers log. *)
LEMMA CmdIs ==
  ASSUME NEW c \in Cmds
  PROVE  \/ c.fn = "SET" /\ c = SetOf(c.key, c.val)
         \/ c.fn = "DEL" /\ c = DelOf(c.key)
<1>1. /\ c \in [fn : {"SET", "DEL"}, key : Seq(STRING), val : Seq(STRING)]
      /\ c.fn = "DEL" => c.val = <<>>
  BY CmdAssumption
<1>2. c = [fn |-> c.fn, key |-> c.key, val |-> c.val] /\ c.fn \in {"SET", "DEL"}
  BY <1>1
<1> QED BY <1>1, <1>2 DEF SetOf, DelOf

(* The head of a record: the name of the command and the length of the key. *)
IsHead(h, A, x, sp, T) ==
  /\ h \in Seq(T) /\ Len(h) = 6 /\ h[5] = x /\ h[6] = sp
  /\ \A i \in 1 .. 4 : h[i] = A[i]

LEMMA HeadPieces ==
  ASSUME NEW T, NEW A \in Seq(T), Len(A) = 4, NEW x \in T, NEW sp \in T
  PROVE  IsHead(A \o <<x>> \o <<sp>>, A, x, sp, T)
<1>1. PICK N : N = <<x>>
  OBVIOUS
<1>2. PICK B : B = <<sp>>
  OBVIOUS
<1>3. N \in Seq(T) /\ Len(N) = 1 /\ N[1] = x /\ B \in Seq(T) /\ Len(B) = 1 /\ B[1] = sp
  BY <1>1, <1>2, OneOf
<1>4. PICK h : h = A \o N \o B
  OBVIOUS
<1>5. Reads(h, A, N, B, T)
  BY <1>3, <1>4, GluedThree, Zenon
<1>6. IsHead(h, A, x, sp, T)
  BY <1>3, <1>5 DEF Reads, IsHead
<1> QED BY <1>1, <1>2, <1>4, <1>6, Zenon

(* A DEL: a head, the key and the end of the line. *)
IsDel(R, A, x, sp, key, nl, T) ==
  /\ R \in Seq(T) /\ Len(R) = Len(key) + 7
  /\ \A i \in 1 .. 4 : R[i] = A[i]
  /\ R[5] = x /\ R[6] = sp
  /\ \A i \in 1 .. Len(key) : R[6 + i] = key[i]
  /\ R[7 + Len(key)] = nl

LEMMA DelPieces ==
  ASSUME NEW T, NEW A \in Seq(T), Len(A) = 4, NEW x \in T, NEW sp \in T, NEW nl \in T,
         NEW key \in Seq(T)
  PROVE  IsDel(A \o <<x>> \o <<sp>> \o key \o <<nl>>, A, x, sp, key, nl, T)
<1>1. PICK h : h = A \o <<x>> \o <<sp>>
  OBVIOUS
<1>2. PICK z : z = <<nl>>
  OBVIOUS
<1>3. IsHead(h, A, x, sp, T)
  BY <1>1, HeadPieces, Zenon
<1>4. z \in Seq(T) /\ Len(z) = 1 /\ z[1] = nl
  BY <1>2, OneOf
<1>5. PICK R : R = h \o key \o z
  OBVIOUS
<1>6. Reads(R, h, key, z, T)
  BY <1>3, <1>4, <1>5, GluedThree, Zenon DEF IsHead
<1>7. IsDel(R, A, x, sp, key, nl, T)
  <2>1. \A i \in 1 .. 6 : R[i] = h[i]
    BY <1>3, <1>6 DEF Reads, IsHead
  <2>2. R[6 + Len(key) + 1] = nl
    BY <1>3, <1>4, <1>6 DEF Reads, IsHead
  <2>3. R \in Seq(T) /\ Len(R) = Len(key) + 7 /\ \A i \in 1 .. Len(key) : R[6 + i] = key[i]
    BY <1>3, <1>4, <1>6 DEF Reads, IsHead
  <2>4. R[5] = x /\ R[6] = sp /\ \A i \in 1 .. 4 : R[i] = A[i]
    BY <1>3, <2>1 DEF IsHead
  <2>5. 6 + Len(key) + 1 = 7 + Len(key)
    OBVIOUS
  <2> QED BY <2>2, <2>3, <2>4, <2>5 DEF IsDel
<1> QED BY <1>1, <1>2, <1>5, <1>7, Zenon

(* A SET: a head, the key, the length of the value, the value and the end. *)
IsSet(R, A, x, y, sp, key, val, nl, T) ==
  /\ R \in Seq(T) /\ Len(R) = Len(key) + Len(val) + 10
  /\ \A i \in 1 .. 4 : R[i] = A[i]
  /\ R[5] = x /\ R[6] = sp
  /\ \A i \in 1 .. Len(key) : R[6 + i] = key[i]
  /\ R[7 + Len(key)] = sp /\ R[8 + Len(key)] = y /\ R[9 + Len(key)] = sp
  /\ \A i \in 1 .. Len(val) : R[9 + Len(key) + i] = val[i]
  /\ R[10 + Len(key) + Len(val)] = nl

LEMMA SetPieces ==
  ASSUME NEW T, NEW A \in Seq(T), Len(A) = 4, NEW x \in T, NEW y \in T,
         NEW sp \in T, NEW nl \in T, NEW key \in Seq(T), NEW val \in Seq(T)
  PROVE  IsSet(A \o <<x>> \o <<sp>> \o key \o <<sp>> \o <<y>> \o <<sp>> \o val \o <<nl>>,
               A, x, y, sp, key, val, nl, T)
<1>1. PICK h : h = A \o <<x>> \o <<sp>>
  OBVIOUS
<1>2. PICK B : B = <<sp>>
  OBVIOUS
<1>3. PICK N : N = <<y>>
  OBVIOUS
<1>4. PICK z : z = <<nl>>
  OBVIOUS
<1>5. IsHead(h, A, x, sp, T)
  BY <1>1, HeadPieces, Zenon
<1>6. /\ B \in Seq(T) /\ Len(B) = 1 /\ B[1] = sp
      /\ N \in Seq(T) /\ Len(N) = 1 /\ N[1] = y
      /\ z \in Seq(T) /\ Len(z) = 1 /\ z[1] = nl
  BY <1>2, <1>3, <1>4, OneOf
<1>7. PICK K \in Nat : K = Len(key)
  OBVIOUS
<1>8. PICK V \in Nat : V = Len(val)
  OBVIOUS
<1>9. PICK g : g = h \o key \o B
  OBVIOUS
<1>10. Reads(g, h, key, B, T)
  BY <1>5, <1>6, <1>9, GluedThree, Zenon DEF IsHead
<1>11. /\ g \in Seq(T) /\ Len(g) = 7 + K
       /\ \A i \in 1 .. 6 : g[i] = h[i]
       /\ \A i \in 1 .. K : g[6 + i] = key[i]
       /\ g[7 + K] = sp
  <2>1. Len(g) = 7 + K /\ g[6 + K + 1] = sp /\ 6 + K + 1 = 7 + K
    BY <1>5, <1>6, <1>7, <1>10 DEF Reads, IsHead
  <2>2. g \in Seq(T) /\ \A i \in 1 .. K : g[6 + i] = key[i]
    BY <1>5, <1>7, <1>10 DEF Reads, IsHead
  <2>3. \A i \in 1 .. 6 : g[i] = h[i]
    BY <1>5, <1>10 DEF Reads, IsHead
  <2> QED BY <2>1, <2>2, <2>3
<1>12. PICK w : w = g \o N \o B
  OBVIOUS
<1>13. Reads(w, g, N, B, T)
  BY <1>6, <1>11, <1>12, GluedThree, Zenon
<1>14. /\ w \in Seq(T) /\ Len(w) = 9 + K
       /\ \A i \in 1 .. (7 + K) : w[i] = g[i]
       /\ w[8 + K] = y /\ w[9 + K] = sp
  <2>1. /\ w[7 + K + 1] = y /\ 7 + K + 1 = 8 + K
        /\ w[7 + K + 1 + 1] = sp /\ 7 + K + 1 + 1 = 9 + K
    BY <1>6, <1>11, <1>13 DEF Reads
  <2>2. w \in Seq(T) /\ Len(w) = 9 + K /\ \A i \in 1 .. (7 + K) : w[i] = g[i]
    BY <1>6, <1>11, <1>13 DEF Reads
  <2> QED BY <2>1, <2>2
<1>15. PICK R : R = w \o val \o z
  OBVIOUS
<1>16. Reads(R, w, val, z, T)
  BY <1>6, <1>14, <1>15, GluedThree, Zenon
<1>17. /\ R \in Seq(T) /\ Len(R) = K + V + 10
       /\ \A i \in 1 .. (9 + K) : R[i] = w[i]
       /\ \A i \in 1 .. V : R[9 + K + i] = val[i]
       /\ R[10 + K + V] = nl
  <2>1. R[9 + K + V + 1] = nl /\ 9 + K + V + 1 = 10 + K + V /\ Len(R) = K + V + 10
    BY <1>6, <1>8, <1>14, <1>16 DEF Reads
  <2>2. R \in Seq(T) /\ \A i \in 1 .. (9 + K) : R[i] = w[i]
    BY <1>14, <1>16 DEF Reads
  <2>3. \A i \in 1 .. V : R[9 + K + i] = val[i]
    BY <1>8, <1>14, <1>16 DEF Reads
  <2> QED BY <2>1, <2>2, <2>3
<1>18. IsSet(R, A, x, y, sp, key, val, nl, T)
  <2>1. \A i \in 1 .. (7 + K) : R[i] = g[i]
    <3>1. \A i \in 1 .. (7 + K) : i \in 1 .. (9 + K)
      OBVIOUS
    <3> QED BY <1>14, <1>17, <3>1, Zenon
  <2>2. \A i \in 1 .. K : R[6 + i] = key[i]
    <3>1. \A i \in 1 .. K : 6 + i \in 1 .. (7 + K)
      OBVIOUS
    <3> QED BY <1>11, <2>1, <3>1
  <2>3. R[7 + K] = sp
    <3>1. 7 + K \in 1 .. (7 + K)
      OBVIOUS
    <3> QED BY <1>11, <2>1, <3>1
  <2>4. R[8 + K] = y /\ R[9 + K] = sp
    BY <1>14, <1>17
  <2>5. \A i \in 1 .. 6 : R[i] = h[i]
    <3>1. \A i \in 1 .. 6 : i \in 1 .. (7 + K)
      OBVIOUS
    <3> QED BY <1>11, <2>1, <3>1
  <2>6. R[5] = x /\ R[6] = sp /\ \A i \in 1 .. 4 : R[i] = A[i]
    BY <1>5, <2>5 DEF IsHead
  <2> QED BY <1>7, <1>8, <1>17, <2>2, <2>3, <2>4, <2>6 DEF IsSet
<1>19. R = A \o <<x>> \o <<sp>> \o key \o <<sp>> \o <<y>> \o <<sp>> \o val \o <<nl>>
  BY <1>1, <1>2, <1>3, <1>4, <1>9, <1>12, <1>15, Zenon
<1> QED BY <1>18, <1>19, Zenon

(* A DEL, character by character. *)
DelText(R, key, K) ==
  /\ key \in Seq(Alphabet) /\ K = Len(key) /\ K \in 1 .. 9
  /\ R \in Seq(Alphabet) /\ Len(R) = K + 7
  /\ R[1] = CD /\ R[2] = CE /\ R[3] = CL /\ R[4] = Space
  /\ R[5] = Digit(K) /\ R[6] = Space
  /\ \A i \in 1 .. K : R[6 + i] = key[i]
  /\ R[7 + K] = Newline

LEMMA DelShape ==
  ASSUME NEW c \in Cmds, c.fn = "DEL"
  PROVE  DelText(Record(c), c.key, Len(c.key))
<1>K. PICK K : K = Len(c.key)
  OBVIOUS
<1>R. PICK R : R = Record(c)
  OBVIOUS
<1>1. PICK key : key = c.key
  OBVIOUS
<1>2. PICK A : A = <<CD, CE, CL, Space>>
  OBVIOUS
<1>3. PICK x : x = Digit(K)
  OBVIOUS
<1>4. key \in Seq(Alphabet) /\ K \in 1 .. 9 /\ K \in 0 .. 9 /\ K = Len(key)
  BY <1>1, <1>K, CmdStrings
<1>5. A \in Seq(Alphabet) /\ Len(A) = 4 /\ A[1] = CD /\ A[2] = CE /\ A[3] = CL /\ A[4] = Space
  BY <1>2, CharsHas, FourOf
<1>6. x \in Alphabet /\ Space \in Alphabet /\ Newline \in Alphabet
  BY <1>3, <1>4, CharsHas
<1>7. R = A \o <<x>> \o <<Space>> \o key \o <<Newline>>
  BY <1>K, <1>R, <1>1, <1>2, <1>3, Zenon DEF Record, Number, Digit, CD, CE, CL, Space, Newline
<1>8. IsDel(R, A, x, Space, key, Newline, Alphabet)
  BY <1>4, <1>5, <1>6, <1>7, DelPieces, Zenon
<1>9. DelText(R, key, K)
  <2>1. /\ R \in Seq(Alphabet) /\ Len(R) = K + 7
        /\ \A i \in 1 .. 4 : R[i] = A[i]
        /\ R[5] = x /\ R[6] = Space
        /\ \A i \in 1 .. K : R[6 + i] = key[i]
        /\ R[7 + K] = Newline
    BY <1>4, <1>8 DEF IsDel
  <2>2. R[1] = CD /\ R[2] = CE /\ R[3] = CL /\ R[4] = Space
    <3>1. \A i \in 1 .. 4 : R[i] = A[i]
      BY <2>1
    <3>2. R[1] = A[1] /\ R[2] = A[2] /\ R[3] = A[3] /\ R[4] = A[4]
      BY <3>1
    <3> QED BY <1>5, <3>2
  <2> QED BY <1>3, <1>4, <2>1, <2>2, Zenon DEF DelText
<1> QED BY <1>K, <1>R, <1>1, <1>9, Zenon

(* A SET, character by character. *)
SetText(R, key, val, K, V) ==
  /\ key \in Seq(Alphabet) /\ K = Len(key) /\ K \in 1 .. 9
  /\ val \in Seq(Alphabet) /\ V = Len(val) /\ V \in 0 .. 9
  /\ R \in Seq(Alphabet) /\ Len(R) = K + V + 10
  /\ R[1] = CS /\ R[2] = CE /\ R[3] = CT /\ R[4] = Space
  /\ R[5] = Digit(K) /\ R[6] = Space
  /\ \A i \in 1 .. K : R[6 + i] = key[i]
  /\ R[7 + K] = Space /\ R[8 + K] = Digit(V) /\ R[9 + K] = Space
  /\ \A i \in 1 .. V : R[9 + K + i] = val[i]
  /\ R[10 + K + V] = Newline

LEMMA SetShape ==
  ASSUME NEW c \in Cmds, c.fn = "SET"
  PROVE  SetText(Record(c), c.key, c.val, Len(c.key), Len(c.val))
<1>K. PICK K : K = Len(c.key)
  OBVIOUS
<1>V. PICK V : V = Len(c.val)
  OBVIOUS
<1>R. PICK R : R = Record(c)
  OBVIOUS
<1>1. PICK key : key = c.key
  OBVIOUS
<1>2. PICK val : val = c.val
  OBVIOUS
<1>3. PICK A : A = <<CS, CE, CT, Space>>
  OBVIOUS
<1>4. PICK x : x = Digit(K)
  OBVIOUS
<1>5. PICK y : y = Digit(V)
  OBVIOUS
<1>6. /\ key \in Seq(Alphabet) /\ K \in 1 .. 9 /\ K \in 0 .. 9 /\ K = Len(key)
      /\ val \in Seq(Alphabet) /\ V \in 0 .. 9 /\ V = Len(val)
  BY <1>1, <1>2, <1>K, <1>V, CmdStrings
<1>7. A \in Seq(Alphabet) /\ Len(A) = 4 /\ A[1] = CS /\ A[2] = CE /\ A[3] = CT /\ A[4] = Space
  BY <1>3, CharsHas, FourOf
<1>8. x \in Alphabet /\ y \in Alphabet /\ Space \in Alphabet /\ Newline \in Alphabet
  BY <1>4, <1>5, <1>6, CharsHas
<1>9. R = A \o <<x>> \o <<Space>> \o key \o <<Space>> \o <<y>> \o <<Space>> \o val \o <<Newline>>
  BY <1>K, <1>V, <1>R, <1>1, <1>2, <1>3, <1>4, <1>5, Zenon DEF Record, Number, Digit, CS, CE, CT, Space, Newline
<1>10. IsSet(R, A, x, y, Space, key, val, Newline, Alphabet)
  <2>1. A \in Seq(Alphabet) /\ Len(A) = 4 /\ key \in Seq(Alphabet) /\ val \in Seq(Alphabet)
    BY <1>6, <1>7
  <2>2. IsSet(A \o <<x>> \o <<Space>> \o key \o <<Space>> \o <<y>> \o <<Space>> \o val
                \o <<Newline>>, A, x, y, Space, key, val, Newline, Alphabet)
    BY <1>8, <2>1, SetPieces, Zenon
  <2> QED BY <1>9, <2>2, Zenon
<1>11. /\ R \in Seq(Alphabet) /\ Len(R) = K + V + 10
       /\ \A i \in 1 .. 4 : R[i] = A[i]
       /\ R[5] = x /\ R[6] = Space
       /\ \A i \in 1 .. K : R[6 + i] = key[i]
       /\ R[7 + K] = Space /\ R[8 + K] = y /\ R[9 + K] = Space
       /\ \A i \in 1 .. V : R[9 + K + i] = val[i]
       /\ R[10 + K + V] = Newline
  BY <1>6, <1>10 DEF IsSet
<1>12. R[1] = CS /\ R[2] = CE /\ R[3] = CT /\ R[4] = Space
  <2>1. \A i \in 1 .. 4 : R[i] = A[i]
    BY <1>11
  <2>2. R[1] = A[1] /\ R[2] = A[2] /\ R[3] = A[3] /\ R[4] = A[4]
    BY <2>1
  <2> QED BY <1>7, <2>2
<1>13. SetText(R, key, val, K, V)
  BY <1>4, <1>5, <1>6, <1>11, <1>12, Zenon DEF SetText
<1> QED BY <1>K, <1>V, <1>R, <1>1, <1>2, <1>13, Zenon

LEMMA RecordLen ==
  ASSUME NEW c \in Cmds
  PROVE  Record(c) \in Seq(Alphabet) /\ Len(Record(c)) \in Nat \ {0} /\ Record(c) # <<>>
<1>1. c.fn = "SET" \/ c.fn = "DEL"
  BY CmdStrings
<1>2. PICK R, key, val, K, V : R = Record(c) /\ key = c.key /\ val = c.val
                               /\ K = Len(c.key) /\ V = Len(c.val)
  OBVIOUS
<1>3. SetText(R, key, val, K, V) \/ DelText(R, key, K)
  BY <1>1, <1>2, SetShape, DelShape, Zenon
<1>4. R \in Seq(Alphabet) /\ Len(R) \in Nat \ {0} /\ R # <<>>
  BY <1>3 DEF SetText, DelText
<1> QED BY <1>2, <1>4

(* The fields of a record, which lies within the log. *)
LEMMA TiledFields ==
  ASSUME NEW r, NEW L, Tiled(r, L)
  PROVE  /\ Len(r) \in Nat /\ Len(L) \in Nat /\ DOMAIN r = 1 .. Len(r)
         /\ \A i \in 1 .. Len(r) :
              /\ r[i] \in RecType /\ r[i].cmd \in Cmds
              /\ r[i].from \in Nat \ {0} /\ r[i].len \in Nat \ {0}
              /\ r[i].from + r[i].len <= Len(L) + 1
<1>1. r \in Seq(RecType) /\ L \in Seq(Alphabet)
  BY DEF Tiled
<1>2. Len(r) \in Nat /\ Len(L) \in Nat /\ DOMAIN r = 1 .. Len(r)
  BY <1>1
<1>3. \A i \in 1 .. Len(r) : r[i] \in RecType
  BY <1>1
<1>4. \A e \in RecType : e.cmd \in Cmds /\ e.from \in Nat \ {0} /\ e.len \in Nat \ {0}
  BY DEF RecType
<1>5. \A i \in 1 .. Len(r) :
        r[i].cmd \in Cmds /\ r[i].from \in Nat \ {0} /\ r[i].len \in Nat \ {0}
  BY <1>3, <1>4, Zenon
<1>6. ASSUME NEW i \in 1 .. Len(r) PROVE r[i].from + r[i].len <= Len(L) + 1
  <2>1. r # <<>> /\ Len(r) \in 1 .. Len(r) /\ (i = Len(r) \/ i < Len(r))
    <3>1. Len(r) # 0 /\ Len(r) \in 1 .. Len(r) /\ (i = Len(r) \/ i < Len(r))
      <4>1. \A m \in Nat : \A k \in 1 .. m : m # 0 /\ m \in 1 .. m /\ (k = m \/ k < m)
        OBVIOUS
      <4> QED BY <1>2, <4>1, Zenon
    <3> QED BY <1>1, <3>1, EmptyIs, Zenon
  <2>2. r[Len(r)].from + r[Len(r)].len = Len(L) + 1
    BY <2>1 DEF Tiled
  <2>3. i < Len(r) => r[i].from + r[i].len <= r[Len(r)].from
    BY <2>1 DEF Tiled
  <2>4. CASE i = Len(r)
    BY <1>2, <2>2, <2>4
  <2>5. CASE i < Len(r)
    <3>1. PICK f, m, g, k : f = r[i].from /\ m = r[i].len /\ g = r[Len(r)].from /\ k = r[Len(r)].len
      OBVIOUS
    <3>2. f \in Nat /\ m \in Nat /\ g \in Nat /\ k \in Nat
      BY <1>5, <2>1, <3>1
    <3>3. f + m <= g /\ g + k = Len(L) + 1
      BY <2>2, <2>3, <2>5, <3>1
    <3>4. f + m <= Len(L) + 1
      BY <1>2, <3>2, <3>3
    <3> QED BY <3>1, <3>4
  <2> QED BY <2>1, <2>4, <2>5
<1> QED BY <1>2, <1>3, <1>5, <1>6, Zenon

LEMMA TiledEmpty == Tiled(<<>>, <<>>)
BY DEF Tiled

(* One more record behind the log. *)
LEMMA TiledAppend ==
  ASSUME NEW r, NEW L, Tiled(r, L), NEW c \in Cmds
  PROVE  Tiled(Append(r, [cmd |-> c, from |-> Len(L) + 1, len |-> Len(Record(c))]),
               L \o Record(c))
<1>1. PICK e : e = [cmd |-> c, from |-> Len(L) + 1, len |-> Len(Record(c))]
  OBVIOUS
<1>2. PICK text : text = Record(c)
  OBVIOUS
<1>3. text \in Seq(Alphabet) /\ Len(text) \in Nat \ {0}
  BY <1>2, RecordLen
<1>4. r \in Seq(RecType) /\ L \in Seq(Alphabet) /\ Len(L) \in Nat
  BY TiledFields DEF Tiled
<1>5. /\ e \in RecType /\ e.cmd = c /\ e.from = Len(L) + 1 /\ e.len = Len(text)
      /\ Record(e.cmd) = text
  BY <1>1, <1>2, <1>3, <1>4 DEF RecType
<1>6. PICK q : q = Append(r, e)
  OBVIOUS
<1>7. PICK n \in Nat : n = Len(r)
  BY <1>4
<1>8. /\ q \in Seq(RecType) /\ Len(q) = n + 1 /\ q # <<>>
      /\ \A i \in 1 .. n : q[i] = r[i]
      /\ q[n + 1] = e
  BY <1>4, <1>5, <1>6, <1>7
<1>9. PICK M : M = L \o text
  OBVIOUS
<1>10. ReadsTwo(M, L, text, Alphabet)
  BY <1>3, <1>4, <1>9, GluedTwo, Zenon
<1>11. /\ M \in Seq(Alphabet) /\ Len(M) = Len(L) + Len(text)
       /\ \A i \in 1 .. Len(L) : M[i] = L[i]
       /\ \A i \in 1 .. Len(text) : M[Len(L) + i] = text[i]
  BY <1>10 DEF ReadsTwo
<1>12. \A i \in 1 .. n :
         /\ r[i].cmd \in Cmds /\ r[i].from \in Nat \ {0} /\ r[i].len \in Nat \ {0}
         /\ r[i].from + r[i].len <= Len(L) + 1
  BY <1>7, TiledFields
<1>13. Tiled(q, M)
  <2>1. \A i \in 1 .. n + 1 : i \in 1 .. n \/ i = n + 1
    BY <1>7
  <2>2. ASSUME NEW i \in 1 .. n + 1 PROVE q[i].len <= Len(Record(q[i].cmd))
    <3>1. CASE i \in 1 .. n
      BY <1>7, <1>8, <3>1 DEF Tiled
    <3>2. CASE i = n + 1
      BY <1>3, <1>5, <1>8, <3>2
    <3> QED BY <2>1, <3>1, <3>2
  <2>3. ASSUME NEW i \in 1 .. n + 1, NEW j \in 1 .. n + 1, i < j
        PROVE  q[i].from + q[i].len <= q[j].from
    <3>1. i \in 1 .. n
      BY <1>7, <2>3
    <3>2. CASE j \in 1 .. n
      BY <1>7, <1>8, <2>3, <3>1, <3>2 DEF Tiled
    <3>3. CASE j = n + 1
      BY <1>5, <1>8, <1>12, <3>1, <3>3
    <3> QED BY <2>1, <3>2, <3>3
  <2>4. ASSUME NEW i \in 1 .. n + 1, i < n + 1
        PROVE  q[i + 1].from = q[i].from + q[i].len
    <3>1. i \in 1 .. n /\ (i = n \/ i < n)
      BY <1>7, <2>4
    <3>2. CASE i = n
      <4>1. r # <<>> /\ r[n].from + r[n].len = Len(L) + 1
        BY <1>4, <1>7, <3>1, <3>2 DEF Tiled
      <4> QED BY <1>5, <1>8, <3>1, <3>2, <4>1
    <3>3. CASE i < n
      <4>1. i + 1 \in 1 .. n /\ r[i + 1].from = r[i].from + r[i].len
        BY <1>7, <3>1, <3>3 DEF Tiled
      <4> QED BY <1>8, <3>1, <4>1
    <3> QED BY <3>1, <3>2, <3>3
  <2>5. q[1].from = 1
    <3>1. CASE n = 0
      <4>1. r = <<>> /\ Len(L) = 0
        <5>1. r = <<>>
          BY <1>4, <1>7, <3>1, EmptyIs, Zenon
        <5> QED BY <5>1 DEF Tiled
      <4> QED BY <1>5, <1>8, <3>1, <4>1
    <3>2. CASE n # 0
      <4>1. r # <<>> /\ r[1].from = 1 /\ 1 \in 1 .. n
        BY <1>4, <1>7, <3>2 DEF Tiled
      <4> QED BY <1>8, <4>1
    <3> QED BY <3>1, <3>2
  <2>6. q[n + 1].from + q[n + 1].len = Len(M) + 1
    BY <1>3, <1>4, <1>5, <1>8, <1>11
  <2>7. ASSUME NEW i \in 1 .. n + 1, NEW t \in 1 .. q[i].len
        PROVE  M[q[i].from + t - 1] = Record(q[i].cmd)[t]
    <3>1. CASE i \in 1 .. n
      <4>1. q[i] = r[i]
        BY <1>8, <3>1
      <4>2. PICK f, m : f = r[i].from /\ m = r[i].len
        OBVIOUS
      <4>3. f \in Nat \ {0} /\ m \in Nat /\ f + m <= Len(L) + 1 /\ t \in 1 .. m
        BY <1>12, <2>7, <3>1, <4>1, <4>2
      <4>4. f + t - 1 \in 1 .. Len(L)
        BY <1>4, <4>3
      <4>5. L[f + t - 1] = Record(r[i].cmd)[t]
        BY <1>7, <3>1, <4>2, <4>3 DEF Tiled
      <4> QED BY <1>11, <4>1, <4>2, <4>4, <4>5
    <3>2. CASE i = n + 1
      <4>1. q[i] = e
        BY <1>8, <3>2
      <4>2. t \in 1 .. Len(text)
        BY <1>5, <2>7, <4>1
      <4>3. Len(L) + 1 + t - 1 = Len(L) + t
        BY <1>3, <1>4, <4>2
      <4> QED BY <1>5, <1>11, <4>1, <4>2, <4>3
    <3> QED BY <2>1, <3>1, <3>2
  <2>8. Len(q) = n + 1 /\ q \in Seq(RecType) /\ M \in Seq(Alphabet) /\ q # <<>>
    BY <1>8, <1>11
  <2> QED BY <2>2, <2>3, <2>4, <2>5, <2>6, <2>7, <2>8 DEF Tiled
<1> QED BY <1>1, <1>2, <1>6, <1>9, <1>13, Zenon

CutAt(r, n, kept) ==
  [i \in 1 .. n |-> [r[i] EXCEPT !.len = Least(@, kept + 1 - r[i].from)]]

(* The log cut off: the records that begin before the cut, the last of them cut. *)
LEMMA TiledCut ==
  ASSUME NEW r, NEW L, Tiled(r, L), NEW kept \in 0 .. Len(L), NEW n \in 0 .. Len(r),
         \A i \in 1 .. Len(r) : i <= n <=> r[i].from <= kept,
         NEW q, q = CutAt(r, n, kept)
  PROVE  /\ Tiled(q, SubSeq(L, 1, kept)) /\ Len(q) = n
         /\ \A i \in 1 .. n :
              /\ q[i].cmd = r[i].cmd /\ q[i].from = r[i].from
              /\ r[i].from + r[i].len <= kept + 1 => q[i].len = r[i].len
<1>1. /\ Len(r) \in Nat /\ Len(L) \in Nat /\ n \in Nat /\ kept \in Nat
      /\ L \in Seq(Alphabet)
      /\ \A i \in 1 .. n : i \in 1 .. Len(r)
      /\ \A i \in 1 .. Len(r) :
           /\ r[i] \in RecType /\ r[i].cmd \in Cmds
           /\ r[i].from \in Nat \ {0} /\ r[i].len \in Nat \ {0}
           /\ r[i].from + r[i].len <= Len(L) + 1
  <2>1. /\ Len(r) \in Nat /\ Len(L) \in Nat
        /\ \A i \in 1 .. Len(r) :
             /\ r[i] \in RecType /\ r[i].cmd \in Cmds
             /\ r[i].from \in Nat \ {0} /\ r[i].len \in Nat \ {0}
             /\ r[i].from + r[i].len <= Len(L) + 1
    BY TiledFields, Zenon
  <2>2. L \in Seq(Alphabet)
    BY Zenon DEF Tiled
  <2>3. n \in Nat /\ kept \in Nat /\ \A i \in 1 .. n : i \in 1 .. Len(r)
    BY <2>1
  <2> QED BY <2>1, <2>2, <2>3, Zenon
<1>2. \A i \in 1 .. n : r[i].from <= kept
  BY <1>1
<1>3. PICK M : M = SubSeq(L, 1, kept)
  OBVIOUS
<1>4. M \in Seq(Alphabet) /\ Len(M) = kept /\ \A i \in 1 .. kept : M[i] = L[i]
  BY <1>1, <1>3, Prefix
<1>5. \A i \in 1 .. n :
        /\ q[i].cmd = r[i].cmd /\ q[i].from = r[i].from
        /\ q[i].len = Least(r[i].len, kept + 1 - r[i].from)
        /\ q[i] \in RecType /\ q[i].len <= r[i].len /\ q[i].from + q[i].len <= kept + 1
  <2> SUFFICES ASSUME NEW i \in 1 .. n
               PROVE  /\ q[i].cmd = r[i].cmd /\ q[i].from = r[i].from
                      /\ q[i].len = Least(r[i].len, kept + 1 - r[i].from)
                      /\ q[i] \in RecType /\ q[i].len <= r[i].len
                      /\ q[i].from + q[i].len <= kept + 1
    OBVIOUS
  <2>1. q[i] = [r[i] EXCEPT !.len = Least(r[i].len, kept + 1 - r[i].from)]
    BY DEF CutAt
  <2>2. r[i] \in RecType /\ r[i].from \in Nat \ {0} /\ r[i].len \in Nat \ {0} /\ r[i].from <= kept
    BY <1>1, <1>2
  <2>3. PICK m : m = Least(r[i].len, kept + 1 - r[i].from)
    OBVIOUS
  <2>4. m \in Nat \ {0} /\ m <= r[i].len /\ r[i].from + m <= kept + 1
    BY <1>1, <2>2, <2>3 DEF Least
  <2>5. \A e \in RecType : \A l \in Nat \ {0} :
          /\ [e EXCEPT !.len = l] \in RecType
          /\ [e EXCEPT !.len = l].cmd = e.cmd /\ [e EXCEPT !.len = l].from = e.from
          /\ [e EXCEPT !.len = l].len = l
    BY DEF RecType
  <2>6. q[i] = [r[i] EXCEPT !.len = m]
    BY <2>1, <2>3
  <2>7. /\ q[i] \in RecType /\ q[i].cmd = r[i].cmd /\ q[i].from = r[i].from
        /\ q[i].len = m
    <3>1. /\ [r[i] EXCEPT !.len = m] \in RecType
          /\ [r[i] EXCEPT !.len = m].cmd = r[i].cmd
          /\ [r[i] EXCEPT !.len = m].from = r[i].from
          /\ [r[i] EXCEPT !.len = m].len = m
      BY <2>2, <2>4, <2>5, Zenon
    <3> QED BY <2>6, <3>1, Zenon
  <2> QED BY <2>3, <2>4, <2>7
<1>6. q \in Seq(RecType) /\ Len(q) = n
  <2>1. q = [i \in 1 .. n |-> q[i]] /\ \A i \in 1 .. n : q[i] \in RecType
    BY <1>5 DEF CutAt
  <2>2. q \in [1 .. n -> RecType]
    BY <2>1
  <2> QED BY <1>1, <2>2, FunctionIsSeq
<1>7. \A i \in 1 .. n : r[i].from + r[i].len <= kept + 1 => q[i].len = r[i].len
  <2> SUFFICES ASSUME NEW i \in 1 .. n, r[i].from + r[i].len <= kept + 1
               PROVE  q[i].len = r[i].len
    OBVIOUS
  <2>1. PICK f, m : f = r[i].from /\ m = r[i].len
    OBVIOUS
  <2>2. f \in Nat /\ m \in Nat /\ f + m <= kept + 1 /\ q[i].len = Least(m, kept + 1 - f)
    BY <1>1, <1>5, <2>1
  <2>3. kept \in Nat
    BY <1>1
  <2>4. kept + 1 - f >= m
    BY <2>2, <2>3
  <2>5. kept + 1 - f \in Int /\ (m < kept + 1 - f \/ m = kept + 1 - f)
    BY <2>2, <2>3, <2>4
  <2>6. Least(m, kept + 1 - f) = m
    BY <2>2, <2>5 DEF Least
  <2> QED BY <2>1, <2>2, <2>6
<1>8. \A i \in 1 .. n : i < n => r[i].from + r[i].len <= kept
  <2> SUFFICES ASSUME NEW i \in 1 .. n, i < n PROVE r[i].from + r[i].len <= kept
    OBVIOUS
  <2>1. i + 1 \in 1 .. n /\ i + 1 \in 1 .. Len(r) /\ i < Len(r) /\ i \in 1 .. Len(r)
    BY <1>1
  <2>2. r[i + 1].from = r[i].from + r[i].len /\ r[i + 1].from <= kept
    BY <1>2, <2>1 DEF Tiled
  <2> QED BY <2>2
<1>9. \A i \in 1 .. n : i < n => q[i].len = r[i].len
  <2>1. \A a \in Nat : a <= kept => a <= kept + 1
    BY <1>1
  <2>2. \A i \in 1 .. n : r[i].from + r[i].len \in Nat
    BY <1>1
  <2> QED BY <1>7, <1>8, <2>1, <2>2, Zenon
<1>10. n # 0 => r[n].from + r[n].len >= kept + 1
  <2> SUFFICES ASSUME n # 0 PROVE r[n].from + r[n].len >= kept + 1
    OBVIOUS
  <2>1. n \in 1 .. Len(r) /\ r # <<>>
    BY <1>1
  <2>2. CASE n = Len(r)
    BY <1>1, <2>1, <2>2 DEF Tiled
  <2>3. CASE n < Len(r)
    <3>1. n + 1 \in 1 .. Len(r) /\ r[n + 1].from = r[n].from + r[n].len
      BY <1>1, <2>1, <2>3 DEF Tiled
    <3>2. ~(r[n + 1].from <= kept)
      BY <1>1, <3>1
    <3> QED BY <1>1, <2>1, <3>1, <3>2
  <2> QED BY <1>1, <2>2, <2>3
<1>11. n # 0 => q[n].from + q[n].len = kept + 1
  <2> SUFFICES ASSUME n # 0 PROVE q[n].from + q[n].len = kept + 1
    OBVIOUS
  <2>1. n \in 1 .. n /\ n \in 1 .. Len(r)
    BY <1>1
  <2>2. /\ q[n].len = Least(r[n].len, kept + 1 - r[n].from) /\ q[n].from = r[n].from
        /\ r[n].from \in Nat /\ r[n].len \in Nat
    BY <1>1, <1>5, <2>1
  <2> QED BY <1>1, <1>10, <2>2 DEF Least
<1>12. Tiled(q, M)
  <2>1. \A i \in 1 .. n : q[i].len <= Len(Record(q[i].cmd))
    <3> SUFFICES ASSUME NEW i \in 1 .. n PROVE q[i].len <= Len(Record(q[i].cmd))
      OBVIOUS
    <3>1. r[i].len <= Len(Record(r[i].cmd)) /\ Len(Record(r[i].cmd)) \in Nat
      BY <1>1, RecordLen DEF Tiled
    <3>2. q[i].len <= r[i].len /\ q[i].cmd = r[i].cmd /\ q[i].len \in Nat /\ r[i].len \in Nat
      BY <1>1, <1>5 DEF RecType
    <3> QED BY <3>1, <3>2
  <2>2. \A i, j \in 1 .. n : i < j => q[i].from + q[i].len <= q[j].from
    <3> SUFFICES ASSUME NEW i \in 1 .. n, NEW j \in 1 .. n, i < j
                 PROVE  q[i].from + q[i].len <= q[j].from
      OBVIOUS
    <3>1. i < n
      BY <1>1
    <3>2. q[i].from = r[i].from /\ q[j].from = r[j].from /\ q[i].len = r[i].len
      BY <1>5, <1>9, <3>1
    <3>3. r[i].from + r[i].len <= r[j].from
      BY <1>1 DEF Tiled
    <3> QED BY <3>2, <3>3
  <2>3. \A i \in 1 .. n : i < n => q[i + 1].from = q[i].from + q[i].len
    <3> SUFFICES ASSUME NEW i \in 1 .. n, i < n PROVE q[i + 1].from = q[i].from + q[i].len
      OBVIOUS
    <3>1. i + 1 \in 1 .. n /\ i < Len(r) /\ i \in 1 .. Len(r)
      BY <1>1
    <3>2. q[i].from = r[i].from /\ q[i + 1].from = r[i + 1].from /\ q[i].len = r[i].len
      BY <1>5, <1>9, <3>1
    <3>3. r[i + 1].from = r[i].from + r[i].len
      BY <3>1 DEF Tiled
    <3> QED BY <3>2, <3>3
  <2>4. q = <<>> => Len(M) = 0
    <3> SUFFICES ASSUME q = <<>> PROVE kept = 0
      BY <1>4
    <3>1. n = 0
      BY <1>6
    <3>2. CASE r = <<>>
      <4>1. Len(L) = 0
        BY <3>2 DEF Tiled
      <4> QED BY <1>1, <4>1
    <3>3. CASE r # <<>>
      <4>1. r[1].from = 1 /\ 1 \in 1 .. Len(r)
        <5>1. r \in Seq(RecType) /\ r[1].from = 1
          BY <3>3 DEF Tiled
        <5> QED BY <3>3, <5>1
      <4> QED BY <1>1, <3>1, <4>1
    <3> QED BY <3>2, <3>3
  <2>5. q # <<>> => q[1].from = 1 /\ q[Len(q)].from + q[Len(q)].len = Len(M) + 1
    <3> SUFFICES ASSUME q # <<>> PROVE q[1].from = 1 /\ q[n].from + q[n].len = kept + 1
      BY <1>4, <1>6
    <3>1. n # 0 /\ 1 \in 1 .. n /\ r # <<>>
      BY <1>1, <1>6
    <3>2. r[1].from = 1
      BY <3>1 DEF Tiled
    <3> QED BY <1>5, <1>11, <3>1, <3>2
  <2>6. \A i \in 1 .. n : \A t \in 1 .. q[i].len :
          M[q[i].from + t - 1] = Record(q[i].cmd)[t]
    <3> SUFFICES ASSUME NEW i \in 1 .. n, NEW t \in 1 .. q[i].len
                 PROVE  M[q[i].from + t - 1] = Record(q[i].cmd)[t]
      OBVIOUS
    <3>1. PICK f, m, l : f = q[i].from /\ m = q[i].len /\ l = r[i].len
      OBVIOUS
    <3>2. /\ f \in Nat \ {0} /\ m \in Nat /\ l \in Nat /\ m <= l /\ f + m <= kept + 1
          /\ t \in 1 .. m /\ t \in 1 .. l
      BY <1>1, <1>5, <3>1 DEF RecType
    <3>3. f + t - 1 \in 1 .. kept
      <4>1. kept \in Nat
        BY <1>1
      <4>2. \A a \in Nat \ {0} : \A b, e \in Nat : \A d \in 1 .. b :
              a + b <= e + 1 => a + d - 1 \in 1 .. e
        OBVIOUS
      <4> QED BY <3>2, <4>1, <4>2
    <3>4. L[f + t - 1] = Record(r[i].cmd)[t]
      <4>1. r[i].from = f /\ i \in 1 .. Len(r)
        BY <1>1, <1>5, <3>1
      <4> QED BY <3>1, <3>2, <4>1 DEF Tiled
    <3>5. M[f + t - 1] = L[f + t - 1]
      BY <1>4, <3>3
    <3> QED BY <1>5, <3>1, <3>4, <3>5
  <2> QED BY <1>4, <1>6, <2>1, <2>2, <2>3, <2>4, <2>5, <2>6 DEF Tiled
<1> QED BY <1>3, <1>5, <1>6, <1>7, <1>12

(* The records that begin in the first kept characters are the first ones. *)
LEMMA BegunIs ==
  ASSUME NEW L, Tiled(recs, L), NEW kept \in Nat
  PROVE  /\ Begun(kept) \in 0 .. Len(recs)
         /\ \A i \in 1 .. Len(recs) : i <= Begun(kept) <=> recs[i].from <= kept
<1> DEFINE S == {i \in 1 .. Len(recs) : recs[i].from <= kept}
<1>1. /\ Len(recs) \in Nat /\ DOMAIN recs = 1 .. Len(recs)
      /\ \A i \in 1 .. Len(recs) : recs[i].from \in Nat /\ recs[i].len \in Nat
  BY TiledFields
<1>2. \A i, j \in 1 .. Len(recs) : i < j => recs[i].from <= recs[j].from
  <2>1. \A i, j \in 1 .. Len(recs) : i < j => recs[i].from + recs[i].len <= recs[j].from
    BY Zenon DEF Tiled
  <2> QED BY <1>1, <2>1
<1>3. \E n \in 0 .. Len(recs) : \A i \in DOMAIN recs : i <= n <=> recs[i].from <= kept
  <2>1. CASE S = {}
    <3>1. \A i \in 1 .. Len(recs) : ~(recs[i].from <= kept) /\ ~(i <= 0)
      BY <2>1
    <3> QED BY <1>1, <3>1
  <2>2. CASE S # {}
    <3>1. PICK n \in S : \A j \in S : j <= n
      BY <1>1, <2>2, LastExists
    <3>2. n \in 1 .. Len(recs) /\ recs[n].from <= kept
      BY <3>1
    <3>3. ASSUME NEW i \in 1 .. Len(recs) PROVE i <= n <=> recs[i].from <= kept
      <4>1. CASE i <= n
        <5>1. i = n \/ i < n
          BY <3>2, <4>1
        <5>2. recs[i].from <= recs[n].from
          BY <1>1, <1>2, <3>2, <5>1
        <5> QED BY <1>1, <3>2, <4>1, <5>2
      <4>2. CASE ~(i <= n)
        <5>1. i \notin S
          BY <1>1, <3>1, <3>2, <4>2
        <5> QED BY <4>2, <5>1
      <4> QED BY <4>1, <4>2
    <3>4. n \in 0 .. Len(recs)
      BY <1>1, <3>2
    <3>5. \A i \in DOMAIN recs : i <= n <=> recs[i].from <= kept
      BY <1>1, <3>3
    <3> QED BY <3>4, <3>5, Zenon
  <2> QED BY <2>1, <2>2
<1>4. /\ Begun(kept) \in 0 .. Len(recs)
      /\ \A i \in DOMAIN recs : i <= Begun(kept) <=> recs[i].from <= kept
  BY <1>3 DEF Begun
<1> QED BY <1>1, <1>4

-----------------------------------------------------------------------------
Log    == file \o pending
Latest == recs[Len(recs)]

\* The records make up the file and what is still in the stdio buffer, which is of
\* the last record only: all of it, unless it fills more than one block.  No record
\* is in the buffer while the main thread is not serving.
LogInv ==
  /\ FileInv
  /\ Tiled(recs, Log)
  /\ pending # <<>> =>
       /\ phase \notin {"down", "replay", "parse"}
       /\ recs # <<>> /\ Latest.len = Len(Record(Latest.cmd))
       /\ Latest.from <= Len(file) + 1
       /\ Latest.from = Len(file) + 1 \/ Len(Record(Latest.cmd)) > Block

(* The log, and the part of it that is in the file. *)
LEMMA LogIs ==
  ASSUME LogInv
  PROVE  /\ file \in Seq(Alphabet) /\ pending \in Seq(Alphabet) /\ Log \in Seq(Alphabet)
         /\ Len(file) \in Nat /\ Len(pending) \in Nat /\ Len(Log) = Len(file) + Len(pending)
         /\ \A i \in 1 .. Len(file) : Log[i] = file[i]
         /\ pending = <<>> => Log = file
<1>1. file \in Seq(Alphabet) /\ pending \in Seq(Alphabet)
  BY DEF LogInv, FileInv
<1>2. ReadsTwo(Log, file, pending, Alphabet)
  BY <1>1, GluedTwo, Zenon DEF Log
<1>3. /\ Log \in Seq(Alphabet) /\ Len(Log) = Len(file) + Len(pending)
      /\ \A i \in 1 .. Len(file) : Log[i] = file[i]
  BY <1>2 DEF ReadsTwo
<1>4. pending = <<>> => Log = file
  BY <1>1 DEF Log
<1> QED BY <1>1, <1>3, <1>4

(* The end of the process or of the machine cuts the log off. *)
LEMMA DieCuts ==
  ASSUME LogInv, NEW kept \in 0 .. Len(file), Die(kept)
  PROVE  /\ Tiled(recs', Log') /\ pending' = <<>>
         /\ Len(recs') <= Len(recs)
         /\ \A i \in 1 .. Len(recs') :
              /\ i \in 1 .. Len(recs) /\ recs[i].from <= kept
              /\ recs'[i].cmd = recs[i].cmd /\ recs'[i].from = recs[i].from
              /\ recs[i].from + recs[i].len <= kept + 1 => recs'[i].len = recs[i].len
<1>1. /\ file' = SubSeq(file, 1, kept) /\ pending' = <<>>
      /\ recs' = [i \in 1 .. Begun(kept) |->
                    [recs[i] EXCEPT !.len = Least(@, kept + 1 - recs[i].from)]]
  BY Zenon DEF Die
<1>2. /\ Tiled(recs, Log) /\ file \in Seq(Alphabet) /\ pending \in Seq(Alphabet)
      /\ kept \in Nat /\ kept \in 0 .. Len(Log)
  <2>1. /\ file \in Seq(Alphabet) /\ pending \in Seq(Alphabet)
        /\ Len(file) \in Nat /\ Len(pending) \in Nat /\ Len(Log) = Len(file) + Len(pending)
    BY LogIs
  <2> QED BY <2>1 DEF LogInv
<1>3. PICK n : n = Begun(kept)
  OBVIOUS
<1>4. /\ n \in 0 .. Len(recs)
      /\ \A i \in 1 .. Len(recs) : i <= n <=> recs[i].from <= kept
  BY <1>2, <1>3, BegunIs, Zenon
<1>5. recs' = CutAt(recs, n, kept)
  BY <1>1, <1>3 DEF CutAt
<1>6. /\ Tiled(recs', SubSeq(Log, 1, kept)) /\ Len(recs') = n
      /\ \A i \in 1 .. n :
           /\ recs'[i].cmd = recs[i].cmd /\ recs'[i].from = recs[i].from
           /\ recs[i].from + recs[i].len <= kept + 1 => recs'[i].len = recs[i].len
  <2>1. PICK q : q = recs'
    OBVIOUS
  <2>2. q = CutAt(recs, n, kept)
    BY <1>5, <2>1
  <2>3. /\ Tiled(q, SubSeq(Log, 1, kept)) /\ Len(q) = n
        /\ \A i \in 1 .. n :
             /\ q[i].cmd = recs[i].cmd /\ q[i].from = recs[i].from
             /\ recs[i].from + recs[i].len <= kept + 1 => q[i].len = recs[i].len
    BY <1>2, <1>4, <2>2, TiledCut
  <2> QED BY <2>1, <2>3, Zenon
<1>7. SubSeq(Log, 1, kept) = file' /\ Log' = file'
  <2>1. SubSeq(Log, 1, kept) = SubSeq(file, 1, kept)
    <3>1. ReadsTwo(Log, file, pending, Alphabet)
      BY <1>2, GluedTwo, Zenon DEF Log
    <3>2. Len(file) <= Len(Log) /\ Log \in Seq(Alphabet) /\ \A i \in 1 .. Len(file) : Log[i] = file[i]
      BY <1>2, <3>1 DEF ReadsTwo
    <3> QED BY <1>2, <3>2, SamePrefix, Zenon
  <2>2. file' \in Seq(Alphabet)
    BY <1>1, <1>2, Prefix
  <2>3. file' \o <<>> = file'
    BY <2>2
  <2> QED BY <1>1, <2>1, <2>3 DEF Log
<1>8. Len(recs) \in Nat /\ n <= Len(recs) /\ \A i \in 1 .. n : i \in 1 .. Len(recs) /\ i <= n
  <2>1. Len(recs) \in Nat
    BY <1>2, TiledFields, Zenon
  <2> QED BY <1>4, <2>1
<1>9. \A i \in 1 .. n : recs[i].from <= kept
  BY <1>4, <1>8, Zenon
<1> QED BY <1>1, <1>6, <1>7, <1>8, <1>9

(* One step of the log. *)
LEMMA LogStep == LogInv /\ [Next]_vars => LogInv'
<1> SUFFICES ASSUME LogInv, [Next]_vars PROVE LogInv'
  OBVIOUS
<1>1. FileInv'
  BY FileStep DEF LogInv
<1>2. CASE UNCHANGED logVars /\ (phase' \in {"down", "replay", "parse"} =>
                                    phase \in {"down", "replay", "parse"})
  <2>1. UNCHANGED <<file, pending, recs>>
    BY <1>2 DEF logVars
  <2> QED BY <1>1, <1>2, <2>1 DEF LogInv, Log, Latest
<1>3. ASSUME NEW c \in Cmds, BeginAppend(c) PROVE LogInv'
  <2>1. /\ phase = "serving" /\ phase' = phase /\ pending = <<>> /\ file' = file
        /\ pending' = Record(c)
        /\ recs' = Append(recs, [cmd |-> c, from |-> Len(file) + 1, len |-> Len(Record(c))])
    BY <1>3, Zenon DEF BeginAppend
  <2>2. Log = file /\ Tiled(recs, file)
    <3>1. Log = file
      BY <2>1, LogIs, Zenon
    <3> QED BY <3>1 DEF LogInv
  <2>3. Tiled(recs', file \o Record(c))
    BY <2>1, <2>2, TiledAppend, Zenon
  <2>4. PICK e : e = [cmd |-> c, from |-> Len(file) + 1, len |-> Len(Record(c))]
    OBVIOUS
  <2>5. e.cmd = c /\ e.from = Len(file) + 1 /\ e.len = Len(Record(c))
    BY <2>4
  <2>6. Len(file) \in Nat /\ Len(Record(c)) \in Nat \ {0} /\ recs \in Seq(RecType)
    <3>1. recs \in Seq(RecType)
      BY <2>2, Zenon DEF Tiled
    <3>2. Len(file) \in Nat /\ Len(Record(c)) \in Nat \ {0}
      BY LogIs, RecordLen
    <3> QED BY <3>1, <3>2
  <2>7. e \in RecType
    BY <2>4, <2>6 DEF RecType
  <2>8. recs' # <<>> /\ recs'[Len(recs')] = e
    <3>1. recs' = Append(recs, e)
      BY <2>1, <2>4
    <3> QED BY <2>6, <2>7, <3>1, AppendEndsIn, Zenon
  <2>9. Latest' = e
    BY <2>8 DEF Latest
  <2>10. phase' \notin {"down", "replay", "parse"}
    BY <2>1
  <2>11. Log' = file \o Record(c)
    BY <2>1 DEF Log
  <2>12. Latest'.from <= Len(file') + 1
    BY <2>1, <2>5, <2>6, <2>9
  <2> QED BY <1>1, <2>1, <2>3, <2>5, <2>8, <2>9, <2>10, <2>11, <2>12, Zenon DEF LogInv
<1>4. CASE WriteBlock
  <2>1. /\ pending # <<>> /\ phase' = phase /\ recs' = recs
        /\ file' = file \o SubSeq(pending, 1, Least(Block, Len(pending)))
        /\ pending' = SubSeq(pending, Block + 1, Len(pending))
    BY <1>4 DEF WriteBlock
  <2>2. /\ phase \notin {"down", "replay", "parse"}
        /\ recs # <<>> /\ Latest.len = Len(Record(Latest.cmd))
        /\ Latest.from = Len(file) + 1 \/ Len(Record(Latest.cmd)) > Block
        /\ Tiled(recs, Log)
    BY <2>1 DEF LogInv
  <2>3. /\ file \in Seq(Alphabet) /\ pending \in Seq(Alphabet)
        /\ Len(file) \in Nat /\ Len(pending) \in Nat /\ Len(Log) = Len(file) + Len(pending)
        /\ Block \in Nat
    BY LogIs, SizeAssumption
  <2>4. Log' = Log
    <3>1. \A m \in Nat : m = Least(Block, Len(pending)) =>
            SubSeq(pending, 1, m) \o SubSeq(pending, Block + 1, Len(pending)) = pending
      BY <2>3, SplitAt DEF Least
    <3>2. Least(Block, Len(pending)) \in Nat
      BY <2>3 DEF Least
    <3>3. PICK a, b : /\ a = SubSeq(pending, 1, Least(Block, Len(pending)))
                      /\ b = SubSeq(pending, Block + 1, Len(pending))
      OBVIOUS
    <3>4. a \in Seq(Alphabet) /\ b \in Seq(Alphabet)
      BY <2>1, <2>3, <3>3, BlockIs
    <3>5. a \o b = pending
      BY <3>1, <3>2, <3>3
    <3>6. (file \o a) \o b = file \o (a \o b)
      BY <2>3, <3>4, ConcatAssociative
    <3>7. file' = file \o a /\ pending' = b
      BY <2>1, <3>3
    <3> QED BY <3>5, <3>6, <3>7, Zenon DEF Log
  <2>5. Latest' = Latest
    BY <2>1 DEF Latest
  <2>6. pending' # <<>> => Len(Record(Latest.cmd)) > Block
    <3> SUFFICES ASSUME pending' # <<>>, Latest.from = Len(file) + 1
                 PROVE  Len(Record(Latest.cmd)) > Block
      BY <2>2
    <3>1. PICK f, m : f = Latest.from /\ m = Latest.len
      OBVIOUS
    <3>2. f + m = Len(Log) + 1 /\ f \in Nat /\ m \in Nat
      <4>1. f + m = Len(Log) + 1
        BY <2>2, <3>1, Zenon DEF Tiled, Latest
      <4>2. Len(recs) \in 1 .. Len(recs)
        <5>1. recs \in Seq(RecType) /\ recs # <<>>
          BY <2>2, Zenon DEF Tiled
        <5> QED BY <5>1, EmptyIs
      <4>3. Latest.from \in Nat \ {0} /\ Latest.len \in Nat \ {0}
        BY <2>2, <4>2, TiledFields, Zenon DEF Latest
      <4> QED BY <3>1, <4>1, <4>3
    <3>3. m = Len(pending)
      BY <2>3, <3>1, <3>2
    <3>4. Block < Len(pending)
      BY <2>1, <2>3
    <3> QED BY <2>2, <2>3, <3>1, <3>3, <3>4
  <2>7. Latest.from <= Len(file') + 1
    <3>1. FileInv' /\ ReadsTwo(file', file, SubSeq(pending, 1, Least(Block, Len(pending))), Alphabet)
      BY <1>1, <2>1, <2>3, BlockIs, GluedTwo, Zenon
    <3>2. Len(file') \in Nat /\ Len(file) <= Len(file')
      BY <2>1, <2>3, <3>1, BlockIs DEF ReadsTwo
    <3>3. Latest.from <= Len(file) + 1 /\ Latest.from \in Nat
      <4>1. Latest.from <= Len(file) + 1
        BY <2>1 DEF LogInv
      <4>2. Len(recs) \in 1 .. Len(recs)
        <5>1. recs \in Seq(RecType) /\ recs # <<>>
          BY <2>2, Zenon DEF Tiled
        <5> QED BY <5>1, EmptyIs
      <4>3. Latest.from \in Nat \ {0} /\ Latest.len \in Nat \ {0}
        BY <2>2, <4>2, TiledFields, Zenon DEF Latest
      <4> QED BY <4>1, <4>3
    <3> QED BY <2>3, <3>2, <3>3
  <2> QED BY <1>1, <2>1, <2>2, <2>4, <2>5, <2>6, <2>7 DEF LogInv
<1>5. ASSUME NEW kept \in 0 .. Len(file), Die(kept) PROVE LogInv'
  BY <1>1, <1>5, DieCuts, Zenon DEF LogInv
<1>6. CASE Kill
  <2>1. Die(Len(file)) /\ Len(file) \in 0 .. Len(file)
    <3>1. Len(file) \in Nat
      BY LogIs
    <3> QED BY <1>6, <3>1 DEF Kill
  <2> QED BY <1>5, <2>1
<1>7. CASE PowerCut
  <2>1. PICK kept \in durable .. Len(file) : Die(kept)
    BY <1>7 DEF PowerCut
  <2>2. kept \in 0 .. Len(file)
    BY <2>1 DEF LogInv, FileInv
  <2> QED BY <1>5, <2>1, <2>2
<1>8. CASE UNCHANGED vars
  BY <1>2, <1>8 DEF vars
<1>9. CASE Start \/ Replay
  BY <1>2, <1>9 DEF Start, Replay, ReadLine, ParseSkip, ParseSet, ParseDel, Parsed, ParseSegv,
                    ReplayEnds
<1>10. CASE BeginDbSave \/ BeginRewrite
  BY <1>2, <1>10 DEF BeginDbSave, BeginRewrite, Busy
<1> QED BY <1>3, <1>4, <1>6, <1>7, <1>8, <1>9, <1>10 DEF Next

LEMMA LogInit == Init => LogInv
<1> SUFFICES ASSUME Init PROVE LogInv
  OBVIOUS
<1>1. file = <<>> /\ pending = <<>> /\ recs = <<>> /\ durable = 0 /\ cuts = 0
  BY DEF Init
<1>2. Log = <<>>
  BY <1>1 DEF Log
<1> QED BY <1>1, <1>2, TiledEmpty DEF LogInv, FileInv

LEMMA DomainRecs ==
  ASSUME LogInv
  PROVE  /\ recs \in Seq(RecType) /\ DOMAIN recs = 1 .. Len(recs) /\ Len(recs) \in Nat
         /\ recs # <<>> => Len(recs) \in 1 .. Len(recs)
<1>1. recs \in Seq(RecType)
  BY Zenon DEF LogInv, Tiled
<1>2. DOMAIN recs = 1 .. Len(recs) /\ Len(recs) \in Nat
  BY <1>1
<1>3. Len(recs) # 0 => Len(recs) \in 1 .. Len(recs)
  BY <1>2
<1> QED BY <1>1, <1>2, <1>3, EmptyIs, Zenon

LEMMA DomainNext == LogInv' => DOMAIN recs' = 1 .. Len(recs')
<1>1. LogInv => DOMAIN recs = 1 .. Len(recs)
  BY DomainRecs
<1>2. LogInv' => (DOMAIN recs = 1 .. Len(recs))'
  BY <1>1, PTL
<1> QED BY <1>2

(* BeginAppend adds one record, whole. *)
LEMMA NewRecord ==
  ASSUME LogInv, NEW c \in Cmds, BeginAppend(c)
  PROVE  /\ Len(recs') = Len(recs) + 1
         /\ \A i \in 1 .. Len(recs') :
              \/ i \in 1 .. Len(recs) /\ recs'[i] = recs[i]
              \/ /\ recs'[i].cmd = c /\ recs'[i].len = Len(Record(c))
<1>1. PICK e : e = [cmd |-> c, from |-> Len(file) + 1, len |-> Len(Record(c))]
  OBVIOUS
<1>2. e.cmd = c /\ e.len = Len(Record(c)) /\ e \in RecType
  <2>1. Len(file) \in Nat /\ Len(Record(c)) \in Nat \ {0}
    BY LogIs, RecordLen
  <2> QED BY <1>1, <2>1 DEF RecType
<1>3. recs' = Append(recs, e)
  BY <1>1, Zenon DEF BeginAppend
<1>4. /\ Len(recs') = Len(recs) + 1 /\ recs'[Len(recs) + 1] = e
      /\ \A i \in 1 .. Len(recs) : recs'[i] = recs[i]
  BY <1>2, <1>3, DomainRecs
<1>5. \A i \in 1 .. Len(recs') : i \in 1 .. Len(recs) \/ i = Len(recs) + 1
  BY <1>4, DomainRecs
<1> QED BY <1>2, <1>4, <1>5

(* One step of the property: a kill takes the last record from the stdio buffer *)
(* as a whole, unless it was longer than a block.                               *)
LEMMA TearStep == LogInv /\ KillTearsOnlyLong /\ [Next]_vars => KillTearsOnlyLong'
<1> SUFFICES ASSUME LogInv, KillTearsOnlyLong, [Next]_vars PROVE KillTearsOnlyLong'
  OBVIOUS
<1>1. LogInv'
  BY LogStep
<1>2. CASE UNCHANGED <<recs, cuts>>
  BY <1>2 DEF KillTearsOnlyLong
<1>3. ASSUME NEW c \in Cmds, BeginAppend(c) PROVE KillTearsOnlyLong'
  <2>1. cuts' = cuts
    BY <1>3 DEF BeginAppend
  <2>2. DOMAIN recs = 1 .. Len(recs) /\ DOMAIN recs' = 1 .. Len(recs')
    BY <1>1, DomainRecs, DomainNext
  <2>3. \A i \in 1 .. Len(recs') :
          \/ i \in 1 .. Len(recs) /\ recs'[i] = recs[i]
          \/ /\ recs'[i].cmd = c /\ recs'[i].len = Len(Record(c))
    BY <1>3, NewRecord
  <2> QED BY <2>1, <2>2, <2>3, Zenon DEF KillTearsOnlyLong, Whole
<1>4. CASE Kill
  <2>1. cuts' = cuts /\ Die(Len(file)) /\ Len(file) \in 0 .. Len(file)
    <3>1. Len(file) \in Nat
      BY LogIs
    <3> QED BY <1>4, <3>1 DEF Kill
  <2> SUFFICES ASSUME cuts = 0, NEW i \in DOMAIN recs', Len(Record(recs'[i].cmd)) <= Block
               PROVE  recs'[i].len = Len(Record(recs'[i].cmd))
    BY <2>1 DEF KillTearsOnlyLong, Whole
  <2>2. DOMAIN recs = 1 .. Len(recs) /\ i \in 1 .. Len(recs')
    BY <1>1, DomainRecs, DomainNext
  <2>3. /\ i \in 1 .. Len(recs) /\ recs[i].from <= Len(file)
        /\ recs'[i].cmd = recs[i].cmd
        /\ recs[i].from + recs[i].len <= Len(file) + 1 => recs'[i].len = recs[i].len
    BY <2>1, <2>2, DieCuts
  <2>4. recs[i].len = Len(Record(recs[i].cmd))
    BY <2>2, <2>3 DEF KillTearsOnlyLong, Whole
  <2>5. recs[i].from + recs[i].len <= Len(file) + 1
    <3>1. Tiled(recs, Log)
      BY DEF LogInv
    <3>2. /\ Len(recs) \in Nat /\ recs[i].from \in Nat /\ recs[i].len \in Nat
          /\ recs[i].from + recs[i].len <= Len(Log) + 1
      BY <2>3, <3>1, TiledFields
    <3>3. CASE pending = <<>>
      BY <3>2, <3>3, LogIs
    <3>4. CASE pending # <<>>
      <4>1. /\ Latest.from <= Len(file) + 1
            /\ Latest.from = Len(file) + 1 \/ Len(Record(Latest.cmd)) > Block
        BY <3>4 DEF LogInv
      <4>2. i # Len(recs)
        <5> SUFFICES ASSUME i = Len(recs) PROVE FALSE
          OBVIOUS
        <5>1. Latest = recs[i]
          BY DEF Latest
        <5>2. Len(file) \in Nat /\ Block \in Nat /\ Len(Record(recs[i].cmd)) \in Nat
          BY <2>3, <2>4, <3>2, LogIs, SizeAssumption
        <5> QED BY <2>3, <3>2, <4>1, <5>1, <5>2
      <4>3. i < Len(recs) /\ Len(recs) \in 1 .. Len(recs)
        BY <2>3, <3>2, <4>2
      <4>4. recs[i].from + recs[i].len <= Latest.from
        BY <2>3, <3>1, <4>3 DEF Tiled, Latest
      <4>5. Latest.from \in Nat /\ Len(file) \in Nat
        BY <3>1, <4>3, TiledFields, LogIs DEF Latest
      <4> QED BY <3>2, <4>1, <4>4, <4>5
    <3> QED BY <3>3, <3>4
  <2> QED BY <2>3, <2>4, <2>5
<1>5. CASE PowerCut
  <2>1. cuts' = cuts + 1 /\ cuts \in Nat
    BY <1>5 DEF PowerCut, LogInv, FileInv
  <2> QED BY <2>1 DEF KillTearsOnlyLong
<1>6. CASE UNCHANGED vars
  BY <1>2, <1>6 DEF vars, logVars, counters
<1>7. CASE Start \/ Replay
  BY <1>2, <1>7 DEF Start, Replay, ReadLine, ParseSkip, ParseSet, ParseDel, Parsed, ParseSegv,
                    ReplayEnds, logVars, counters
<1>8. CASE WriteBlock \/ BeginDbSave \/ BeginRewrite
  BY <1>2, <1>8 DEF WriteBlock, BeginDbSave, BeginRewrite, Busy, logVars, counters
<1> QED BY <1>3, <1>4, <1>5, <1>6, <1>7, <1>8 DEF Next

(* As long as the machine stays up, no record that fits the stdio buffer is ever *)
(* torn, whenever the process is killed and however often, for any commands, any *)
(* buffer and any number of kills (aof.c:74).                                    *)
THEOREM NoShortRecordTorn == Spec => []KillTearsOnlyLong
<1>1. Init => LogInv /\ KillTearsOnlyLong
  <2>1. Init => KillTearsOnlyLong
    BY DEF Init, KillTearsOnlyLong
  <2> QED BY <2>1, LogInit
<1>2. LogInv /\ KillTearsOnlyLong /\ [Next]_vars => (LogInv /\ KillTearsOnlyLong)'
  BY LogStep, TearStep
<1> QED BY <1>1, <1>2, PTL DEF Spec
-----------------------------------------------------------------------------
(* The ten digits. *)
LEMMA DigitIs ==
  /\ \A d \in ToSet(Digits) : \E n \in 0 .. 9 : Digits[n + 1] = d
  /\ \A n \in 0 .. 9 : Digit(n) \in ToSet(Digits)
  /\ \A m, n \in 0 .. 9 : Digit(m) = Digit(n) => m = n
  /\ \A n \in 0 .. 9 : Digit(n) \notin {Space, Newline, NUL}
<1>1. DOMAIN Digits = 1 .. 10
  BY DEF Digits
<1>2. \A i \in 1 .. 10 : i - 1 \in 0 .. 9 /\ (i - 1) + 1 = i
  OBVIOUS
<1>3. \A n \in 0 .. 9 : n + 1 \in 1 .. 10
  OBVIOUS
<1>4. \A d \in ToSet(Digits) : \E n \in 0 .. 9 : Digits[n + 1] = d
  BY <1>1, <1>2, Zenon DEF ToSet
<1>5. \A n \in 0 .. 9 : Digit(n) \in ToSet(Digits)
  BY <1>1, <1>3, Zenon DEF ToSet, Digit
<1>6. \A m, n \in 0 .. 9 : Digit(m) = Digit(n) => m = n
  BY DEF Digit, Digits
<1>7. \A n \in 0 .. 9 : Digit(n) \notin {Space, Newline, NUL}
  <2>1. \A n \in 0 .. 9 : Digit(n) \in {"0", "1", "2", "3", "4", "5", "6", "7", "8", "9"}
    BY DEF Digit, Digits
  <2>2. \A d \in {"0", "1", "2", "3", "4", "5", "6", "7", "8", "9"} :
          d # Space /\ d # Newline /\ d # NUL
    BY Zenon DEF Space, Newline, NUL
  <2> QED BY <2>1, <2>2, Zenon
<1> QED BY <1>4, <1>5, <1>6, <1>7, Zenon

(* What aof_replay finds in its buffer. *)

(* The buffer reads as its characters, and as NUL outside. *)
LEMMA AtIs ==
  ASSUME NEW X, NEW b \in Seq(X), NEW i \in Nat
  PROVE  /\ i \in 1 .. Len(b) => At(b, i) = b[i] /\ At(b, i) \in X
         /\ i \notin 1 .. Len(b) => At(b, i) = NUL
<1>1. DOMAIN b = 1 .. Len(b) /\ \A k \in 1 .. Len(b) : b[k] \in X
  OBVIOUS
<1> QED BY <1>1, Zenon DEF At

(* The first place with a character of S exists: there is a NUL behind the buffer. *)
LEMMA FromIs ==
  ASSUME NEW X, NEW b \in Seq(X), Len(b) <= LineMax, NEW p \in Nat, NEW S, NUL \in S
  PROVE  /\ From(b, p, S) \in p .. (p + LineMax + 1)
         /\ At(b, From(b, p, S)) \in S
         /\ \A j \in p .. (From(b, p, S) - 1) : At(b, j) \notin S
<1>1. LineMax \in Nat /\ Len(b) \in Nat
  BY SizeAssumption
<1> DEFINE P(i) == At(b, i) \in S /\ \A j \in p .. (i - 1) : At(b, j) \notin S
           Q    == {i \in p .. (p + LineMax + 1) : At(b, i) \in S}
<1>2. p + LineMax + 1 \in Q
  <2>1. p + LineMax + 1 \in Nat /\ p + LineMax + 1 \notin 1 .. Len(b)
    BY <1>1
  <2>2. At(b, p + LineMax + 1) = NUL
    BY <2>1, AtIs
  <2> QED BY <1>1, <2>2
<1>3. PICK i \in Q : \A j \in Q : i <= j
  <2>1. Q \subseteq Nat /\ Q # {}
    BY <1>1, <1>2
  <2> QED BY <2>1, FirstExists
<1>4. i \in p .. (p + LineMax + 1) /\ At(b, i) \in S
  BY <1>3
<1>5. \A j \in p .. (i - 1) : At(b, j) \notin S
  <2> SUFFICES ASSUME NEW j \in p .. (i - 1), At(b, j) \in S PROVE FALSE
    OBVIOUS
  <2>1. j \in Q /\ j < i
    BY <1>1, <1>4
  <2> QED BY <1>1, <1>3, <1>4, <2>1
<1>6. P(From(b, p, S)) /\ From(b, p, S) \in p .. (p + LineMax + 1)
  <2>1. P(i)
    BY <1>4, <1>5
  <2>2. From(b, p, S) = CHOOSE k \in p .. (p + LineMax + 1) : P(k)
    BY DEF From
  <2> HIDE DEF P
  <2> QED BY <1>4, <2>1, <2>2
<1> QED BY <1>6

(* So does the first place without a blank. *)
LEMMA NonBlankIs ==
  ASSUME NEW X, NEW b \in Seq(X), Len(b) <= LineMax, NEW p \in Nat
  PROVE  /\ NonBlank(b, p) \in p .. (p + LineMax + 1)
         /\ At(b, NonBlank(b, p)) \notin Blank
         /\ \A j \in p .. (NonBlank(b, p) - 1) : At(b, j) \in Blank
<1>1. LineMax \in Nat /\ Len(b) \in Nat
  BY SizeAssumption
<1> DEFINE P(i) == At(b, i) \notin Blank /\ \A j \in p .. (i - 1) : At(b, j) \in Blank
           Q    == {i \in p .. (p + LineMax + 1) : At(b, i) \notin Blank}
<1>2. p + LineMax + 1 \in Q
  <2>1. p + LineMax + 1 \in Nat /\ p + LineMax + 1 \notin 1 .. Len(b)
    BY <1>1
  <2>2. At(b, p + LineMax + 1) = NUL
    BY <2>1, AtIs
  <2>3. NUL \notin Blank
    BY DEF NUL, Blank
  <2> QED BY <1>1, <2>2, <2>3
<1>3. PICK i \in Q : \A j \in Q : i <= j
  <2>1. Q \subseteq Nat /\ Q # {}
    BY <1>1, <1>2
  <2> QED BY <2>1, FirstExists
<1>4. i \in p .. (p + LineMax + 1) /\ At(b, i) \notin Blank
  BY <1>3
<1>5. \A j \in p .. (i - 1) : At(b, j) \in Blank
  <2> SUFFICES ASSUME NEW j \in p .. (i - 1), At(b, j) \notin Blank PROVE FALSE
    OBVIOUS
  <2>1. j \in Q /\ j < i
    BY <1>1, <1>4
  <2> QED BY <1>1, <1>3, <1>4, <2>1
<1>6. P(NonBlank(b, p)) /\ NonBlank(b, p) \in p .. (p + LineMax + 1)
  <2>1. P(i)
    BY <1>4, <1>5
  <2>2. NonBlank(b, p) = CHOOSE k \in p .. (p + LineMax + 1) : P(k)
    BY DEF NonBlank
  <2> HIDE DEF P
  <2> QED BY <1>4, <2>1, <2>2
<1> QED BY <1>6

(* A C string in the buffer is a string of its characters. *)
LEMMA CStringIs ==
  ASSUME NEW X, NEW b \in Seq(X), Len(b) <= LineMax, NEW p \in Nat \ {0}, NEW n \in Nat
  PROVE  CString(b, p, n) \in Seq(X)
<1>1. PICK z : z = From(b, p, {NUL})
  OBVIOUS
<1>2. /\ z \in p .. (p + LineMax + 1) /\ \A j \in p .. (z - 1) : At(b, j) \notin {NUL}
      /\ LineMax \in Nat
  BY <1>1, FromIs, SizeAssumption
<1>3. PICK m : m = Least(n, z - p)
  OBVIOUS
<1>4. m \in Nat /\ m <= z - p
  BY <1>2, <1>3 DEF Least
<1>5. ASSUME NEW i \in 1 .. m PROVE b[p + i - 1] \in X
  <2>1. p + i - 1 \in p .. (z - 1) /\ p + i - 1 \in Nat
    BY <1>2, <1>4
  <2>2. At(b, p + i - 1) # NUL
    BY <1>2, <2>1
  <2>3. p + i - 1 \in 1 .. Len(b)
    BY <2>1, <2>2, AtIs
  <2> QED BY <2>3
<1>6. CString(b, p, n) = [i \in 1 .. m |-> b[p + i - 1]]
  BY <1>1, <1>3 DEF CString
<1>7. [i \in 1 .. m |-> b[p + i - 1]] \in [1 .. m -> X]
  BY <1>5
<1> QED BY <1>4, <1>6, <1>7, FunctionIsSeq

(* The number that a field begins with has one digit, and it is behind p. *)
LEMMA FieldIs ==
  ASSUME NEW X, NEW b \in Seq(X), Len(b) <= LineMax, NEW p \in Nat
  PROVE  Field(b, p).len \in 0 .. 9 /\ Field(b, p).at \in Nat \ {0}
<1>1. PICK digit : digit = At(b, NonBlank(b, p))
  OBVIOUS
<1>2. PICK blank : blank = From(b, p, {Space, NUL})
  OBVIOUS
<1>3. PICK len : len = Field(b, p).len
  OBVIOUS
<1>4. len \in 0 .. 9
  <2>1. len = IF digit \in ToSet(Digits) THEN CHOOSE n \in 0 .. 9 : Digits[n + 1] = digit ELSE 0
    <3>1. Field(b, p).len = IF At(b, NonBlank(b, p)) \in ToSet(Digits)
                            THEN CHOOSE n \in 0 .. 9 : Digits[n + 1] = At(b, NonBlank(b, p))
                            ELSE 0
      BY Zenon DEF Field
    <3> QED BY <1>1, <1>3, <3>1
  <2>2. CASE digit \in ToSet(Digits)
    <3>1. \E n \in 0 .. 9 : Digits[n + 1] = digit
      BY <2>2, DigitIs
    <3> QED BY <2>1, <2>2, <3>1
  <2>3. CASE digit \notin ToSet(Digits)
    BY <2>1, <2>3
  <2> QED BY <2>2, <2>3
<1>5. Field(b, p).at = blank + 1
  BY <1>2, Zenon DEF Field, Space
<1>6. blank \in p .. (p + LineMax + 1)
  BY <1>2, FromIs
<1>7. LineMax \in Nat
  BY SizeAssumption
<1> QED BY <1>3, <1>4, <1>5, <1>6, <1>7

(* fgets takes something, and not beyond the end of the file or of a line. *)
LEMMA TakenIs ==
  ASSUME NEW X, file \in Seq(X), pos \in Nat, pos < Len(file)
  PROVE  /\ Taken \in 1 .. (LineMax - 1) /\ pos + Taken <= Len(file)
         /\ Taken = LineMax - 1 \/ pos + Taken = Len(file) \/ file[pos + Taken] = Newline
         /\ \A m \in 1 .. (Taken - 1) : pos + m < Len(file) /\ file[pos + m] # Newline
<1>1. LineMax \in Nat /\ LineMax > 1 /\ Len(file) \in Nat
  BY SizeAssumption
<1> DEFINE Stop(n) == n = LineMax - 1 \/ pos + n = Len(file) \/ file[pos + n] = Newline
           P(n) == /\ Stop(n)
                   /\ \A m \in 1 .. (n - 1) : pos + m < Len(file) /\ file[pos + m] # Newline
           Q    == {n \in 1 .. (LineMax - 1) : Stop(n)}
<1>2. PICK n \in Q : \A m \in Q : n <= m
  <2>1. LineMax - 1 \in Q
    BY <1>1
  <2>2. Q \subseteq Nat
    BY <1>1
  <2> QED BY <2>1, <2>2, FirstExists
<1>3. n \in 1 .. (LineMax - 1) /\ Stop(n)
  BY <1>2
<1>4. ASSUME NEW m \in 1 .. (n - 1) PROVE ~Stop(m)
  <2>1. m \in 1 .. (LineMax - 1) /\ m < n
    BY <1>1, <1>3
  <2> QED BY <1>2, <1>3, <2>1
<1>5. ASSUME NEW m \in 1 .. (n - 1) PROVE pos + m < Len(file) /\ file[pos + m] # Newline
  <2>1. file[pos + m] # Newline
    BY <1>4
  <2>2. pos + m < Len(file)
    <3> SUFFICES ASSUME ~(pos + m < Len(file)) PROVE FALSE
      OBVIOUS
    <3>1. PICK k : k = Len(file) - pos
      OBVIOUS
    <3>2. k \in 1 .. m /\ pos + k = Len(file)
      BY <1>1, <1>3, <3>1
    <3>3. k \in 1 .. (n - 1)
      BY <1>3, <3>2
    <3> QED BY <1>4, <3>2, <3>3
  <2> QED BY <2>1, <2>2
<1>6. P(Taken) /\ Taken \in 1 .. (LineMax - 1)
  <2>1. P(n)
    BY <1>3, <1>5
  <2>2. Taken = CHOOSE k \in 1 .. (LineMax - 1) : P(k)
    BY DEF Taken, Newline
  <2> HIDE DEF P
  <2> QED BY <1>3, <2>1, <2>2
<1>7. pos + Taken <= Len(file)
  <2>1. PICK t : t = Taken
    OBVIOUS
  <2>2. t \in 1 .. (LineMax - 1) /\ \A m \in 1 .. (t - 1) : pos + m < Len(file)
    BY <1>6, <2>1
  <2>3. CASE t = 1
    BY <1>1, <2>3, <2>1
  <2>4. CASE t # 1
    <3>1. t - 1 \in 1 .. (t - 1) /\ t \in Nat
      BY <1>1, <2>2, <2>4
    <3>2. pos + (t - 1) < Len(file)
      BY <2>2, <3>1
    <3> QED BY <1>1, <2>1, <3>1, <3>2
  <2> QED BY <2>3, <2>4
<1> QED BY <1>6, <1>7

(* The line buffer after fgets: what it took, a NUL, what was there before. *)
LEMMA FetchedIs ==
  ASSUME NEW X, file \in Seq(X), line \in Seq(X), NUL \in X, Len(line) = LineMax,
         pos \in Nat, pos < Len(file)
  PROVE  /\ Fetched \in Seq(X) /\ Len(Fetched) = LineMax
         /\ \A i \in 1 .. Taken : Fetched[i] = file[pos + i]
         /\ Fetched[Taken + 1] = NUL
         /\ \A i \in (Taken + 2) .. LineMax : Fetched[i] = line[i]
<1>1. PICK t : t = Taken
  OBVIOUS
<1>2. /\ t \in 1 .. (LineMax - 1) /\ pos + t <= Len(file)
      /\ LineMax \in Nat /\ LineMax > 1 /\ Len(file) \in Nat
  BY <1>1, TakenIs, SizeAssumption
<1>3. PICK a, n, b : /\ a = SubSeq(file, pos + 1, pos + t) /\ n = <<NUL>>
                     /\ b = SubSeq(line, t + 2, LineMax)
  OBVIOUS
<1>4. a \in Seq(X) /\ Len(a) = t /\ \A i \in 1 .. t : a[i] = file[pos + i]
  <2>1. /\ pos + 1 \in 1 .. (Len(file) + 1) /\ pos + t \in 0 .. Len(file) /\ pos + 1 <= pos + t + 1
        /\ pos + t + 1 - (pos + 1) = t
        /\ \A i \in 1 .. t : pos + 1 + i - 1 = pos + i
    BY <1>2
  <2> QED BY <1>3, <2>1, Middle
<1>5. n \in Seq(X) /\ Len(n) = 1 /\ n[1] = NUL
  BY <1>3, OneOf
<1>6. /\ b \in Seq(X) /\ Len(b) = LineMax - t - 1
      /\ \A i \in 1 .. (LineMax - t - 1) : b[i] = line[t + 1 + i]
  <2>1. /\ t + 2 \in 1 .. (Len(line) + 1) /\ LineMax \in 0 .. Len(line) /\ t + 2 <= LineMax + 1
        /\ LineMax + 1 - (t + 2) = LineMax - t - 1
        /\ \A i \in 1 .. (LineMax - t - 1) : t + 2 + i - 1 = t + 1 + i
    BY <1>2
  <2> QED BY <1>3, <2>1, Middle
<1>7. PICK f : f = a \o n \o b
  OBVIOUS
<1>8. Reads(f, a, n, b, X)
  BY <1>4, <1>5, <1>6, <1>7, GluedThree, Zenon
<1>9. f \in Seq(X) /\ Len(f) = LineMax
  BY <1>2, <1>4, <1>5, <1>6, <1>8 DEF Reads
<1>10. \A i \in 1 .. t : f[i] = file[pos + i]
  BY <1>4, <1>8 DEF Reads
<1>11. f[t + 1] = NUL
  BY <1>2, <1>4, <1>5, <1>8 DEF Reads
<1>12. ASSUME NEW i \in (t + 2) .. LineMax PROVE f[i] = line[i]
  <2>1. PICK k : k = i - t - 1
    OBVIOUS
  <2>2. k \in 1 .. Len(b) /\ k \in 1 .. (LineMax - t - 1) /\ t + 1 + k = i
    BY <1>2, <1>6, <2>1
  <2>3. Len(a) + Len(n) + k = i
    BY <1>2, <1>4, <1>5, <2>2
  <2>4. f[Len(a) + Len(n) + k] = b[k]
    BY <1>8, <2>2, Zenon DEF Reads
  <2> QED BY <1>6, <2>2, <2>3, <2>4
<1>13. f = Fetched
  BY <1>1, <1>3, <1>7, Zenon DEF Fetched
<1> QED BY <1>1, <1>9, <1>10, <1>11, <1>12, <1>13

-----------------------------------------------------------------------------
(* The type invariant. *)

(* Commands are written in the characters of their records. *)
LEMMA CharactersOf ==
  ASSUME NEW c \in Cmds
  PROVE  /\ Record(c) \in Seq(Characters) /\ c.key \in Seq(Characters)
         /\ c.fn = "SET" => c.val \in Seq(Characters)
<1>1. PICK R, key, val, K, V : R = Record(c) /\ key = c.key /\ val = c.val
                               /\ K = Len(c.key) /\ V = Len(c.val)
  OBVIOUS
<1>2. R \in Seq(Alphabet) /\ key \in Seq(Alphabet) /\ val \in Seq(Alphabet)
      /\ K = Len(key) /\ V = Len(val) /\ K \in 1 .. 9 /\ V \in 0 .. 9
  BY <1>1, RecordLen, CmdStrings
<1>3. \A i \in 1 .. Len(R) : R[i] \in Characters
  <2>1. ToSet(R) \subseteq Characters
    BY <1>1, Zenon DEF Characters
  <2> QED BY <1>2, <2>1, Elements
<1>4. R \in Seq(Characters)
  BY <1>2, <1>3, ByElements
<1>5. SetText(R, key, val, K, V) \/ DelText(R, key, K)
  BY <1>1, CmdStrings, SetShape, DelShape, Zenon
<1>6. key \in Seq(Characters)
  <2>1. /\ \A i \in 1 .. K : R[6 + i] = key[i]
        /\ Len(R) \in Nat /\ Len(R) >= K + 7
    BY <1>2, <1>5 DEF SetText, DelText
  <2>2. \A i \in 1 .. K : 6 + i \in 1 .. Len(R)
    BY <1>2, <2>1
  <2>3. \A i \in 1 .. K : key[i] \in Characters
    BY <1>3, <2>1, <2>2
  <2> QED BY <1>2, <2>3, ByElements
<1>7. c.fn = "SET" => val \in Seq(Characters)
  <2> SUFFICES ASSUME c.fn = "SET" PROVE val \in Seq(Characters)
    OBVIOUS
  <2>1. SetText(R, key, val, K, V)
    BY <1>1, SetShape, Zenon
  <2>2. /\ \A i \in 1 .. V : R[9 + K + i] = val[i]
        /\ Len(R) \in Nat /\ Len(R) = K + V + 10
    <3>1. \A i \in 1 .. V : R[9 + K + i] = val[i]
      BY <2>1, Zenon DEF SetText
    <3>2. Len(R) = K + V + 10
      BY <2>1, Zenon DEF SetText
    <3> QED BY <1>2, <3>1, <3>2
  <2>3. \A i \in 1 .. V : 9 + K + i \in 1 .. Len(R)
    BY <1>2, <2>2
  <2>4. \A i \in 1 .. V : val[i] \in Characters
    BY <1>3, <2>2, <2>3
  <2> QED BY <1>2, <2>4, ByElements
<1> QED BY <1>1, <1>4, <1>6, <1>7

\* what the map is asked for are strings
Requests   == [fn : {"SET", "DEL"}, key : Seq(Characters), val : Seq(Characters)]
Strings(d) == \A k \in DOMAIN d : d[k] \in Requests

LEMMA MapStrings ==
  /\ Strings(NoKeys)
  /\ \A d : \A c \in Requests : Strings(d) => Strings(Ask(d, c))
<1>1. Strings(NoKeys)
  BY DEF Strings, NoKeys
<1>2. ASSUME NEW d, NEW c \in Requests, Strings(d)
      PROVE  Strings(Ask(d, c))
  <2>1. DOMAIN Ask(d, c) = DOMAIN d \cup {c.key}
    BY Zenon DEF Ask
  <2>2. \A x \in DOMAIN d \cup {c.key} : Ask(d, c)[x] = IF x = c.key THEN c ELSE d[x]
    BY Zenon DEF Ask
  <2> QED BY <1>2, <2>1, <2>2, Zenon DEF Strings
<1> QED BY <1>1, <1>2, Zenon

(* A command, and what the replay makes of a line, can be asked for. *)
LEMMA RequestsOf ==
  /\ \A k, v \in Seq(Characters) : SetOf(k, v) \in Requests
  /\ \A k \in Seq(Characters) : DelOf(k) \in Requests
  /\ Cmds \subseteq Requests
<1>1. \A k, v \in Seq(Characters) : SetOf(k, v) \in Requests
  BY DEF SetOf, Requests
<1>2. <<>> \in Seq(Characters)
  OBVIOUS
<1>3. \A k \in Seq(Characters) : DelOf(k) \in Requests
  BY <1>2 DEF DelOf, Requests
<1>4. ASSUME NEW c \in Cmds PROVE c \in Requests
  <2>1. c.key \in Seq(Characters) /\ (c.fn = "SET" => c.val \in Seq(Characters))
    BY CharactersOf
  <2>2. (c.fn = "SET" /\ c = SetOf(c.key, c.val)) \/ c = DelOf(c.key)
    BY CmdIs
  <2> QED BY <1>1, <1>3, <2>1, <2>2
<1> QED BY <1>1, <1>3, <1>4

\* what a replay has to read with
Buffer == phase \in {"replay", "parse"} => Len(line) = LineMax

(* What the parser takes for a key and a value are strings. *)
LEMMA ParsedStrings ==
  ASSUME line \in Seq(Characters), Len(line) = LineMax
  PROVE  Key(line) \in Seq(Characters) /\ Val(line) \in Seq(Characters)
<1>1. PICK k : k = KeyField(line)
  OBVIOUS
<1>2. k.len \in 0 .. 9 /\ k.at \in Nat \ {0}
  <2>1. LineMax <= LineMax /\ 5 \in Nat
    BY SizeAssumption
  <2> QED BY <1>1, <2>1, FieldIs DEF KeyField
<1>3. PICK v : v = ValField(line)
  OBVIOUS
<1>4. v.len \in 0 .. 9 /\ v.at \in Nat \ {0}
  <2>1. LineMax <= LineMax /\ k.at + k.len + 1 \in Nat
    BY <1>2, SizeAssumption
  <2> QED BY <1>1, <1>3, <2>1, FieldIs DEF ValField
<1>5. LineMax <= LineMax
  BY SizeAssumption
<1>6. Key(line) = CString(line, k.at, k.len) /\ Val(line) = CString(line, v.at, v.len)
  BY <1>1, <1>3, Zenon DEF Key, Val
<1>7. \A p \in Nat \ {0} : \A n \in 0 .. 9 : CString(line, p, n) \in Seq(Characters)
  <2>1. \A n \in 0 .. 9 : n \in Nat
    OBVIOUS
  <2> QED BY <1>5, <2>1, CStringIs
<1> QED BY <1>2, <1>4, <1>6, <1>7

LEMMA RecordsTyped ==
  LogInv => \A i \in DOMAIN recs :
              /\ recs[i].cmd \in Cmds /\ recs[i].len \in 1 .. Len(Record(recs[i].cmd))
              /\ recs[i].from \in 1 .. (Len(file) + 1)
<1> SUFFICES ASSUME LogInv, NEW i \in DOMAIN recs
             PROVE  /\ recs[i].cmd \in Cmds /\ recs[i].len \in 1 .. Len(Record(recs[i].cmd))
                    /\ recs[i].from \in 1 .. (Len(file) + 1)
  OBVIOUS
<1>1. Tiled(recs, Log) /\ Len(file) \in Nat /\ Len(pending) \in Nat
      /\ Len(Log) = Len(file) + Len(pending)
  BY LogIs DEF LogInv
<1>2. i \in 1 .. Len(recs)
  BY DomainRecs
<1>3. /\ Len(recs) \in Nat /\ recs[i].cmd \in Cmds
      /\ recs[i].from \in Nat \ {0} /\ recs[i].len \in Nat \ {0}
      /\ recs[i].from + recs[i].len <= Len(Log) + 1
  BY <1>1, <1>2, TiledFields
<1>4. recs[i].len \in 1 .. Len(Record(recs[i].cmd))
  <2>1. recs[i].len <= Len(Record(recs[i].cmd)) /\ Len(Record(recs[i].cmd)) \in Nat
    BY <1>1, <1>2, <1>3, RecordLen DEF Tiled
  <2> QED BY <1>3, <2>1
<1>5. recs[i].from <= Len(file) + 1
  <2>1. CASE pending = <<>>
    <3>1. Len(pending) = 0
      BY <2>1
    <3> QED BY <1>1, <1>3, <3>1
  <2>2. CASE pending # <<>>
    <3>1. Latest.from <= Len(file) + 1
      BY <2>2 DEF LogInv
    <3>2. CASE i = Len(recs)
      BY <3>1, <3>2 DEF Latest
    <3>3. CASE i # Len(recs)
      <4>1. i < Len(recs) /\ Len(recs) \in 1 .. Len(recs)
        BY <1>2, <1>3, <3>3
      <4>2. recs[i].from + recs[i].len <= Latest.from
        BY <1>1, <1>2, <4>1 DEF Tiled, Latest
      <4>3. Latest.from \in Nat
        BY <1>1, <4>1, TiledFields DEF Latest
      <4> QED BY <1>1, <1>3, <3>1, <4>2, <4>3
    <3> QED BY <3>2, <3>3
  <2> QED BY <2>1, <2>2
<1> QED BY <1>1, <1>3, <1>4, <1>5

(* One step of the type invariant. *)
LEMMA TypeStep == LogInv /\ TypeOK /\ Buffer /\ [Next]_vars => TypeOK' /\ Buffer'
<1>0. LogInv' => (\A i \in DOMAIN recs :
              /\ recs[i].cmd \in Cmds /\ recs[i].len \in 1 .. Len(Record(recs[i].cmd))
              /\ recs[i].from \in 1 .. (Len(file) + 1))'
  BY RecordsTyped, PTL
<1> SUFFICES ASSUME LogInv, TypeOK, Buffer, [Next]_vars PROVE TypeOK' /\ Buffer'
  OBVIOUS
<1>1. LogInv'
  BY LogStep
<1>2. durable' \in 0 .. Len(file')
  BY <1>1 DEF LogInv, FileInv
<1>3. (\A i \in DOMAIN recs :
              /\ recs[i].cmd \in Cmds /\ recs[i].len \in 1 .. Len(Record(recs[i].cmd))
              /\ recs[i].from \in 1 .. (Len(file) + 1))'
  BY <1>0, <1>1
<1>4. /\ file \in Seq(Characters) /\ pending \in Seq(Characters) /\ line \in Seq(Characters)
      /\ pos \in 0 .. Len(file) /\ Len(file) \in Nat /\ LineMax \in Nat \ {0} /\ Block \in Nat
      /\ Strings(asked) /\ NUL \in Characters /\ Junk \subseteq Characters
  <2>1. /\ file \in Seq(Characters) /\ pending \in Seq(Characters) /\ line \in Seq(Characters)
        /\ pos \in 0 .. Len(file) /\ Strings(asked)
    BY DEF TypeOK, Strings, Requests
  <2>2. NUL \in Characters /\ Junk \subseteq Characters
    BY Zenon DEF Characters
  <2> QED BY <2>1, <2>2, SizeAssumption
<1>5. /\ phase' \in {"down", "replay", "parse", "serving"}
      /\ saver' \in {"idle", "db_save", "aof_rewrite"}
      /\ fresh' \in BOOLEAN /\ segv' \in BOOLEAN
  BY DEF TypeOK, Next, vars, logVars, bootVars, counters, Start, Replay, ReadLine, ParseSkip,
         ParseSet, ParseDel, Parsed, ParseSegv, ReplayEnds, BeginAppend, WriteBlock, BeginDbSave,
         BeginRewrite, Busy, Kill, PowerCut, Die
<1>6. appends' \in 0 .. MaxAppends /\ kills' \in 0 .. MaxKills /\ cuts' \in 0 .. MaxCuts
  <2>1. /\ appends' = appends \/ (appends < MaxAppends /\ appends' = appends + 1)
        /\ kills' = kills \/ (kills < MaxKills /\ kills' = kills + 1)
        /\ cuts' = cuts \/ (cuts < MaxCuts /\ cuts' = cuts + 1)
    <3>1. CASE UNCHANGED counters
      BY <3>1 DEF counters
    <3>2. ASSUME NEW c \in Cmds, BeginAppend(c)
          PROVE  appends < MaxAppends /\ appends' = appends + 1 /\ UNCHANGED <<kills, cuts>>
      BY <3>2, Zenon DEF BeginAppend
    <3>3. CASE Kill
      BY <3>3 DEF Kill
    <3>4. CASE PowerCut
      BY <3>4 DEF PowerCut
    <3>5. CASE Start \/ Replay
      BY <3>1, <3>5 DEF Start, Replay, ReadLine, ParseSkip, ParseSet, ParseDel, Parsed, ParseSegv,
                        ReplayEnds
    <3>6. CASE WriteBlock \/ BeginDbSave \/ BeginRewrite
      BY <3>1, <3>6 DEF WriteBlock, BeginDbSave, BeginRewrite, Busy
    <3>7. CASE UNCHANGED vars
      BY <3>1, <3>7 DEF vars
    <3> QED BY <3>2, <3>3, <3>4, <3>5, <3>6, <3>7 DEF Next
  <2>2. appends \in 0 .. MaxAppends /\ kills \in 0 .. MaxKills /\ cuts \in 0 .. MaxCuts
    BY DEF TypeOK
  <2> QED BY <2>1, <2>2, BoundAssumption
<1> DEFINE Rest == /\ file' \in Seq(Characters) /\ pending' \in Seq(Characters)
                   /\ pos' \in 0 .. Len(file')
                   /\ line' \in Seq(Characters) /\ Len(line') \in {0, LineMax}
                   /\ Strings(asked')
                   /\ phase' \in {"replay", "parse"} => Len(line') = LineMax
<1>7. Rest
  <2>1. CASE UNCHANGED <<phase, file, pending, pos, line, asked>>
    BY <1>4, <2>1 DEF TypeOK, Buffer
  <2>2. CASE Start
    <3>1. PICK j \in Junk : line' = [i \in 1 .. LineMax |-> j]
      BY <2>2 DEF Start
    <3>2. line' \in Seq(Characters) /\ Len(line') = LineMax
      BY <1>4, <3>1
    <3>3. UNCHANGED <<file, pending, pos, asked>>
      BY <2>2 DEF Start, logVars
    <3> QED BY <1>4, <3>2, <3>3
  <2>3. CASE ReadLine
    <3>1. /\ pos \in Nat /\ pos < Len(file) /\ Len(line) = LineMax
          /\ pos' = pos + Taken /\ line' = Fetched /\ UNCHANGED <<file, pending, asked>>
      BY <1>4, <2>3 DEF ReadLine, logVars, Buffer
    <3>2. Taken \in 1 .. (LineMax - 1) /\ pos + Taken <= Len(file)
      BY <1>4, <3>1, TakenIs
    <3>3. line' \in Seq(Characters) /\ Len(line') = LineMax
      BY <1>4, <3>1, FetchedIs
    <3>4. pos' \in 0 .. Len(file')
      BY <1>4, <3>1, <3>2
    <3> QED BY <1>4, <3>1, <3>3, <3>4
  <2>4. CASE ParseSkip \/ ParseSet \/ ParseDel
    <3>1. phase = "parse" /\ UNCHANGED <<file, pending, pos, line>>
      BY <2>4 DEF ParseSkip, ParseSet, ParseDel, Parsed, logVars, bootVars
    <3>2. Len(line) = LineMax
      BY <3>1 DEF Buffer
    <3>3. \/ asked' = asked
          \/ asked' = Ask(asked, SetOf(Key(line), Val(line)))
          \/ asked' = Ask(asked, DelOf(Key(line)))
      BY <2>4, Zenon DEF ParseSkip, ParseSet, ParseDel
    <3>4. Strings(asked')
      BY <1>4, <3>2, <3>3, ParsedStrings, MapStrings, RequestsOf, Zenon
    <3> QED BY <1>4, <3>1, <3>2, <3>4
  <2>5. CASE ParseSegv
    <3>1. phase' = "down" /\ pos' = 0 /\ line' = <<>> /\ asked' = NoKeys /\ UNCHANGED <<file, pending>>
      BY <2>5 DEF ParseSegv, logVars
    <3>2. Strings(asked')
      BY <3>1, MapStrings
    <3> QED BY <1>4, <3>1, <3>2
  <2>6. CASE ReplayEnds
    <3>1. phase' = "serving" /\ pos' = 0 /\ line' = <<>> /\ UNCHANGED <<file, pending, asked>>
      BY <2>6 DEF ReplayEnds, logVars
    <3> QED BY <1>4, <3>1
  <2>7. ASSUME NEW c \in Cmds, BeginAppend(c) PROVE Rest
    <3>1. /\ pending' = Record(c) /\ UNCHANGED <<phase, file, pos, line>>
          /\ asked' = Ask(asked, c)
      BY <2>7 DEF BeginAppend, bootVars
    <3>2. pending' \in Seq(Characters)
      BY <3>1, CharactersOf
    <3>3. Strings(asked')
      <4>1. c \in Requests
        BY RequestsOf
      <4> QED BY <1>4, <3>1, <4>1, MapStrings, Zenon
    <3> QED BY <1>4, <3>1, <3>2, <3>3 DEF TypeOK, Buffer
  <2>8. CASE WriteBlock
    <3>1. /\ UNCHANGED <<phase, pos, line, asked>>
          /\ file' = file \o SubSeq(pending, 1, Least(Block, Len(pending)))
          /\ pending' = SubSeq(pending, Block + 1, Len(pending))
      BY <2>8 DEF WriteBlock, bootVars
    <3>2. PICK a : a = SubSeq(pending, 1, Least(Block, Len(pending)))
      OBVIOUS
    <3>3. a \in Seq(Characters) /\ pending' \in Seq(Characters)
      BY <1>4, <3>1, <3>2 DEF Least
    <3>4. ReadsTwo(file', file, a, Characters)
      BY <1>4, <3>1, <3>2, <3>3, GluedTwo, Zenon
    <3>5. file' \in Seq(Characters) /\ Len(file) <= Len(file') /\ Len(file') \in Nat
      BY <1>4, <3>3, <3>4 DEF ReadsTwo
    <3> QED BY <1>4, <3>1, <3>3, <3>5 DEF TypeOK, Buffer
  <2>9. ASSUME NEW kept \in 0 .. Len(file), Die(kept) PROVE Rest
    <3>1. /\ phase' = "down" /\ pos' = 0 /\ line' = <<>> /\ asked' = NoKeys /\ pending' = <<>>
          /\ file' = SubSeq(file, 1, kept)
      BY <2>9, Zenon DEF Die
    <3>2. file' \in Seq(Characters) /\ Len(file') \in Nat
      BY <1>4, <3>1, Prefix
    <3>3. Strings(asked')
      BY <3>1, MapStrings
    <3> QED BY <1>4, <3>1, <3>2, <3>3
  <2>10. CASE Kill
    <3>1. Die(Len(file)) /\ Len(file) \in 0 .. Len(file)
      BY <1>4, <2>10 DEF Kill
    <3> QED BY <2>9, <3>1
  <2>11. CASE PowerCut
    <3>1. PICK kept \in durable .. Len(file) : Die(kept)
      BY <2>11 DEF PowerCut
    <3>2. kept \in 0 .. Len(file)
      BY <3>1 DEF LogInv, FileInv
    <3> QED BY <2>9, <3>1, <3>2
  <2>12. CASE BeginDbSave \/ BeginRewrite
    BY <2>1, <2>12 DEF BeginDbSave, BeginRewrite, Busy, logVars, bootVars
  <2>13. CASE UNCHANGED vars
    BY <2>1, <2>13 DEF vars, logVars, bootVars
  <2> HIDE DEF Rest
  <2> QED BY <2>2, <2>3, <2>4, <2>5, <2>6, <2>7, <2>8, <2>10, <2>11, <2>12, <2>13
      DEF Next, Replay
<1> QED BY <1>2, <1>3, <1>5, <1>6, <1>7, Zenon DEF TypeOK, Buffer, Strings, Requests

LEMMA TypeInit == Init => TypeOK /\ Buffer
<1> SUFFICES ASSUME Init PROVE TypeOK /\ Buffer
  OBVIOUS
<1>1. Strings(asked)
  BY MapStrings DEF Init
<1>2. recs = <<>> => DOMAIN recs = {}
  OBVIOUS
<1>3. /\ file = <<>> /\ pending = <<>> /\ line = <<>> /\ durable = 0 /\ pos = 0
      /\ appends = 0 /\ kills = 0 /\ cuts = 0
  BY DEF Init
<1>4. /\ file \in Seq(Characters) /\ pending \in Seq(Characters)
      /\ durable \in 0 .. Len(file) /\ pos \in 0 .. Len(file)
      /\ line \in Seq(Characters) /\ Len(line) \in {0, LineMax}
  BY <1>3
<1>5. appends \in 0 .. MaxAppends /\ kills \in 0 .. MaxKills /\ cuts \in 0 .. MaxCuts
  BY <1>3, BoundAssumption
<1>6. /\ phase = "down" /\ saver = "idle" /\ fresh = TRUE /\ segv = FALSE /\ recs = <<>>
  BY DEF Init
<1>7. Buffer
  BY <1>6 DEF Buffer
<1> QED BY <1>1, <1>2, <1>4, <1>5, <1>6, <1>7, Zenon DEF TypeOK, Strings, Requests

(* The disk never has more than the file, every record is one of a command, begins *)
(* in the file or at its end and has no more characters than the format wrote, and *)
(* the replay's place stays within the file and its buffer of one size, for any    *)
(* commands, any line buffer, whatever was on the stack, and any number of ends of *)
(* the process and the machine.                                                    *)
THEOREM StorageTyped == Spec => []TypeOK
<1>1. Init => LogInv /\ TypeOK /\ Buffer
  BY LogInit, TypeInit
<1>2. LogInv /\ TypeOK /\ Buffer /\ [Next]_vars => (LogInv /\ TypeOK /\ Buffer)'
  BY LogStep, TypeStep
<1> QED BY <1>1, <1>2, PTL DEF Spec
-----------------------------------------------------------------------------
(* The parser over whole records. *)

(* Which of the characters are blanks, and which differ. *)
LEMMA CharsDiffer ==
  /\ CS # Newline /\ CE # Newline /\ CT # Newline /\ CD # Newline /\ CL # Newline
  /\ Space # Newline /\ Space # NUL /\ CD # CS
  /\ CS \notin Blank \cup {NUL} /\ CE \notin Blank \cup {NUL} /\ CT \notin Blank \cup {NUL}
  /\ CD \notin Blank \cup {NUL} /\ CL \notin Blank \cup {NUL}
  /\ \A n \in 0 .. 9 : Digit(n) \notin Blank \cup {NUL}
  /\ Newline \in Blank /\ Space \in Blank /\ NUL \notin Blank
<1>1. /\ CS # Newline /\ CE # Newline /\ CT # Newline /\ CD # Newline /\ CL # Newline
      /\ CD # CS
  BY DEF CS, CE, CT, CD, CL, Newline
<1>2. Space # Newline /\ Space # NUL
  BY Zenon DEF Space, Newline, NUL
<1>3. Blank = {Space, Newline}
  BY Zenon DEF Blank, Space, Newline
<1>4. /\ CS # Space /\ CS # NUL /\ CE # Space /\ CE # NUL /\ CT # Space /\ CT # NUL
      /\ CD # Space /\ CD # NUL /\ CL # Space /\ CL # NUL /\ Newline # NUL
  BY Zenon DEF CS, CE, CT, CD, CL, Space, Newline, NUL
<1> QED BY <1>1, <1>2, <1>3, <1>4, DigitIs

(* Where the parser stops when the first character is what it looks for, or the *)
(* second.                                                                      *)
LEMMA FromHere ==
  ASSUME NEW X, NEW b \in Seq(X), Len(b) <= LineMax, NEW p \in 1 .. Len(b), NEW S, NUL \in S
  PROVE  /\ b[p] \in S => From(b, p, S) = p
         /\ b[p] \notin S => From(b, p, S) >= p + 1
         /\ b[p] \notin S /\ p + 1 \in 1 .. Len(b) /\ b[p + 1] \in S => From(b, p, S) = p + 1
<1>1. PICK z : z = From(b, p, S)
  OBVIOUS
<1>2. /\ p \in Nat /\ LineMax \in Nat /\ Len(b) \in Nat
      /\ z \in p .. (p + LineMax + 1) /\ At(b, z) \in S
      /\ \A j \in p .. (z - 1) : At(b, j) \notin S
  <2>1. p \in Nat /\ LineMax \in Nat /\ Len(b) \in Nat
    BY SizeAssumption
  <2> QED BY <1>1, <2>1, FromIs
<1>3. At(b, p) = b[p] /\ (p + 1 \in 1 .. Len(b) => At(b, p + 1) = b[p + 1])
  <2>1. p + 1 \in Nat
    BY <1>2
  <2> QED BY <1>2, <2>1, AtIs
<1>4. ASSUME b[p] \in S PROVE z = p
  <2>1. p \notin p .. (z - 1)
    BY <1>2, <1>3, <1>4
  <2> QED BY <1>2, <2>1
<1>5. ASSUME b[p] \notin S PROVE z >= p + 1
  <2>1. z # p
    BY <1>2, <1>3, <1>5
  <2> QED BY <1>2, <2>1
<1>6. ASSUME b[p] \notin S, p + 1 \in 1 .. Len(b), b[p + 1] \in S PROVE z = p + 1
  <2>1. p + 1 \notin p .. (z - 1)
    BY <1>2, <1>3, <1>6
  <2>2. z >= p + 1
    BY <1>5, <1>6
  <2> QED BY <1>2, <2>1, <2>2
<1> QED BY <1>1, <1>4, <1>5, <1>6

LEMMA NonBlankHere ==
  ASSUME NEW X, NEW b \in Seq(X), Len(b) <= LineMax, NEW p \in 1 .. Len(b)
  PROVE  /\ b[p] \notin Blank => NonBlank(b, p) = p
         /\ b[p] \in Blank /\ p + 1 \in 1 .. Len(b) /\ b[p + 1] \notin Blank
              => NonBlank(b, p) = p + 1
<1>1. PICK z : z = NonBlank(b, p)
  OBVIOUS
<1>2. /\ p \in Nat /\ LineMax \in Nat /\ Len(b) \in Nat
      /\ z \in p .. (p + LineMax + 1) /\ At(b, z) \notin Blank
      /\ \A j \in p .. (z - 1) : At(b, j) \in Blank
  <2>1. p \in Nat /\ LineMax \in Nat /\ Len(b) \in Nat
    BY SizeAssumption
  <2> QED BY <1>1, <2>1, NonBlankIs
<1>3. At(b, p) = b[p] /\ (p + 1 \in 1 .. Len(b) => At(b, p + 1) = b[p + 1])
  <2>1. p + 1 \in Nat
    BY <1>2
  <2> QED BY <1>2, <2>1, AtIs
<1>4. ASSUME b[p] \notin Blank PROVE z = p
  <2>1. p \notin p .. (z - 1)
    BY <1>2, <1>3, <1>4
  <2> QED BY <1>2, <2>1
<1>5. ASSUME b[p] \in Blank, p + 1 \in 1 .. Len(b), b[p + 1] \notin Blank PROVE z = p + 1
  <2>1. p + 1 \notin p .. (z - 1)
    BY <1>2, <1>3, <1>5
  <2>2. z # p
    BY <1>2, <1>3, <1>5
  <2> QED BY <1>2, <2>1, <2>2
<1> QED BY <1>1, <1>4, <1>5

(* A field as the formats write it: a digit and a blank. *)
LEMMA FieldRead ==
  ASSUME NEW X, NEW b \in Seq(X), Len(b) <= LineMax, NEW p \in 1 .. Len(b),
         p + 1 \in 1 .. Len(b), NEW n \in 0 .. 9, b[p] = Digit(n), b[p + 1] = Space
  PROVE  /\ Field(b, p).ok /\ Field(b, p).len = n
         /\ Field(b, p).found /\ Field(b, p).at = p + 2
<1>1. NonBlank(b, p) = p /\ At(b, p) = b[p] /\ At(b, p + 1) = b[p + 1]
  <2>1. b[p] \notin Blank /\ p \in Nat /\ p + 1 \in Nat
    BY CharsDiffer
  <2> QED BY <2>1, NonBlankHere, AtIs
<1>2. From(b, p, {Space, NUL}) = p + 1
  <2>1. b[p] \notin {Space, NUL} /\ NUL \in {Space, NUL} /\ b[p + 1] \in {Space, NUL}
    BY DigitIs
  <2> QED BY <2>1, FromHere
<1>3. Field(b, p).len = n
  <2>1. Field(b, p).len = IF At(b, NonBlank(b, p)) \in ToSet(Digits)
                          THEN CHOOSE m \in 0 .. 9 : Digits[m + 1] = At(b, NonBlank(b, p))
                          ELSE 0
    BY Zenon DEF Field
  <2>2. Field(b, p).len = CHOOSE m \in 0 .. 9 : Digits[m + 1] = Digit(n)
    BY <1>1, <2>1, DigitIs
  <2>3. \A m \in 0 .. 9 : Digits[m + 1] = Digit(n) <=> m = n
    BY DigitIs DEF Digit
  <2> QED BY <2>2, <2>3
<1>4. Field(b, p).at = From(b, p, {Space, NUL}) + 1
  BY Zenon DEF Field, Space
<1>5. Field(b, p).found <=> At(b, From(b, p, {Space, NUL})) = Space
  BY Zenon DEF Field, Space
<1>6. Field(b, p).ok <=> At(b, NonBlank(b, p)) \in ToSet(Digits)
  BY Zenon DEF Field
<1>7. Field(b, p).ok
  BY <1>1, <1>6, DigitIs
<1> QED BY <1>1, <1>2, <1>3, <1>4, <1>5, <1>7

(* The word that a line begins with. *)
SetName == <<"S", "E", "T">>
DelName == <<"D", "E", "L">>

LEMMA NamesDiffer == SetName # DelName /\ SetName # <<>> /\ DelName # <<>>
<1>1. SetName[1] # DelName[1]
  BY DEF SetName, DelName
<1>2. SetName # <<>> /\ DelName # <<>>
  BY DEF SetName, DelName
<1> QED BY <1>1, <1>2

(* The first three characters, if a blank follows them. *)
LEMMA WordIs ==
  ASSUME NEW X, NEW b \in Seq(X), Len(b) = LineMax, 4 \in 1 .. Len(b),
         \A i \in 1 .. 3 : b[i] \notin Blank \cup {NUL}, b[4] = Space
  PROVE  Word(b) = <<b[1], b[2], b[3]>>
<1>1. 1 \in 1 .. Len(b) /\ Len(b) <= LineMax /\ LineMax \in Nat
  BY SizeAssumption
<1>2. NonBlank(b, 1) = 1
  <2>1. b[1] \notin Blank
    OBVIOUS
  <2> QED BY <1>1, <2>1, NonBlankHere
<1>3. PICK f, g : f = From(b, 1, Blank \cup {NUL}) /\ g = From(b, 1, {NUL})
  OBVIOUS
<1>4. \A i \in 1 .. 4 : At(b, i) = b[i]
  <2>1. \A i \in 1 .. 4 : i \in 1 .. Len(b) /\ i \in Nat
    BY <1>1
  <2> QED BY <2>1, AtIs
<1>5. f = 4
  <2>1. NUL \in Blank \cup {NUL}
    OBVIOUS
  <2>2. /\ f \in 1 .. (1 + LineMax + 1) /\ At(b, f) \in Blank \cup {NUL}
        /\ \A j \in 1 .. (f - 1) : At(b, j) \notin Blank \cup {NUL}
    BY <1>1, <1>3, <2>1, FromIs
  <2>3. At(b, 4) \in Blank \cup {NUL}
    BY <1>4, CharsDiffer
  <2>4. f \notin 1 .. 3
    BY <1>4, <2>2
  <2>5. 4 \notin 1 .. (f - 1)
    BY <2>2, <2>3
  <2> QED BY <1>1, <2>2, <2>4, <2>5
<1>6. g \in Nat /\ g >= 4
  <2>1. NUL \in {NUL}
    OBVIOUS
  <2>2. g \in 1 .. (1 + LineMax + 1) /\ At(b, g) \in {NUL}
    BY <1>1, <1>3, <2>1, FromIs
  <2>3. g \notin 1 .. 3
    BY <1>4, <2>2
  <2> QED BY <1>1, <2>2, <2>3
<1>7. Least(Least(15, f - 1), g - 1) = 3
  BY <1>5, <1>6 DEF Least
<1>8. Word(b) = CString(b, 1, Least(15, f - 1))
  BY <1>2, <1>3, Zenon DEF Word
<1>9. Word(b) = [i \in 1 .. 3 |-> b[1 + i - 1]]
  BY <1>3, <1>7, <1>8 DEF CString
<1>10. [i \in 1 .. 3 |-> b[1 + i - 1]] = <<b[1], b[2], b[3]>>
  OBVIOUS
<1> QED BY <1>9, <1>10

(* A C string that is there in full. *)
LEMMA CStringAll ==
  ASSUME NEW X, NEW b \in Seq(X), Len(b) <= LineMax, NEW p \in Nat \ {0},
         NEW T, NEW s \in Seq(T), p + Len(s) - 1 <= Len(b),
         \A i \in 1 .. Len(s) : b[p + i - 1] = s[i] /\ s[i] # NUL
  PROVE  CString(b, p, Len(s)) = s
<1>1. PICK g : g = From(b, p, {NUL})
  OBVIOUS
<1>2. g \in p .. (p + LineMax + 1) /\ At(b, g) = NUL /\ LineMax \in Nat /\ Len(s) \in Nat
      /\ Len(b) \in Nat
  BY <1>1, FromIs, SizeAssumption
<1>3. g - p >= Len(s)
  <2> SUFFICES ASSUME g - p < Len(s) PROVE FALSE
    BY <1>2
  <2>1. PICK i : i = g - p + 1
    OBVIOUS
  <2>2. i \in 1 .. Len(s) /\ p + i - 1 = g /\ g \in 1 .. Len(b) /\ g \in Nat
    BY <1>2, <2>1
  <2>3. At(b, g) = b[g]
    BY <2>2, AtIs
  <2> QED BY <1>2, <2>2, <2>3
<1>4. Least(Len(s), g - p) = Len(s)
  <2>1. g - p \in Nat /\ Len(s) \in Nat
    BY <1>2
  <2>2. \A m, n \in Nat : n >= m => Least(m, n) = m
    BY DEF Least
  <2> QED BY <1>3, <2>1, <2>2
<1>5. CString(b, p, Len(s)) = [i \in 1 .. Len(s) |-> b[p + i - 1]]
  BY <1>1, <1>4 DEF CString
<1>6. [i \in 1 .. Len(s) |-> b[p + i - 1]] = [i \in 1 .. Len(s) |-> s[i]]
  OBVIOUS
<1>7. [i \in 1 .. Len(s) |-> s[i]] = s
  OBVIOUS
<1> QED BY <1>5, <1>6, <1>7

\* the line b leads to an outcome, and no copy leaves the buffer
LeadsTo(b, outcome) == Outcome(b) = outcome /\ ~Overruns(b)

(* Where a line leads that has all its parts, within the buffer, or none. *)
LEMMA OutcomeIs ==
  ASSUME NEW b
  PROVE  /\ Word(b) \notin {SetName, DelName} => LeadsTo(b, "skip")
         /\ (Word(b) = DelName /\ KeyField(b).ok /\ KeyField(b).found
              /\ ~Beyond(KeyField(b))) => LeadsTo(b, "del")
         /\ (Word(b) = SetName /\ KeyField(b).ok /\ KeyField(b).found /\ ~Beyond(KeyField(b))
              /\ ValField(b).ok /\ ValField(b).found /\ ~Beyond(ValField(b)))
              => LeadsTo(b, "set")
<1>1. PICK k, v, w : k = KeyField(b) /\ v = ValField(b) /\ w = Word(b)
  OBVIOUS
<1>2. ASSUME w \notin {SetName, DelName} PROVE Outcome(b) = "skip"
  BY <1>1, <1>2, NamesDiffer, Zenon DEF Outcome, SetName, DelName
<1>3. ASSUME w = DelName, k.ok, k.found PROVE Outcome(b) = "del"
  BY <1>1, <1>3, NamesDiffer, Zenon DEF Outcome, SetName, DelName
<1>4. ASSUME w = SetName, k.ok, k.found, v.ok, v.found PROVE Outcome(b) = "set"
  BY <1>1, <1>4, NamesDiffer, Zenon DEF Outcome, SetName, DelName
<1>5. /\ Overruns(b) => \/ w \in {SetName, DelName} /\ k.ok /\ k.found /\ Beyond(k)
                        \/ Outcome(b) = "set" /\ Beyond(v)
      /\ "skip" # "set" /\ "del" # "set"
  BY <1>1, Zenon DEF Overruns, SetName, DelName
<1>6. ASSUME w \notin {SetName, DelName} PROVE LeadsTo(b, "skip")
  BY <1>2, <1>5, <1>6, Zenon DEF LeadsTo
<1>7. ASSUME w = DelName, k.ok, k.found, ~Beyond(k) PROVE LeadsTo(b, "del")
  <2>1. Outcome(b) = "del"
    BY <1>3, <1>7
  <2> QED BY <1>5, <1>7, <2>1, Zenon DEF LeadsTo
<1>8. ASSUME w = SetName, k.ok, k.found, ~Beyond(k), v.ok, v.found, ~Beyond(v)
      PROVE  LeadsTo(b, "set")
  BY <1>4, <1>5, <1>8, Zenon DEF LeadsTo
<1> QED BY <1>1, <1>6, <1>7, <1>8, Zenon

\* the buffer b holds the record R, or all of it but its last character
Holds(b, R) == Len(b) = LineMax /\ Len(R) < LineMax /\ \A i \in 1 .. (Len(R) - 1) : b[i] = R[i]

(* A SET is read back, key and value. *)
LEMMA ReadsSet ==
  ASSUME NEW X, NEW b \in Seq(X), NEW R, NEW key, NEW val, NEW K, NEW V,
         SetText(R, key, val, K, V), Holds(b, R)
  PROVE  /\ LeadsTo(b, "set")
         /\ (\A i \in 1 .. K : key[i] # NUL) => Key(b) = key
         /\ (\A i \in 1 .. V : val[i] # NUL) => Val(b) = val
<1>1. /\ K \in 1 .. 9 /\ V \in 0 .. 9 /\ Len(R) = K + V + 10
      /\ key \in Seq(Alphabet) /\ K = Len(key) /\ val \in Seq(Alphabet) /\ V = Len(val)
      /\ R[1] = CS /\ R[2] = CE /\ R[3] = CT /\ R[4] = Space
      /\ R[5] = Digit(K) /\ R[6] = Space /\ R[8 + K] = Digit(V) /\ R[9 + K] = Space
      /\ \A i \in 1 .. K : R[6 + i] = key[i]
      /\ \A i \in 1 .. V : R[9 + K + i] = val[i]
  BY Zenon DEF SetText
<1>2. /\ Len(b) = LineMax /\ K + V + 10 < LineMax
      /\ \A i \in 1 .. (K + V + 9) : b[i] = R[i]
  <2>1. Len(b) = LineMax /\ Len(R) < LineMax /\ \A i \in 1 .. (Len(R) - 1) : b[i] = R[i]
    BY Zenon DEF Holds
  <2>2. Len(R) = K + V + 10 /\ Len(R) - 1 = K + V + 9
    <3>1. K \in 1 .. 9 /\ V \in 0 .. 9 /\ Len(R) = K + V + 10
      BY <1>1, Zenon
    <3> QED BY <3>1
  <2> QED BY <2>1, <2>2, Zenon
<1>3. /\ 4 \in 1 .. Len(b) /\ 5 \in 1 .. Len(b) /\ 5 + 1 \in 1 .. Len(b) /\ Len(b) <= LineMax
      /\ 8 + K \in 1 .. Len(b) /\ 8 + K + 1 \in 1 .. Len(b) /\ 8 + K + 1 = 9 + K
      /\ K \in 0 .. 9
  <2>1. K \in 1 .. 9 /\ V \in 0 .. 9 /\ Len(b) = LineMax /\ K + V + 10 < LineMax
    BY <1>1, <1>2, Zenon
  <2> QED BY <2>1, SizeAssumption
<1>4. /\ b[1] = CS /\ b[2] = CE /\ b[3] = CT /\ b[4] = Space
      /\ b[5] = Digit(K) /\ b[5 + 1] = Space /\ b[8 + K] = Digit(V) /\ b[8 + K + 1] = Space
  <2>1. /\ 1 \in 1 .. (K + V + 9) /\ 2 \in 1 .. (K + V + 9) /\ 3 \in 1 .. (K + V + 9)
        /\ 4 \in 1 .. (K + V + 9) /\ 5 \in 1 .. (K + V + 9) /\ 6 \in 1 .. (K + V + 9)
        /\ 8 + K \in 1 .. (K + V + 9) /\ 9 + K \in 1 .. (K + V + 9)
    <3>1. K \in 1 .. 9 /\ V \in 0 .. 9
      BY <1>1, Zenon
    <3> QED BY <3>1
  <2>2. 5 + 1 = 6
    OBVIOUS
  <2> QED BY <1>1, <1>2, <1>3, <2>1, <2>2, Zenon
<1>5. Word(b) = SetName
  <2>1. \A i \in 1 .. 3 : b[i] \notin Blank \cup {NUL}
    <3>1. CS \notin Blank \cup {NUL} /\ CE \notin Blank \cup {NUL} /\ CT \notin Blank \cup {NUL}
      BY CharsDiffer
    <3>2. \A i \in 1 .. 3 : i = 1 \/ i = 2 \/ i = 3
      OBVIOUS
    <3> QED BY <1>4, <3>1, <3>2, Zenon
  <2>2. Word(b) = <<b[1], b[2], b[3]>>
    BY <1>2, <1>3, <1>4, <2>1, WordIs, Zenon
  <2> QED BY <1>4, <2>2, Zenon DEF SetName, CS, CE, CT
<1>6. /\ Field(b, 5).ok /\ Field(b, 5).len = K /\ Field(b, 5).found /\ Field(b, 5).at = 5 + 2
  BY <1>3, <1>4, FieldRead
<1>7. /\ KeyField(b).ok /\ KeyField(b).len = K /\ KeyField(b).found /\ KeyField(b).at = 7
  BY <1>6 DEF KeyField
<1>8. /\ Field(b, 8 + K).ok /\ Field(b, 8 + K).len = V /\ Field(b, 8 + K).found
      /\ Field(b, 8 + K).at = 8 + K + 2
  <2>1. V \in 0 .. 9
    BY <1>1, Zenon
  <2> QED BY <1>3, <1>4, <2>1, FieldRead
<1>9. /\ ValField(b).ok /\ ValField(b).len = V /\ ValField(b).found /\ ValField(b).at = 10 + K
  <2>1. KeyField(b).at + KeyField(b).len + 1 = 8 + K /\ 8 + K + 2 = 10 + K
    BY <1>3, <1>7
  <2> QED BY <1>8, <2>1 DEF ValField
<1>10. ASSUME \A i \in 1 .. K : key[i] # NUL PROVE Key(b) = key
  <2>1. Key(b) = CString(b, 7, K)
    BY <1>7 DEF Key
  <2>2. \A i \in 1 .. K : b[7 + i - 1] = key[i] /\ key[i] # NUL
    <3>1. \A i \in 1 .. K : 7 + i - 1 = 6 + i /\ 6 + i \in 1 .. (K + V + 9)
      <4>1. K \in 1 .. 9 /\ V \in 0 .. 9
        BY <1>1, Zenon
      <4> QED BY <4>1
    <3> QED BY <1>1, <1>2, <1>10, <3>1, Zenon
  <2>3. 7 \in Nat \ {0} /\ 7 + K - 1 <= Len(b)
    <3>1. K \in 1 .. 9 /\ V \in 0 .. 9 /\ K + V + 10 < LineMax /\ Len(b) = LineMax
      BY <1>1, <1>2, Zenon
    <3> QED BY <3>1, SizeAssumption
  <2>4. key \in Seq(Alphabet) /\ K = Len(key)
    BY <1>1, Zenon
  <2> QED BY <1>3, <2>1, <2>2, <2>3, <2>4, CStringAll
<1>11. ASSUME \A i \in 1 .. V : val[i] # NUL PROVE Val(b) = val
  <2>1. Val(b) = CString(b, 10 + K, V)
    BY <1>9 DEF Val
  <2>2. \A i \in 1 .. V : b[10 + K + i - 1] = val[i] /\ val[i] # NUL
    <3>1. \A i \in 1 .. V : 10 + K + i - 1 = 9 + K + i /\ 9 + K + i \in 1 .. (K + V + 9)
      <4>1. K \in 1 .. 9 /\ V \in 0 .. 9
        BY <1>1, Zenon
      <4> QED BY <4>1
    <3>2. /\ \A i \in 1 .. V : R[9 + K + i] = val[i]
          /\ \A i \in 1 .. (K + V + 9) : b[i] = R[i]
      BY <1>1, <1>2, Zenon
    <3> QED BY <1>11, <3>1, <3>2
  <2>3. 10 + K \in Nat \ {0} /\ 10 + K + V - 1 <= Len(b)
    <3>1. K \in 1 .. 9 /\ V \in 0 .. 9 /\ K + V + 10 < LineMax /\ Len(b) = LineMax
      BY <1>1, <1>2, Zenon
    <3> QED BY <3>1, SizeAssumption
  <2>4. val \in Seq(Alphabet) /\ V = Len(val)
    BY <1>1, Zenon
  <2> QED BY <1>3, <2>1, <2>2, <2>3, <2>4, CStringAll
<1>12. ~Beyond(KeyField(b)) /\ ~Beyond(ValField(b))
  <2>1. K \in 1 .. 9 /\ V \in 0 .. 9 /\ K + V + 10 < LineMax
    BY <1>1, <1>2, Zenon
  <2>2. ~(7 + K > LineMax + 1) /\ ~(10 + K + V > LineMax + 1)
    BY <2>1, SizeAssumption
  <2> QED BY <1>7, <1>9, <2>2 DEF Beyond
<1>13. LeadsTo(b, "set")
  BY <1>5, <1>7, <1>9, <1>12, OutcomeIs
<1> QED BY <1>10, <1>11, <1>13

(* A DEL is read back. *)
LEMMA ReadsDel ==
  ASSUME NEW X, NEW b \in Seq(X), NEW R, NEW key, NEW K, DelText(R, key, K), Holds(b, R)
  PROVE  /\ LeadsTo(b, "del")
         /\ (\A i \in 1 .. K : key[i] # NUL) => Key(b) = key
<1>1. /\ K \in 1 .. 9 /\ Len(R) = K + 7 /\ key \in Seq(Alphabet) /\ K = Len(key)
      /\ R[1] = CD /\ R[2] = CE /\ R[3] = CL /\ R[4] = Space
      /\ R[5] = Digit(K) /\ R[6] = Space
      /\ \A i \in 1 .. K : R[6 + i] = key[i]
  BY Zenon DEF DelText
<1>2. /\ Len(b) = LineMax /\ K + 7 < LineMax /\ \A i \in 1 .. (K + 6) : b[i] = R[i]
  <2>1. Len(b) = LineMax /\ Len(R) < LineMax /\ \A i \in 1 .. (Len(R) - 1) : b[i] = R[i]
    BY Zenon DEF Holds
  <2>2. Len(R) = K + 7 /\ Len(R) - 1 = K + 6
    <3>1. K \in 1 .. 9 /\ Len(R) = K + 7
      BY <1>1, Zenon
    <3> QED BY <3>1
  <2> QED BY <2>1, <2>2, Zenon
<1>3. /\ 4 \in 1 .. Len(b) /\ 5 \in 1 .. Len(b) /\ 5 + 1 \in 1 .. Len(b) /\ Len(b) <= LineMax
      /\ K \in 0 .. 9
  <2>1. K \in 1 .. 9 /\ Len(b) = LineMax /\ K + 7 < LineMax
    BY <1>1, <1>2, Zenon
  <2> QED BY <2>1, SizeAssumption
<1>4. /\ b[1] = CD /\ b[2] = CE /\ b[3] = CL /\ b[4] = Space
      /\ b[5] = Digit(K) /\ b[5 + 1] = Space
  <2>1. /\ 1 \in 1 .. (K + 6) /\ 2 \in 1 .. (K + 6) /\ 3 \in 1 .. (K + 6)
        /\ 4 \in 1 .. (K + 6) /\ 5 \in 1 .. (K + 6) /\ 6 \in 1 .. (K + 6)
    BY <1>3
  <2>2. 5 + 1 = 6
    OBVIOUS
  <2> QED BY <1>1, <1>2, <2>1, <2>2, Zenon
<1>5. Word(b) = DelName
  <2>1. \A i \in 1 .. 3 : b[i] \notin Blank \cup {NUL}
    <3>1. CD \notin Blank \cup {NUL} /\ CE \notin Blank \cup {NUL} /\ CL \notin Blank \cup {NUL}
      BY CharsDiffer
    <3>2. \A i \in 1 .. 3 : i = 1 \/ i = 2 \/ i = 3
      OBVIOUS
    <3> QED BY <1>4, <3>1, <3>2, Zenon
  <2>2. Word(b) = <<b[1], b[2], b[3]>>
    BY <1>2, <1>3, <1>4, <2>1, WordIs, Zenon
  <2> QED BY <1>4, <2>2, Zenon DEF DelName, CD, CE, CL
<1>6. /\ Field(b, 5).ok /\ Field(b, 5).len = K /\ Field(b, 5).found /\ Field(b, 5).at = 5 + 2
  BY <1>3, <1>4, FieldRead
<1>7. /\ KeyField(b).ok /\ KeyField(b).len = K /\ KeyField(b).found /\ KeyField(b).at = 7
  BY <1>6 DEF KeyField
<1>8. ASSUME \A i \in 1 .. K : key[i] # NUL PROVE Key(b) = key
  <2>1. Key(b) = CString(b, 7, K)
    BY <1>7 DEF Key
  <2>2. \A i \in 1 .. K : b[7 + i - 1] = key[i] /\ key[i] # NUL
    <3>1. \A i \in 1 .. K : 7 + i - 1 = 6 + i /\ 6 + i \in 1 .. (K + 6)
      BY <1>3
    <3> QED BY <1>1, <1>2, <1>8, <3>1, Zenon
  <2>3. 7 \in Nat \ {0} /\ 7 + K - 1 <= Len(b)
    <3>1. K \in 1 .. 9 /\ K + 7 < LineMax /\ Len(b) = LineMax
      BY <1>1, <1>2, Zenon
    <3> QED BY <3>1, SizeAssumption
  <2>4. key \in Seq(Alphabet) /\ K = Len(key)
    BY <1>1, Zenon
  <2> QED BY <1>3, <2>1, <2>2, <2>3, <2>4, CStringAll
<1>9. ~Beyond(KeyField(b))
  <2>1. K \in 1 .. 9 /\ K + 7 < LineMax
    BY <1>1, <1>2, Zenon
  <2>2. ~(7 + K > LineMax + 1)
    BY <2>1, SizeAssumption
  <2> QED BY <1>7, <2>2 DEF Beyond
<1>10. LeadsTo(b, "del")
  BY <1>5, <1>7, <1>9, OutcomeIs
<1> QED BY <1>8, <1>10

(* A line with nothing on it is skipped. *)
LEMMA ReadsNothing ==
  ASSUME NEW X, NEW b \in Seq(X), Len(b) = LineMax, b[1] = Newline, b[2] = NUL
  PROVE  LeadsTo(b, "skip")
<1>1. 1 \in 1 .. Len(b) /\ 1 + 1 \in 1 .. Len(b) /\ Len(b) <= LineMax /\ 1 + 1 = 2
  BY SizeAssumption
<1>2. NonBlank(b, 1) = 2
  BY <1>1, CharsDiffer, NonBlankHere
<1>3. From(b, 2, Blank \cup {NUL}) = 2
  <2>1. NUL \in Blank \cup {NUL}
    OBVIOUS
  <2> QED BY <1>1, <2>1, FromHere
<1>4. From(b, 2, {NUL}) = 2
  BY <1>1, FromHere
<1>5. Word(b) = CString(b, 2, Least(15, 2 - 2))
  BY <1>2, <1>3, Zenon DEF Word
<1>6. Least(Least(15, 2 - 2), 2 - 2) = 0
  BY DEF Least
<1>7. Word(b) = [i \in 1 .. 0 |-> b[2 + i - 1]]
  BY <1>4, <1>5, <1>6 DEF CString
<1>8. Word(b) = <<>>
  BY <1>7
<1>9. Word(b) \notin {SetName, DelName}
  BY <1>8, NamesDiffer
<1> QED BY <1>9, OutcomeIs

\* a record has one newline, at its end, and perhaps one in front of that, which
\* is the end of its value
EndsOnce(R) ==
  /\ Len(R) \in Nat /\ Len(R) > 3 /\ R[Len(R)] = Newline
  /\ \A t \in 1 .. (Len(R) - 2) : R[t] # Newline

(* So does a SET, if its key and value have no newline but the last. *)
LEMMA SetEndsOnce ==
  ASSUME NEW R, NEW key, NEW val, NEW K, NEW V, SetText(R, key, val, K, V),
         \A i \in 1 .. K : key[i] # Newline, \A i \in 1 .. (V - 1) : val[i] # Newline
  PROVE  EndsOnce(R)
<1>1. /\ K \in 1 .. 9 /\ V \in 0 .. 9 /\ Len(R) = K + V + 10
      /\ R[1] = CS /\ R[2] = CE /\ R[3] = CT /\ R[4] = Space
      /\ R[5] = Digit(K) /\ R[6] = Space
      /\ \A i \in 1 .. K : R[6 + i] = key[i]
      /\ R[7 + K] = Space /\ R[8 + K] = Digit(V) /\ R[9 + K] = Space
      /\ \A i \in 1 .. V : R[9 + K + i] = val[i]
      /\ R[10 + K + V] = Newline
  BY Zenon DEF SetText
<1>2. \A n \in 0 .. 9 : Digit(n) # Newline
  BY DigitIs
<1>3. ASSUME NEW t \in 1 .. (K + V + 8) PROVE R[t] # Newline
  <2>1. \/ t \in 1 .. 6 \/ t \in 7 .. (6 + K) \/ t = 7 + K \/ t = 8 + K \/ t = 9 + K
        \/ t \in (10 + K) .. (8 + K + V)
    BY <1>1
  <2>2. CASE t \in 1 .. 6
    <3>1. t = 1 \/ t = 2 \/ t = 3 \/ t = 4 \/ t = 5 \/ t = 6
      BY <2>2
    <3>2. K \in 0 .. 9
      BY <1>1
    <3> QED BY <1>1, <1>2, <3>1, <3>2, CharsDiffer
  <2>3. CASE t \in 7 .. (6 + K)
    <3>1. PICK i : i = t - 6
      OBVIOUS
    <3>2. i \in 1 .. K /\ 6 + i = t
      BY <1>1, <2>3, <3>1
    <3>3. R[6 + i] = key[i] /\ key[i] # Newline
      BY <1>1, <3>2
    <3> QED BY <3>2, <3>3
  <2>4. CASE t = 7 + K \/ t = 8 + K \/ t = 9 + K
    BY <1>1, <1>2, <2>4, CharsDiffer
  <2>5. CASE t \in (10 + K) .. (8 + K + V)
    <3>1. PICK i : i = t - 9 - K
      OBVIOUS
    <3>2. i \in 1 .. V /\ i \in 1 .. (V - 1) /\ 9 + K + i = t
      BY <1>1, <2>5, <3>1
    <3>3. R[9 + K + i] = val[i] /\ val[i] # Newline
      BY <1>1, <3>2
    <3> QED BY <3>2, <3>3
  <2> QED BY <2>1, <2>2, <2>3, <2>4, <2>5
<1>4. /\ Len(R) \in Nat /\ Len(R) > 3 /\ Len(R) - 2 = K + V + 8 /\ Len(R) = 10 + K + V
  <2>1. K \in 1 .. 9 /\ V \in 0 .. 9 /\ Len(R) = K + V + 10
    BY <1>1, Zenon
  <2>2. \A m \in Nat, k \in 1 .. 9, v \in 0 .. 9 :
          m = k + v + 10 => m > 3 /\ m - 2 = k + v + 8 /\ m = 10 + k + v
    OBVIOUS
  <2> QED BY <2>1, <2>2
<1> QED BY <1>1, <1>3, <1>4 DEF EndsOnce

(* And a DEL, if its key has none. *)
LEMMA DelEndsOnce ==
  ASSUME NEW R, NEW key, NEW K, DelText(R, key, K), \A i \in 1 .. K : key[i] # Newline
  PROVE  EndsOnce(R)
<1>1. /\ K \in 1 .. 9 /\ Len(R) = K + 7
      /\ R[1] = CD /\ R[2] = CE /\ R[3] = CL /\ R[4] = Space
      /\ R[5] = Digit(K) /\ R[6] = Space
      /\ \A i \in 1 .. K : R[6 + i] = key[i]
      /\ R[7 + K] = Newline
  BY Zenon DEF DelText
<1>2. \A n \in 0 .. 9 : Digit(n) # Newline
  BY DigitIs
<1>3. ASSUME NEW t \in 1 .. (K + 5) PROVE R[t] # Newline
  <2>1. t \in 1 .. 6 \/ t \in 7 .. (6 + K)
    BY <1>1
  <2>2. CASE t \in 1 .. 6
    <3>1. t = 1 \/ t = 2 \/ t = 3 \/ t = 4 \/ t = 5 \/ t = 6
      BY <2>2
    <3>2. K \in 0 .. 9
      BY <1>1
    <3> QED BY <1>1, <1>2, <3>1, <3>2, CharsDiffer
  <2>3. CASE t \in 7 .. (6 + K)
    <3>1. PICK i : i = t - 6
      OBVIOUS
    <3>2. i \in 1 .. K /\ 6 + i = t
      BY <1>1, <2>3, <3>1
    <3>3. R[6 + i] = key[i] /\ key[i] # Newline
      BY <1>1, <3>2
    <3> QED BY <3>2, <3>3
  <2> QED BY <2>1, <2>2, <2>3
<1>4. /\ Len(R) \in Nat /\ Len(R) > 3 /\ Len(R) - 2 = K + 5 /\ Len(R) = 7 + K
  BY <1>1
<1> QED BY <1>1, <1>3, <1>4 DEF EndsOnce

\* the commands hold C strings
CStrings == \A c \in Cmds : NUL \notin ToSet(c.key) \cup ToSet(c.val)

\* the line b does what the command c does
Does(b, c) ==
  /\ \/ c.fn = "SET" /\ LeadsTo(b, "set")
     \/ c.fn = "DEL" /\ LeadsTo(b, "del")
  /\ CStrings => Key(b) = c.key /\ (c.fn = "SET" => Val(b) = c.val)

(* A record that OneLine describes ends once, and the parser does what it says. *)
LEMMA LineReads ==
  ASSUME NEW r, r.cmd \in Cmds, OneLine(r)
  PROVE  /\ EndsOnce(Record(r.cmd))
         /\ \A b \in Seq(Characters) : Holds(b, Record(r.cmd)) => Does(b, r.cmd)
<1>1. PICK c \in Cmds : c = r.cmd
  OBVIOUS
<1>2. PICK R, key, val, K, V : R = Record(c) /\ key = c.key /\ val = c.val
                               /\ K = Len(c.key) /\ V = Len(c.val)
  OBVIOUS
<1>3. /\ Newline \notin ToSet(key) /\ \A i \in 1 .. (V - 1) : val[i] # Newline
  BY <1>1, <1>2, Zenon DEF OneLine, Fits, Newline
<1>4. key \in Seq(Alphabet) /\ K = Len(key) /\ val \in Seq(Alphabet) /\ V = Len(val)
  BY <1>2, CmdStrings
<1>5. /\ \A i \in 1 .. K : key[i] # Newline
      /\ CStrings => \A i \in 1 .. K : key[i] # NUL
      /\ CStrings => \A i \in 1 .. V : val[i] # NUL
  <2>1. /\ \A i \in 1 .. K : key[i] \in ToSet(key)
        /\ \A i \in 1 .. V : val[i] \in ToSet(val)
    BY <1>4, Elements
  <2>2. CStrings => NUL \notin ToSet(key) /\ NUL \notin ToSet(val)
    BY <1>2 DEF CStrings
  <2> QED BY <1>3, <2>1, <2>2
<1>6. CASE c.fn = "SET"
  <2>1. SetText(R, key, val, K, V)
    BY <1>2, <1>6, SetShape, Zenon
  <2>2. EndsOnce(R)
    BY <1>3, <1>5, <2>1, SetEndsOnce
  <2>3. ASSUME NEW b \in Seq(Characters), Holds(b, R) PROVE Does(b, c)
    <3>1. /\ LeadsTo(b, "set")
          /\ (\A i \in 1 .. K : key[i] # NUL) => Key(b) = key
          /\ (\A i \in 1 .. V : val[i] # NUL) => Val(b) = val
      BY <2>1, <2>3, ReadsSet, Zenon
    <3>2. CStrings => Key(b) = c.key /\ Val(b) = c.val
      BY <1>2, <1>5, <3>1, Zenon
    <3> QED BY <1>6, <3>1, <3>2, Zenon DEF Does
  <2> QED BY <1>1, <1>2, <2>2, <2>3
<1>7. CASE c.fn = "DEL"
  <2>1. DelText(R, key, K)
    BY <1>2, <1>7, DelShape, Zenon
  <2>2. EndsOnce(R)
    BY <1>5, <2>1, DelEndsOnce
  <2>3. ASSUME NEW b \in Seq(Characters), Holds(b, R) PROVE Does(b, c)
    <3>1. /\ LeadsTo(b, "del")
          /\ (\A i \in 1 .. K : key[i] # NUL) => Key(b) = key
      BY <2>1, <2>3, ReadsDel, Zenon
    <3>2. c.fn # "SET"
      BY <1>7
    <3>3. CStrings => Key(b) = c.key
      BY <1>2, <1>5, <3>1, Zenon
    <3> QED BY <1>7, <3>1, <3>2, <3>3, Zenon DEF Does
  <2> QED BY <1>1, <1>2, <2>2, <2>3
<1>8. c.fn = "SET" \/ c.fn = "DEL"
  BY CmdStrings
<1> QED BY <1>6, <1>7, <1>8
-----------------------------------------------------------------------------
(* The replay of an undamaged log, record by record. *)

\* the first n records lie before the place q, but for the last character of a
\* record whose value ends in a newline, which was read with the value
Behind(q, n) ==
  IF n = 0 THEN q = 0 ELSE recs[n].from + recs[n].len \in {q + 1, q + 2}

\* the first n records are behind the place q, and nothing else
EndOf(q, n) == IF n = 0 THEN q = 0 ELSE recs[n].from + recs[n].len = q + 1

(* The log is the file while it is replayed. *)
LEMMA FileTiled ==
  ASSUME LogInv, pending = <<>>
  PROVE  /\ Tiled(recs, file) /\ Len(file) \in Nat /\ Len(recs) \in Nat
         /\ \A i \in 1 .. Len(recs) :
              /\ recs[i].cmd \in Cmds /\ recs[i].from \in Nat \ {0} /\ recs[i].len \in Nat \ {0}
              /\ recs[i].from + recs[i].len <= Len(file) + 1
<1>1. Log = file /\ Len(file) \in Nat
  BY LogIs
<1>2. Tiled(recs, file)
  BY <1>1 DEF LogInv
<1> QED BY <1>1, <1>2, TiledFields

(* The next record starts where those before it end, unless they are all. *)
LEMMA NextRecord ==
  ASSUME LogInv, pending = <<>>, NEW n \in 0 .. Len(recs), NEW q \in Nat, EndOf(q, n)
  PROVE  /\ q < Len(file) => n + 1 \in 1 .. Len(recs) /\ recs[n + 1].from = q + 1
         /\ q = Len(file) => n = Len(recs)
<1>1. /\ Tiled(recs, file) /\ Len(file) \in Nat /\ Len(recs) \in Nat
      /\ \A i \in 1 .. Len(recs) :
           /\ recs[i].from \in Nat \ {0} /\ recs[i].len \in Nat \ {0}
           /\ recs[i].from + recs[i].len <= Len(file) + 1
  BY FileTiled, Zenon
<1>2. ASSUME n < Len(recs)
      PROVE  n + 1 \in 1 .. Len(recs) /\ recs[n + 1].from = q + 1 /\ q < Len(file)
  <2>1. n + 1 \in 1 .. Len(recs)
    BY <1>1, <1>2
  <2>2. recs[n + 1].from = q + 1
    <3>1. CASE n = 0
      <4>1. recs # <<>>
        BY <1>2, <3>1
      <4>2. recs[1].from = 1
        BY <1>1, <4>1, Zenon DEF Tiled
      <4> QED BY <3>1, <4>2 DEF EndOf
    <3>2. CASE n # 0
      <4>1. n \in 1 .. Len(recs)
        BY <3>2
      <4>2. recs[n + 1].from = recs[n].from + recs[n].len
        BY <1>1, <1>2, <4>1, Zenon DEF Tiled
      <4> QED BY <3>2, <4>2 DEF EndOf
    <3> QED BY <3>1, <3>2
  <2>3. q + 1 + recs[n + 1].len <= Len(file) + 1 /\ recs[n + 1].len \in Nat \ {0}
    BY <1>1, <2>1, <2>2
  <2> QED BY <1>1, <2>1, <2>2, <2>3
<1>3. ASSUME n = Len(recs) PROVE q = Len(file)
  <2>1. CASE n = 0
    <3>1. recs = <<>>
      BY <1>3, <2>1, DomainRecs
    <3>2. Len(file) = 0
      BY <1>1, <3>1, Zenon DEF Tiled
    <3> QED BY <2>1, <3>2 DEF EndOf
  <2>2. CASE n # 0
    <3>1. recs # <<>>
      BY <1>3, <2>2
    <3>2. recs[Len(recs)].from + recs[Len(recs)].len = Len(file) + 1
      BY <1>1, <3>1, Zenon DEF Tiled
    <3>3. q + 1 = Len(file) + 1
      BY <1>3, <2>2, <3>2 DEF EndOf
    <3> QED BY <1>1, <3>3
  <2> QED BY <2>1, <2>2
<1> QED BY <1>1, <1>2, <1>3

(* A call of fgets that finds a whole record takes it, or leaves its last newline. *)
LEMMA ReadsRecord ==
  ASSUME LogInv, TypeOK, Len(line) = LineMax, pending = <<>>, pos < Len(file),
         NEW i \in 1 .. Len(recs), recs[i].from = pos + 1, OneLine(recs[i])
  PROVE  /\ Behind(pos + Taken, i) /\ Does(Fetched, recs[i].cmd)
         /\ Holds(Fetched, Record(recs[i].cmd))
<1>1. PICK c, R, L, f : c = recs[i].cmd /\ R = Record(c) /\ L = recs[i].len /\ f = recs[i].from
  OBVIOUS
<1>2. /\ Tiled(recs, file) /\ Len(file) \in Nat /\ pos \in Nat /\ c \in Cmds
      /\ file \in Seq(Characters) /\ line \in Seq(Characters) /\ NUL \in Characters
      /\ LineMax \in Nat
  <2>1. Tiled(recs, file) /\ Len(file) \in Nat /\ c \in Cmds
    BY <1>1, FileTiled
  <2>2. pos \in Nat /\ file \in Seq(Characters) /\ line \in Seq(Characters)
    BY <2>1 DEF TypeOK
  <2>3. NUL \in Characters
    BY Zenon DEF Characters
  <2> QED BY <2>1, <2>2, <2>3, SizeAssumption
<1>3. /\ EndsOnce(R) /\ L = Len(R) /\ L < LineMax
      /\ \A b \in Seq(Characters) : Holds(b, R) => Does(b, c)
  <2>1. L = Len(R) /\ L < LineMax
    BY <1>1 DEF OneLine, Whole, Fits
  <2> QED BY <1>1, <1>2, <2>1, LineReads
<1>4. /\ L \in Nat /\ L > 3 /\ pos + L <= Len(file)
      /\ \A t \in 1 .. L : file[pos + t] = R[t]
  <2>1. L \in Nat /\ L > 3
    BY <1>3 DEF EndsOnce
  <2>2. recs[i].from + recs[i].len <= Len(file) + 1
    BY FileTiled, Zenon
  <2>3. \A t \in 1 .. L : file[f + t - 1] = R[t]
    BY <1>1, <1>2, Zenon DEF Tiled
  <2>4. f = pos + 1 /\ f + L <= Len(file) + 1
    BY <1>1, <2>2
  <2>5. pos + L <= Len(file)
    BY <1>2, <2>1, <2>4
  <2>6. \A t \in 1 .. L : f + t - 1 = pos + t
    BY <1>2, <2>1, <2>4
  <2> QED BY <2>1, <2>3, <2>5, <2>6
<1>5. PICK n : n = Taken
  OBVIOUS
<1>6. /\ n \in 1 .. (LineMax - 1)
      /\ n = LineMax - 1 \/ pos + n = Len(file) \/ file[pos + n] = Newline
      /\ \A m \in 1 .. (n - 1) : pos + m < Len(file) /\ file[pos + m] # Newline
  BY <1>2, <1>5, TakenIs
<1>7. n = L \/ n = L - 1
  <2>1. n <= L
    <3> SUFFICES ASSUME n > L PROVE FALSE
      BY <1>4, <1>6, <1>2
    <3>1. L \in 1 .. (n - 1) /\ L \in 1 .. L
      BY <1>2, <1>4, <1>6
    <3>2. file[pos + L] = R[L] /\ R[L] = Newline
      BY <1>3, <1>4, <3>1 DEF EndsOnce
    <3> QED BY <1>6, <3>1, <3>2
  <2>2. ~(n < L - 1)
    <3> SUFFICES ASSUME n < L - 1 PROVE FALSE
      OBVIOUS
    <3>1. n \in 1 .. (L - 2) /\ n \in 1 .. L /\ n # LineMax - 1 /\ pos + n # Len(file)
      BY <1>2, <1>3, <1>4, <1>6
    <3>2. file[pos + n] = R[n] /\ R[n] # Newline
      BY <1>3, <1>4, <3>1 DEF EndsOnce
    <3> QED BY <1>6, <3>1, <3>2
  <2> QED BY <1>2, <1>4, <1>6, <2>1, <2>2
<1>8. Behind(pos + n, i)
  <2>1. f = pos + 1 /\ pos \in Nat /\ L \in Nat
    BY <1>1, <1>2, <1>4
  <2>2. f + L = pos + n + 1 \/ f + L = pos + n + 2
    BY <1>7, <2>1
  <2>3. i # 0
    OBVIOUS
  <2> QED BY <1>1, <2>2, <2>3 DEF Behind
<1>9. Does(Fetched, c) /\ Holds(Fetched, R)
  <2>1. /\ Fetched \in Seq(Characters) /\ Len(Fetched) = LineMax
        /\ \A t \in 1 .. n : Fetched[t] = file[pos + t]
    BY <1>2, <1>5, FetchedIs
  <2>2. \A t \in 1 .. (L - 1) : t \in 1 .. n /\ t \in 1 .. L
    BY <1>4, <1>7
  <2>3. \A t \in 1 .. (L - 1) : Fetched[t] = R[t]
    BY <1>4, <2>1, <2>2
  <2>4. Holds(Fetched, R)
    BY <1>3, <2>1, <2>3, Zenon DEF Holds
  <2> QED BY <1>3, <2>1, <2>4
<1> QED BY <1>1, <1>5, <1>8, <1>9

(* A call that finds the newline left over from a record takes it and no more. *)
LEMMA ReadsNewline ==
  ASSUME LogInv, TypeOK, Len(line) = LineMax, pending = <<>>, pos < Len(file),
         NEW i \in 1 .. Len(recs), recs[i].from + recs[i].len = pos + 2, OneLine(recs[i])
  PROVE  /\ Behind(pos + Taken, i) /\ LeadsTo(Fetched, "skip")
         /\ \A t \in 3 .. LineMax : Fetched[t] = line[t]
<1>1. PICK c, R, L, f : c = recs[i].cmd /\ R = Record(c) /\ L = recs[i].len /\ f = recs[i].from
  OBVIOUS
<1>2. /\ Tiled(recs, file) /\ Len(file) \in Nat /\ pos \in Nat /\ c \in Cmds
      /\ file \in Seq(Characters) /\ line \in Seq(Characters) /\ NUL \in Characters
      /\ LineMax \in Nat /\ f \in Nat
  <2>1. Tiled(recs, file) /\ Len(file) \in Nat /\ c \in Cmds /\ f \in Nat
    BY <1>1, FileTiled
  <2>2. pos \in Nat /\ file \in Seq(Characters) /\ line \in Seq(Characters)
    BY <2>1 DEF TypeOK
  <2>3. NUL \in Characters
    BY Zenon DEF Characters
  <2> QED BY <2>1, <2>2, <2>3, SizeAssumption
<1>3. EndsOnce(R) /\ L = Len(R)
  <2>1. L = Len(R)
    BY <1>1 DEF OneLine, Whole, Fits
  <2> QED BY <1>1, <1>2, <2>1, LineReads
<1>4. file[pos + 1] = Newline
  <2>1. L \in 1 .. L /\ R[L] = Newline /\ L \in Nat
    BY <1>3 DEF EndsOnce
  <2>2. \A t \in 1 .. L : file[f + t - 1] = R[t]
    BY <1>1, <1>2, Zenon DEF Tiled
  <2>3. f + L - 1 = pos + 1
    <3>1. f + L = pos + 2 /\ f \in Nat /\ L \in Nat /\ pos \in Nat
      BY <1>1, <1>2, <2>1
    <3> QED BY <3>1
  <2>4. file[f + L - 1] = R[L]
    BY <2>1, <2>2
  <2> QED BY <2>1, <2>3, <2>4
<1>5. PICK n : n = Taken
  OBVIOUS
<1>6. n = 1
  <2>1. /\ n \in 1 .. (LineMax - 1)
        /\ \A m \in 1 .. (n - 1) : pos + m < Len(file) /\ file[pos + m] # Newline
    BY <1>2, <1>5, TakenIs
  <2>2. 1 \notin 1 .. (n - 1)
    BY <1>4, <2>1
  <2> QED BY <1>2, <2>1, <2>2
<1>7. Behind(pos + n, i)
  <2>1. pos + n + 1 = recs[i].from + recs[i].len /\ i # 0
    BY <1>2, <1>6
  <2> QED BY <2>1 DEF Behind
<1>8. LeadsTo(Fetched, "skip") /\ \A t \in 3 .. LineMax : Fetched[t] = line[t]
  <2>1. /\ Fetched \in Seq(Characters) /\ Len(Fetched) = LineMax
        /\ \A t \in 1 .. n : Fetched[t] = file[pos + t]
        /\ Fetched[n + 1] = NUL
        /\ \A t \in (n + 2) .. LineMax : Fetched[t] = line[t]
    BY <1>2, <1>5, FetchedIs
  <2>2. Fetched[1] = Newline /\ Fetched[2] = NUL /\ n + 2 = 3
    BY <1>4, <1>6, <2>1
  <2> QED BY <2>1, <2>2, ReadsNothing
<1> QED BY <1>5, <1>7, <1>8

\* of its key the map was last asked for the command c
Shows(d, c) == c.key \in DOMAIN d /\ d[c.key] = c

\* no record up to the n-th comes behind the i-th and has its key
IsLast(i, n) == \A j \in 1 .. n : recs[j].cmd.key = recs[i].cmd.key => j <= i

\* the map was asked for what the first n records amount to
Reflects(d, n) ==
  /\ \A k \in DOMAIN d : \E i \in 1 .. n : recs[i].cmd.key = k
  /\ \A i \in 1 .. n : IsLast(i, n) => Shows(d, recs[i].cmd)

(* A command shows in what was asked, and the others still do, but those on its key. *)
LEMMA AskShows ==
  ASSUME NEW d, NEW c \in Cmds
  PROVE  /\ Shows(Ask(d, c), c)
         /\ \A b \in Cmds : b.key # c.key /\ Shows(d, b) => Shows(Ask(d, c), b)
         /\ \A k \in DOMAIN Ask(d, c) : k = c.key \/ k \in DOMAIN d
<1>1. /\ DOMAIN Ask(d, c) = DOMAIN d \cup {c.key}
      /\ \A x \in DOMAIN d \cup {c.key} : Ask(d, c)[x] = IF x = c.key THEN c ELSE d[x]
  BY Zenon DEF Ask
<1> QED BY <1>1 DEF Shows

(* One record more. *)
LEMMA ReflectsNext ==
  ASSUME NEW d, NEW n \in Nat, Reflects(d, n), \A i \in 1 .. n + 1 : recs[i].cmd \in Cmds
  PROVE  Reflects(Ask(d, recs[n + 1].cmd), n + 1)
<1>1. PICK c \in Cmds : c = recs[n + 1].cmd
  <2>1. n + 1 \in 1 .. n + 1
    OBVIOUS
  <2> QED BY <2>1
<1>2. PICK e : e = Ask(d, c)
  OBVIOUS
<1>3. /\ Shows(e, c)
      /\ \A b \in Cmds : b.key # c.key /\ Shows(d, b) => Shows(e, b)
      /\ \A k \in DOMAIN e : k = c.key \/ k \in DOMAIN d
  BY <1>2, AskShows
<1>4. /\ n + 1 \in 1 .. n + 1 /\ \A i \in 1 .. n : i \in 1 .. n + 1 /\ ~(n + 1 <= i)
      /\ \A i \in 1 .. n + 1 : i \in 1 .. n \/ i = n + 1
  OBVIOUS
<1>5. ASSUME NEW k \in DOMAIN e PROVE \E i \in 1 .. n + 1 : recs[i].cmd.key = k
  BY <1>1, <1>3, <1>4, <1>5, Zenon DEF Reflects
<1>6. ASSUME NEW i \in 1 .. n + 1, IsLast(i, n + 1) PROVE Shows(e, recs[i].cmd)
  <2>1. CASE i = n + 1
    BY <1>1, <1>3, <2>1
  <2>2. CASE i \in 1 .. n
    <3>1. recs[i].cmd.key # c.key
      BY <1>1, <1>4, <1>6, <2>2, Zenon DEF IsLast
    <3>2. IsLast(i, n)
      BY <1>4, <1>6, Zenon DEF IsLast
    <3>3. Shows(d, recs[i].cmd)
      BY <2>2, <3>2, Zenon DEF Reflects
    <3> QED BY <1>3, <3>1, <3>3
  <2> QED BY <1>4, <2>1, <2>2
<1>7. Reflects(e, n + 1)
  BY <1>5, <1>6 DEF Reflects
<1> QED BY <1>1, <1>2, <1>7

LEMMA ReflectsNothing == Reflects(NoKeys, 0)
<1>1. DOMAIN NoKeys = {}
  BY DEF NoKeys
<1>2. 1 .. 0 = {}
  OBVIOUS
<1> QED BY <1>1, <1>2, Zenon DEF Reflects

\* the line that is parsed is the leftover of the n-th record, or that record
Parses(n) ==
  \/ LeadsTo(line, "skip") /\ (CStrings => Reflects(asked, n))
  \/ n # 0 /\ Does(line, recs[n].cmd) /\ (CStrings => Reflects(asked, n - 1))

\* A replay that meets no damage is behind some record, never dies, and has
\* asked the map for what the records up to there amount to.
ReplayInv ==
  /\ segv => phase = "down" /\ ~Undamaged
  /\ phase = "down" => pos = 0 /\ asked = NoKeys
  /\ phase = "replay" /\ Undamaged =>
       \E n \in 0 .. Len(recs) : Behind(pos, n) /\ (CStrings => Reflects(asked, n))
  /\ phase = "parse" /\ Undamaged =>
       \E n \in 0 .. Len(recs) : Behind(pos, n) /\ Parses(n)
  /\ (phase = "serving" /\ fresh) /\ Undamaged =>
       (CStrings => Reflects(asked, Len(recs)))

LEMMA SameRecs ==
  ASSUME recs' = recs
  PROVE  /\ Undamaged' <=> Undamaged
         /\ \A n : Behind(pos, n)' <=> Behind(pos', n)
         /\ \A n : Reflects(asked, n)' <=> Reflects(asked', n)
<1>1. Undamaged' <=> Undamaged
  BY DEF Undamaged
<1>2. \A n : Behind(pos, n)' <=> Behind(pos', n)
  BY DEF Behind
<1>3. \A n : Reflects(asked, n)' <=> Reflects(asked', n)
  BY DEF Reflects, IsLast
<1> QED BY <1>1, <1>2, <1>3

(* fgets moves the replay behind the next record, or behind the rest of the last. *)
LEMMA ReadKeeps ==
  ASSUME LogInv, TypeOK, Buffer, ReplayInv, Undamaged, ReadLine
  PROVE  \E n \in 0 .. Len(recs) :
           /\ Behind(pos + Taken, n)
           /\ \/ LeadsTo(Fetched, "skip") /\ (CStrings => Reflects(asked, n))
              \/ n # 0 /\ Does(Fetched, recs[n].cmd) /\ (CStrings => Reflects(asked, n - 1))
<1>1. /\ phase = "replay" /\ pos < Len(file) /\ pending = <<>> /\ Len(line) = LineMax
      /\ pos \in Nat
  <2>1. phase = "replay" /\ pos < Len(file)
    BY DEF ReadLine
  <2>2. Len(file) \in Nat
    BY LogIs
  <2>3. pending = <<>> /\ Len(line) = LineMax /\ pos \in 0 .. Len(file)
    BY <2>1 DEF LogInv, Buffer, TypeOK
  <2> QED BY <2>1, <2>2, <2>3
<1>2. PICK n \in 0 .. Len(recs) : Behind(pos, n) /\ (CStrings => Reflects(asked, n))
  BY <1>1 DEF ReplayInv
<1>3. \A i \in 1 .. Len(recs) : OneLine(recs[i])
  BY DomainRecs DEF Undamaged
<1>4. Len(recs) \in Nat /\ n \in Nat
  BY DomainRecs
<1>5. CASE n # 0 /\ recs[n].from + recs[n].len = pos + 2
  <2>1. n \in 1 .. Len(recs)
    BY <1>4, <1>5
  <2>2. Behind(pos + Taken, n) /\ LeadsTo(Fetched, "skip")
    BY <1>1, <1>3, <1>5, <2>1, ReadsNewline
  <2> QED BY <1>2, <2>2
<1>6. CASE EndOf(pos, n)
  <2>1. n + 1 \in 1 .. Len(recs) /\ recs[n + 1].from = pos + 1
    BY <1>1, <1>6, NextRecord
  <2>2. Behind(pos + Taken, n + 1) /\ Does(Fetched, recs[n + 1].cmd)
    BY <1>1, <1>3, <2>1, ReadsRecord
  <2>3. n + 1 \in 0 .. Len(recs) /\ n + 1 # 0 /\ n + 1 - 1 = n
    BY <1>4, <2>1
  <2> QED BY <1>2, <2>2, <2>3
<1> QED BY <1>2, <1>5, <1>6 DEF Behind, EndOf

(* The parser does what the record says, or nothing to the rest of one. *)
LEMMA ParsesOne ==
  ASSUME LogInv, NEW n \in 0 .. Len(recs), Parses(n)
  PROVE  /\ ~ParseSegv
         /\ (ParseSkip \/ ParseSet \/ ParseDel) /\ CStrings => Reflects(asked', n)
<1>1. CASE LeadsTo(line, "skip") /\ (CStrings => Reflects(asked, n))
  <2>1. ~ParseSet /\ ~ParseDel /\ ~ParseSegv
    BY <1>1 DEF ParseSet, ParseDel, Parsed, ParseSegv, LeadsTo
  <2>2. ParseSkip => asked' = asked
    BY DEF ParseSkip
  <2> QED BY <1>1, <2>1, <2>2
<1>2. CASE n # 0 /\ Does(line, recs[n].cmd) /\ (CStrings => Reflects(asked, n - 1))
  <2>1. PICK c : c = recs[n].cmd
    OBVIOUS
  <2>2. /\ n - 1 \in Nat /\ n - 1 + 1 = n /\ c \in Cmds
        /\ \A i \in 1 .. n : recs[i].cmd \in Cmds
    <3>1. \A i \in 1 .. Len(recs) : recs[i].cmd \in Cmds
      BY TiledFields DEF LogInv
    <3>2. Len(recs) \in Nat
      BY DomainRecs
    <3> QED BY <1>2, <2>1, <3>1, <3>2
  <2>3. /\ \/ c.fn = "SET" /\ Outcome(line) = "set"
           \/ c.fn = "DEL" /\ Outcome(line) = "del"
        /\ CStrings => Key(line) = c.key /\ (c.fn = "SET" => Val(line) = c.val)
        /\ ~Overruns(line)
    BY <1>2, <2>1, Zenon DEF Does, LeadsTo
  <2>4. ~ParseSkip /\ ~ParseSegv
    BY <2>3 DEF ParseSkip, Parsed, ParseSegv
  <2>5. ASSUME ParseSet, CStrings PROVE asked' = Ask(asked, c)
    <3>1. Outcome(line) = "set" /\ asked' = Ask(asked, SetOf(Key(line), Val(line)))
      BY <2>5, Zenon DEF ParseSet, Parsed
    <3>2. c.fn = "SET" /\ Key(line) = c.key /\ Val(line) = c.val
      BY <2>3, <2>5, <3>1
    <3>3. c = SetOf(c.key, c.val)
      <4>1. c.fn # "DEL"
        BY <3>2
      <4> QED BY <2>2, <4>1, CmdIs
    <3> QED BY <3>1, <3>2, <3>3, Zenon
  <2>6. ASSUME ParseDel, CStrings PROVE asked' = Ask(asked, c)
    <3>1. Outcome(line) = "del" /\ asked' = Ask(asked, DelOf(Key(line)))
      BY <2>6, Zenon DEF ParseDel, Parsed
    <3>2. c.fn # "SET" /\ Key(line) = c.key
      BY <2>3, <2>6, <3>1
    <3>3. c = DelOf(c.key)
      BY <2>2, <3>2, CmdIs
    <3> QED BY <3>1, <3>2, <3>3, Zenon
  <2>7. CStrings => Reflects(Ask(asked, c), n)
    BY <1>2, <2>1, <2>2, ReflectsNext
  <2>8. CStrings /\ (ParseSet \/ ParseDel) => Reflects(asked', n)
    BY <2>5, <2>6, <2>7
  <2> QED BY <2>4, <2>8
<1> QED BY <1>1, <1>2 DEF Parses

LEMMA ParseKeeps ==
  ASSUME LogInv, ReplayInv, Undamaged, phase = "parse"
  PROVE  /\ ~ParseSegv
         /\ ParseSkip \/ ParseSet \/ ParseDel =>
              \E n \in 0 .. Len(recs) : Behind(pos, n) /\ (CStrings => Reflects(asked', n))
<1>1. PICK n \in 0 .. Len(recs) : Behind(pos, n) /\ Parses(n)
  BY DEF ReplayInv
<1> QED BY <1>1, ParsesOne

(* A replay that comes to its end has asked for all records. *)
LEMMA ReplayMakes ==
  ASSUME LogInv, TypeOK, ReplayInv, ReplayEnds, Undamaged, CStrings
  PROVE  Reflects(asked, Len(recs))
<1>1. phase = "replay" /\ pos = Len(file) /\ pending = <<>> /\ pos \in Nat
  <2>1. phase = "replay" /\ pos = Len(file)
    BY DEF ReplayEnds
  <2> QED BY <2>1, LogIs DEF LogInv
<1>2. PICK n \in 0 .. Len(recs) : Behind(pos, n) /\ Reflects(asked, n)
  BY <1>1 DEF ReplayInv
<1>3. EndOf(pos, n)
  <2>1. ASSUME n # 0 PROVE recs[n].from + recs[n].len <= pos + 1
    <3>1. n \in 1 .. Len(recs)
      BY <2>1, DomainRecs
    <3> QED BY <1>1, <3>1, FileTiled
  <2>2. ASSUME n # 0 PROVE recs[n].from + recs[n].len # pos + 2
    BY <1>1, <2>1, <2>2
  <2> QED BY <1>2, <2>2 DEF Behind, EndOf
<1>4. n = Len(recs)
  BY <1>1, <1>3, NextRecord
<1> QED BY <1>2, <1>4

(* One step of the replay. *)
LEMMA ReplayStep == LogInv /\ TypeOK /\ Buffer /\ ReplayInv /\ [Next]_vars => ReplayInv'
<1> SUFFICES ASSUME LogInv, TypeOK, Buffer, ReplayInv, [Next]_vars PROVE ReplayInv'
  OBVIOUS
<1>1. pos \in Nat /\ pos <= Len(file) /\ Len(file) \in Nat /\ segv \in BOOLEAN /\ Len(recs) \in Nat
  <2>1. Len(file) \in Nat
    BY LogIs
  <2> QED BY <2>1, DomainRecs DEF TypeOK
<1>2. phase \in {"down", "replay", "parse"} => pending = <<>>
  BY DEF LogInv
<1>3. CASE UNCHANGED <<phase, recs, pos, line, asked, fresh, segv>>
  BY <1>3, SameRecs DEF ReplayInv, Parses, Does, LeadsTo, Overruns
<1>4. CASE Start
  <2>1. /\ phase = "down" /\ phase' = "replay" /\ ~segv' /\ UNCHANGED <<recs, pos, asked>>
    BY <1>4 DEF Start, logVars
  <2>2. pos' = 0 /\ asked' = NoKeys
    BY <2>1 DEF ReplayInv
  <2>3. Behind(pos', 0) /\ Reflects(asked', 0) /\ 0 \in 0 .. Len(recs')
    BY <1>1, <2>1, <2>2, ReflectsNothing DEF Behind
  <2> QED BY <2>1, <2>3, SameRecs DEF ReplayInv
<1>5. CASE ReadLine
  <2>1. /\ phase = "replay" /\ phase' = "parse" /\ pos' = pos + Taken
        /\ line' = Fetched /\ UNCHANGED <<recs, segv, asked>>
    BY <1>5 DEF ReadLine, logVars
  <2>2. ~segv
    BY <2>1 DEF ReplayInv
  <2>3. Undamaged => \E n \in 0 .. Len(recs') : Behind(pos, n)' /\ Parses(n)'
    <3> SUFFICES ASSUME Undamaged PROVE \E n \in 0 .. Len(recs') : Behind(pos, n)' /\ Parses(n)'
      OBVIOUS
    <3>1. PICK n \in 0 .. Len(recs) :
            /\ Behind(pos + Taken, n)
            /\ \/ LeadsTo(Fetched, "skip") /\ (CStrings => Reflects(asked, n))
               \/ n # 0 /\ Does(Fetched, recs[n].cmd) /\ (CStrings => Reflects(asked, n - 1))
      BY <1>5, ReadKeeps
    <3>2. Behind(pos, n)'
      BY <2>1, <3>1, SameRecs
    <3>3. Parses(n)'
      BY <2>1, <3>1, SameRecs DEF Parses, Does, LeadsTo
    <3> QED BY <2>1, <3>2, <3>3
  <2> QED BY <2>1, <2>2, <2>3, SameRecs DEF ReplayInv
<1>6. CASE ParseSkip \/ ParseSet \/ ParseDel
  <2>1. /\ phase = "parse" /\ phase' = "replay" /\ UNCHANGED <<recs, pos, line, segv>>
    BY <1>6 DEF ParseSkip, ParseSet, ParseDel, Parsed, logVars, bootVars
  <2>2. Undamaged => \E n \in 0 .. Len(recs) : Behind(pos, n) /\ (CStrings => Reflects(asked', n))
    BY <1>6, <2>1, ParseKeeps
  <2>3. ~segv'
    BY <2>1 DEF ReplayInv
  <2> QED BY <2>1, <2>2, <2>3, SameRecs DEF ReplayInv
<1>7. CASE ParseSegv
  <2>1. /\ phase = "parse" /\ phase' = "down" /\ pos' = 0
        /\ asked' = NoKeys /\ UNCHANGED recs
    BY <1>7 DEF ParseSegv, logVars
  <2>2. ~Undamaged
    BY <1>7, <2>1, ParseKeeps
  <2> QED BY <2>1, <2>2, SameRecs DEF ReplayInv
<1>8. CASE ReplayEnds
  <2>1. /\ phase = "replay" /\ pos = Len(file) /\ phase' = "serving"
        /\ UNCHANGED <<recs, segv, asked>>
    BY <1>8 DEF ReplayEnds, logVars
  <2>2. ~segv'
    BY <2>1 DEF ReplayInv
  <2>3. Undamaged /\ CStrings => Reflects(asked, Len(recs))
    BY <1>8, ReplayMakes
  <2> QED BY <2>1, <2>2, <2>3, SameRecs DEF ReplayInv
<1>9. ASSUME NEW c \in Cmds, BeginAppend(c) PROVE ReplayInv'
  <2>1. phase = "serving" /\ phase' = phase /\ segv' = segv /\ fresh' = FALSE
    BY <1>9 DEF BeginAppend, bootVars
  <2> QED BY <2>1 DEF ReplayInv
<1>10. CASE WriteBlock
  BY <1>3, <1>10 DEF WriteBlock, bootVars
<1>11. CASE BeginDbSave \/ BeginRewrite
  BY <1>3, <1>11 DEF BeginDbSave, BeginRewrite, Busy, logVars, bootVars
<1>12. CASE Kill \/ PowerCut
  <2>1. phase' = "down" /\ pos' = 0 /\ segv' = FALSE /\ asked' = NoKeys
    BY <1>12 DEF Kill, PowerCut, Die
  <2> QED BY <2>1 DEF ReplayInv
<1>13. CASE UNCHANGED vars
  BY <1>3, <1>13 DEF vars, logVars, bootVars
<1> QED BY <1>4, <1>5, <1>6, <1>7, <1>8, <1>9, <1>10, <1>11, <1>12, <1>13
    DEF Next, Replay

LEMMA ReplayInit == Init => ReplayInv
BY DEF Init, ReplayInv

(* aof_replay ends the process only over a log with a record that was cut off, is  *)
(* longer than its buffer, or has a newline in its key or inside its value, for    *)
(* any commands, any buffers and whatever the stack held (aof.c:154-222).          *)
THEOREM OnlyDamageStops == Spec => []OnlyDamageStopsBoot
<1>1. Init => LogInv /\ TypeOK /\ Buffer /\ ReplayInv
  BY LogInit, TypeInit, ReplayInit
<1>2. LogInv /\ TypeOK /\ Buffer /\ ReplayInv /\ [Next]_vars
        => (LogInv /\ TypeOK /\ Buffer /\ ReplayInv)'
  BY LogStep, TypeStep, ReplayStep
<1>3. ReplayInv => OnlyDamageStopsBoot
  BY DEF ReplayInv, OnlyDamageStopsBoot
<1> QED BY <1>1, <1>2, <1>3, PTL DEF Spec

(* In an undamaged log a record touches the key it is of, and no other.  *)
LEMMA TouchesOwn ==
  ASSUME LogInv, Undamaged, NEW i \in DOMAIN recs, NEW k
  PROVE  Clean(i) /\ (Touches(i, k) <=> recs[i].cmd.key = k)
<1>1. \A j \in 1 .. Len(recs) : OneLine(recs[j]) /\ Whole(recs[j])
  BY DomainRecs DEF Undamaged, OneLine
<1>2. i \in 1 .. Len(recs) /\ Len(recs) \in Nat
  BY DomainRecs
<1>3. Clean(i)
  <2>1. i = 1 \/ i - 1 \in 1 .. Len(recs)
    BY <1>2
  <2> QED BY <1>1, <1>2, <2>1 DEF Clean
<1>4. recs[i].len # 3
  <2>1. recs[i].cmd \in Cmds
    BY <1>2, TiledFields DEF LogInv
  <2>2. EndsOnce(Record(recs[i].cmd))
    BY <1>1, <1>2, <2>1, LineReads
  <2> QED BY <1>1, <1>2, <2>2 DEF EndsOnce, Whole
<1> QED BY <1>3, <1>4, Zenon DEF Touches

(* A map that was asked for all records was last asked for every key's last one. *)
LEMMA ReflectsAll ==
  ASSUME LogInv, Undamaged, Reflects(asked, Len(recs))
  PROVE  DamageIsLocal
<1>1. DOMAIN recs = 1 .. Len(recs) /\ Len(recs) \in Nat
  BY DomainRecs
<1> SUFFICES ASSUME NEW k \in Keys, NEW S, S = {i \in DOMAIN recs : Touches(i, k)}
             PROVE  IF S = {} THEN k \notin DOMAIN asked
                    ELSE LET i == CHOOSE x \in S : \A y \in S : y <= x
                         IN (Clean(i) /\ recs[i].cmd.key = k) =>
                              k \in DOMAIN asked /\ asked[k] = recs[i].cmd
  BY DEF DamageIsLocal
<1>2. S = {i \in 1 .. Len(recs) : recs[i].cmd.key = k}
  BY <1>1, TouchesOwn
<1>3. CASE S = {}
  <2>1. k \notin DOMAIN asked
    BY <1>2, <1>3 DEF Reflects
  <2> QED BY <1>3, <2>1
<1>4. CASE S # {}
  <2>1. PICK i : i = CHOOSE x \in S : \A y \in S : y <= x
    OBVIOUS
  <2>2. \E x \in S : \A y \in S : y <= x
    BY <1>1, <1>2, <1>4, LastExists
  <2>3. i \in S /\ \A y \in S : y <= i
    BY <2>1, <2>2
  <2>4. i \in 1 .. Len(recs) /\ recs[i].cmd.key = k /\ IsLast(i, Len(recs))
    BY <1>2, <2>3 DEF IsLast
  <2>5. Shows(asked, recs[i].cmd)
    BY <2>4 DEF Reflects
  <2>6. k \in DOMAIN asked /\ asked[k] = recs[i].cmd
    BY <2>4, <2>5 DEF Shows
  <2> QED BY <1>4, <2>1, <2>6
<1> QED BY <1>3, <1>4

(* A restart over an undamaged log asks the map, of every key that is in it, last  *)
(* for what the key's last record says, and of the other keys for nothing, for any *)
(* number of C strings as commands, any buffers, whatever the stack held and       *)
(* whatever the lines left in the buffer (aof.c:154-222).                          *)
THEOREM UndamagedIsReplayed ==
  ASSUME CStrings
  PROVE  Spec => [](Undamaged => DamageIsLocal)
<1>1. Init => LogInv /\ TypeOK /\ Buffer /\ ReplayInv
  BY LogInit, TypeInit, ReplayInit
<1>2. LogInv /\ TypeOK /\ Buffer /\ ReplayInv /\ [Next]_vars
        => (LogInv /\ TypeOK /\ Buffer /\ ReplayInv)'
  BY LogStep, TypeStep, ReplayStep
<1>3. LogInv /\ ReplayInv => (Undamaged => DamageIsLocal)
  <2> SUFFICES ASSUME LogInv, ReplayInv, Undamaged PROVE DamageIsLocal
    OBVIOUS
  <2>1. CASE phase = "serving" /\ fresh
    BY <2>1, ReflectsAll DEF ReplayInv
  <2>2. CASE ~(phase = "serving" /\ fresh)
    BY <2>2 DEF DamageIsLocal
  <2> QED BY <2>1, <2>2
<1> QED BY <1>1, <1>2, <1>3, PTL DEF Spec
=============================================================================
