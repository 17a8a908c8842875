-------------------------- MODULE StorageLogProofs --------------------------
(***************************************************************************)
(* The proofs about the files, continued: what the parser finds in a       *)
(* record that was cut off, so that a torn record at the end of the log    *)
(* does no damage to other keys; that a log which only kills have ended is *)
(* always read back; and that files, stdio and parser are together a log   *)
(* of commands.                                                            *)
(***************************************************************************)
EXTENDS StorageProofs

(* The parser over a record that was cut off. *)

\* a record begins with a word, the length of its key and the key
Starts(R, key, K) ==
  /\ key \in Seq(Alphabet) /\ K = Len(key) /\ K \in 1 .. 9
  /\ Len(R) \in Nat /\ Len(R) >= K + 7
  /\ \A i \in 1 .. 3 : R[i] \notin Blank \cup {NUL}
  /\ R[4] = Space /\ R[5] = Digit(K) /\ R[6] = Space
  /\ \A i \in 1 .. K : R[6 + i] = key[i]

LEMMA RecordStarts ==
  ASSUME NEW c \in Cmds
  PROVE  Starts(Record(c), c.key, Len(c.key))
<1>1. PICK R, key, val, K, V : R = Record(c) /\ key = c.key /\ val = c.val
                               /\ K = Len(c.key) /\ V = Len(c.val)
  OBVIOUS
<1>2. SetText(R, key, val, K, V) \/ DelText(R, key, K)
  BY <1>1, CmdStrings, SetShape, DelShape, Zenon
<1>3. \A i \in 1 .. 3 : i = 1 \/ i = 2 \/ i = 3
  OBVIOUS
<1>4. CASE SetText(R, key, val, K, V)
  <2>1. /\ key \in Seq(Alphabet) /\ K = Len(key) /\ K \in 1 .. 9 /\ V \in 0 .. 9
        /\ R \in Seq(Alphabet) /\ Len(R) = K + V + 10
        /\ R[1] = CS /\ R[2] = CE /\ R[3] = CT /\ R[4] = Space
        /\ R[5] = Digit(K) /\ R[6] = Space
        /\ \A i \in 1 .. K : R[6 + i] = key[i]
    BY <1>4, Zenon DEF SetText
  <2>2. Len(R) \in Nat /\ Len(R) >= K + 7
    BY <2>1
  <2>3. \A i \in 1 .. 3 : R[i] \notin Blank \cup {NUL}
    BY <1>3, <2>1, CharsDiffer, Zenon
  <2> QED BY <1>1, <2>1, <2>2, <2>3, Zenon DEF Starts
<1>5. CASE DelText(R, key, K)
  <2>1. /\ key \in Seq(Alphabet) /\ K = Len(key) /\ K \in 1 .. 9
        /\ R \in Seq(Alphabet) /\ Len(R) = K + 7
        /\ R[1] = CD /\ R[2] = CE /\ R[3] = CL /\ R[4] = Space
        /\ R[5] = Digit(K) /\ R[6] = Space
        /\ \A i \in 1 .. K : R[6 + i] = key[i]
    BY <1>5, Zenon DEF DelText
  <2>2. Len(R) \in Nat /\ Len(R) >= K + 7
    BY <2>1
  <2>3. \A i \in 1 .. 3 : R[i] \notin Blank \cup {NUL}
    BY <1>3, <2>1, CharsDiffer, Zenon
  <2> QED BY <1>1, <2>1, <2>2, <2>3, Zenon DEF Starts
<1> QED BY <1>2, <1>4, <1>5

(* Nothing is set or deleted without the length of a key. *)
LEMMA OutcomeNeeds ==
  ASSUME NEW b, Outcome(b) \in {"set", "del"}
  PROVE  /\ Word(b) \in {SetName, DelName}
         /\ KeyField(b).ok
         /\ KeyField(b).found \/ KeyField(b).len = 0
<1>1. PICK k, v, w, o : k = KeyField(b) /\ v = ValField(b) /\ w = Word(b) /\ o = Outcome(b)
  OBVIOUS
<1>2. o # "skip" /\ o # "segv"
  BY <1>1
<1>3. ASSUME w \notin {SetName, DelName} PROVE o = "skip"
  BY <1>1, <1>3, NamesDiffer, Zenon DEF Outcome, SetName, DelName
<1>4. ASSUME w \in {SetName, DelName}, ~k.ok PROVE o = "skip"
  BY <1>1, <1>4, NamesDiffer, Zenon DEF Outcome, SetName, DelName
<1>5. ASSUME w = DelName, k.ok, ~k.found, k.len # 0 PROVE o = "segv"
  BY <1>1, <1>5, NamesDiffer, Zenon DEF Outcome, SetName, DelName
<1>6. ASSUME w = SetName, k.ok, ~k.found PROVE o = "segv"
  BY <1>1, <1>6, NamesDiffer, Zenon DEF Outcome, SetName, DelName
<1> QED BY <1>1, <1>2, <1>3, <1>4, <1>5, <1>6

(* A word of less than three characters is no command. *)
LEMMA ShortWord ==
  ASSUME NEW X, NEW b \in Seq(X), Len(b) = LineMax, NEW l \in 1 .. 2, l + 1 \in 1 .. Len(b),
         b[1] \notin Blank, b[l + 1] = NUL
  PROVE  Word(b) \notin {SetName, DelName}
<1>1. 1 \in 1 .. Len(b) /\ Len(b) <= LineMax /\ LineMax \in Nat
  BY SizeAssumption
<1>2. NonBlank(b, 1) = 1
  BY <1>1, NonBlankHere
<1>3. PICK f, g : f = From(b, 1, Blank \cup {NUL}) /\ g = From(b, 1, {NUL})
  OBVIOUS
<1>4. f \in Nat /\ f >= 1
  <2>1. NUL \in Blank \cup {NUL}
    OBVIOUS
  <2>2. f \in 1 .. (1 + LineMax + 1)
    BY <1>1, <1>3, <2>1, FromIs
  <2> QED BY <1>1, <2>2
<1>5. g \in 1 .. (l + 1)
  <2>1. g \in 1 .. (1 + LineMax + 1) /\ \A j \in 1 .. (g - 1) : At(b, j) \notin {NUL}
    BY <1>1, <1>3, FromIs
  <2>2. At(b, l + 1) = NUL
    <3>1. l + 1 \in Nat
      OBVIOUS
    <3> QED BY <3>1, AtIs
  <2>3. l + 1 \notin 1 .. (g - 1)
    BY <2>1, <2>2
  <2> QED BY <1>1, <2>1, <2>3
<1>6. PICK m : m = Least(Least(15, f - 1), g - 1)
  OBVIOUS
<1>7. m \in Nat /\ m < 3
  BY <1>4, <1>5, <1>6 DEF Least
<1>8. Word(b) = CString(b, 1, Least(15, f - 1))
  BY <1>2, <1>3, Zenon DEF Word
<1>9. Word(b) = [i \in 1 .. m |-> b[1 + i - 1]]
  BY <1>3, <1>6, <1>8 DEF CString
<1>10. DOMAIN Word(b) = 1 .. m /\ 3 \notin 1 .. m
  BY <1>7, <1>9
<1>11. 3 \in DOMAIN SetName /\ 3 \in DOMAIN DelName
  BY DEF SetName, DelName
<1> QED BY <1>10, <1>11

\* the buffer b holds the first l characters of the record R, and the NUL of fgets
Cut(b, R, l) ==
  /\ Len(b) = LineMax /\ Len(R) < LineMax /\ l \in 1 .. (Len(R) - 1)
  /\ \A i \in 1 .. l : b[i] = R[i]
  /\ b[l + 1] = NUL

(* A field whose blank is cut off: there is no number, or nothing behind it. *)
LEMMA FieldCut ==
  ASSUME NEW X, NEW b \in Seq(X), Len(b) <= LineMax, NEW p \in 1 .. Len(b)
  PROVE  /\ b[p] = NUL => ~Field(b, p).ok
         /\ \A n \in 0 .. 9 : b[p] = Digit(n) /\ p + 1 \in 1 .. Len(b) /\ b[p + 1] = NUL
              => ~Field(b, p).found /\ Field(b, p).len = n
<1>1. p \in Nat /\ p + 1 \in Nat /\ At(b, p) = b[p]
      /\ (p + 1 \in 1 .. Len(b) => At(b, p + 1) = b[p + 1])
  <2>1. p \in Nat /\ p + 1 \in Nat
    OBVIOUS
  <2> QED BY <2>1, AtIs
<1>2. Field(b, p).ok <=> At(b, NonBlank(b, p)) \in ToSet(Digits)
  BY Zenon DEF Field
<1>3. Field(b, p).found <=> At(b, From(b, p, {Space, NUL})) = Space
  BY Zenon DEF Field, Space
<1>4. Field(b, p).len = IF At(b, NonBlank(b, p)) \in ToSet(Digits)
                        THEN CHOOSE m \in 0 .. 9 : Digits[m + 1] = At(b, NonBlank(b, p))
                        ELSE 0
  BY Zenon DEF Field
<1>5. ASSUME b[p] = NUL PROVE ~Field(b, p).ok
  <2>1. NonBlank(b, p) = p
    BY <1>5, CharsDiffer, NonBlankHere
  <2>2. NUL \notin ToSet(Digits)
    BY DigitIs DEF Digit
  <2> QED BY <1>1, <1>2, <1>5, <2>1, <2>2
<1>6. ASSUME NEW n \in 0 .. 9, b[p] = Digit(n), p + 1 \in 1 .. Len(b), b[p + 1] = NUL
      PROVE  ~Field(b, p).found /\ Field(b, p).len = n
  <2>1. b[p] \notin Blank /\ b[p] \notin {Space, NUL} /\ NUL \in {Space, NUL}
        /\ b[p + 1] \in {Space, NUL}
    BY <1>6, CharsDiffer, DigitIs
  <2>2. NonBlank(b, p) = p /\ From(b, p, {Space, NUL}) = p + 1
    BY <1>6, <2>1, NonBlankHere, FromHere
  <2>3. ~Field(b, p).found
    BY <1>1, <1>3, <1>6, <2>2, CharsDiffer
  <2>4. Field(b, p).len = CHOOSE m \in 0 .. 9 : Digits[m + 1] = Digit(n)
    BY <1>1, <1>4, <1>6, <2>2, DigitIs
  <2>5. \A m \in 0 .. 9 : Digits[m + 1] = Digit(n) <=> m = n
    BY DigitIs DEF Digit
  <2> QED BY <2>3, <2>4, <2>5
<1> QED BY <1>5, <1>6

(* A cut record does something only if its name is there, and then to what is there *)
(* of its key; or if its name is all that is there.                                 *)
LEMMA CutReads ==
  ASSUME NEW X, NEW b \in Seq(X), NEW R, NEW key, NEW K, Starts(R, key, K),
         NEW l, Cut(b, R, l), Outcome(b) \in {"set", "del"}
  PROVE  l = 3 \/ IsPrefix(Key(b), key)
<1>1. /\ key \in Seq(Alphabet) /\ K = Len(key) /\ K \in 1 .. 9
      /\ Len(R) \in Nat /\ Len(R) >= K + 7
      /\ \A i \in 1 .. 3 : R[i] \notin Blank \cup {NUL}
      /\ R[5] = Digit(K) /\ R[6] = Space
      /\ \A i \in 1 .. K : R[6 + i] = key[i]
  BY Zenon DEF Starts
<1>2. /\ Len(b) = LineMax /\ Len(R) < LineMax /\ l \in 1 .. (Len(R) - 1)
      /\ \A i \in 1 .. l : b[i] = R[i]
      /\ b[l + 1] = NUL
  BY Zenon DEF Cut
<1>3. /\ LineMax \in Nat /\ LineMax > 8 /\ l + 1 \in 1 .. Len(b) /\ 5 \in 1 .. Len(b)
      /\ 6 \in 1 .. Len(b) /\ Len(b) <= LineMax /\ 5 + 1 = 6 /\ l \in Nat
  BY <1>1, <1>2, SizeAssumption
<1>4. l \notin 1 .. 2
  <2> SUFFICES ASSUME l \in 1 .. 2 PROVE FALSE
    OBVIOUS
  <2>1. b[1] \notin Blank
    BY <1>1, <1>2
  <2>2. Word(b) \notin {SetName, DelName}
    BY <1>2, <1>3, <2>1, ShortWord
  <2> QED BY <2>2, OutcomeNeeds
<1>5. KeyField(b) = Field(b, 5)
  BY DEF KeyField
<1>6. l # 4
  <2> SUFFICES ASSUME l = 4 PROVE FALSE
    OBVIOUS
  <2>1. b[5] = NUL
    BY <1>2
  <2>2. ~Field(b, 5).ok
    BY <1>3, <2>1, FieldCut
  <2> QED BY <1>5, <2>2, OutcomeNeeds
<1>7. l # 5
  <2> SUFFICES ASSUME l = 5 PROVE FALSE
    OBVIOUS
  <2>1. b[6] = NUL /\ b[5] = Digit(K) /\ K \in 0 .. 9
    <3>1. K \in 1 .. 9
      BY <1>1, Zenon
    <3>2. 5 \in 1 .. l /\ l + 1 = 6 /\ K \in 0 .. 9
      BY <3>1
    <3> QED BY <1>1, <1>2, <3>2, Zenon
  <2>2. ~Field(b, 5).found /\ Field(b, 5).len = K
    BY <1>3, <2>1, FieldCut
  <2>3. K # 0
    BY <1>1
  <2> QED BY <1>5, <2>2, <2>3, OutcomeNeeds
<1>8. ASSUME l >= 6 PROVE IsPrefix(Key(b), key)
  <2>1. b[5] = Digit(K) /\ b[5 + 1] = Space /\ K \in 0 .. 9
    <3>1. K \in 1 .. 9 /\ l \in Nat
      BY <1>1, <1>3, Zenon
    <3>2. 5 \in 1 .. l /\ 6 \in 1 .. l /\ K \in 0 .. 9
      BY <1>8, <3>1
    <3> QED BY <1>1, <1>2, <1>3, <3>2, Zenon
  <2>2. KeyField(b).len = K /\ KeyField(b).at = 7
    BY <1>3, <1>5, <2>1, FieldRead
  <2>3. PICK g : g = From(b, 7, {NUL})
    OBVIOUS
  <2>4. g \in Nat /\ g >= 7 /\ g <= l + 1
    <3>1. /\ g \in 7 .. (7 + LineMax + 1)
          /\ \A j \in 7 .. (g - 1) : At(b, j) \notin {NUL}
      BY <1>3, <2>3, FromIs
    <3>2. At(b, l + 1) = NUL
      <4>1. l + 1 \in Nat
        BY <1>3
      <4> QED BY <1>2, <1>3, <4>1, AtIs
    <3>3. l + 1 \notin 7 .. (g - 1)
      BY <3>1, <3>2
    <3> QED BY <1>3, <1>8, <3>1, <3>3
  <2>5. PICK m : m = Least(K, g - 7)
    OBVIOUS
  <2>6. m \in Nat /\ m <= K /\ m <= l - 6
    BY <1>1, <1>3, <2>4, <2>5 DEF Least
  <2>7. Key(b) = [i \in 1 .. m |-> b[7 + i - 1]]
    BY <2>2, <2>3, <2>5, Zenon DEF Key, CString
  <2>8. ASSUME NEW i \in 1 .. m PROVE b[7 + i - 1] = key[i] /\ i \in 1 .. K
    <3>1. 7 + i - 1 = 6 + i /\ 6 + i \in 1 .. l /\ i \in 1 .. K
      BY <1>1, <1>3, <2>6
    <3> QED BY <1>1, <1>2, <3>1
  <2>9. Key(b) = [i \in 1 .. m |-> key[i]]
    BY <2>7, <2>8
  <2>10. [i \in 1 .. m |-> key[i]] = SubSeq(key, 1, m)
    BY <1>1, <2>6
  <2>11. IsPrefix(SubSeq(key, 1, m), key)
    <3>1. PICK s : s = SubSeq(key, 1, m)
      OBVIOUS
    <3>2. s \in Seq(Alphabet) /\ Len(s) = m /\ \A i \in 1 .. m : s[i] = key[i]
      BY <1>1, <2>6, <3>1
    <3>3. SubSeq(key, 1, m) = SubSeq(s, 1, m)
      BY <1>1, <2>6, <3>2, SamePrefix
    <3> QED BY <1>1, <2>6, <3>1, <3>2, <3>3 DEF IsPrefix
  <2> QED BY <2>9, <2>10, <2>11
<1> QED BY <1>2, <1>3, <1>4, <1>6, <1>7, <1>8

(* A name alone: the key is what the line before left in the buffer. *)
LEMMA NameAlone ==
  ASSUME NEW X, NEW b \in Seq(X), Len(b) = LineMax, NEW R, NEW key, NEW K, Starts(R, key, K),
         Len(R) < LineMax, \A t \in 5 .. (Len(R) - 1) : b[t] = R[t],
         \A i \in 1 .. K : key[i] # NUL
  PROVE  Key(b) = key
<1>1. /\ key \in Seq(Alphabet) /\ K = Len(key) /\ K \in 1 .. 9
      /\ Len(R) \in Nat /\ Len(R) >= K + 7
      /\ R[5] = Digit(K) /\ R[6] = Space
      /\ \A i \in 1 .. K : R[6 + i] = key[i]
  BY Zenon DEF Starts
<1>2. /\ LineMax \in Nat /\ 5 \in 1 .. Len(b) /\ 5 + 1 \in 1 .. Len(b) /\ 5 + 1 = 6
      /\ Len(b) <= LineMax /\ K \in 0 .. 9 /\ 7 + K - 1 <= Len(b)
      /\ 5 \in 5 .. (Len(R) - 1) /\ 6 \in 5 .. (Len(R) - 1)
      /\ \A i \in 1 .. K : 7 + i - 1 = 6 + i /\ 6 + i \in 5 .. (Len(R) - 1)
  <2>1. K \in 1 .. 9 /\ Len(R) \in Nat /\ Len(R) >= K + 7
    BY <1>1, Zenon
  <2> QED BY <2>1, SizeAssumption
<1>3. b[5] = Digit(K) /\ b[5 + 1] = Space
  BY <1>1, <1>2, Zenon
<1>4. KeyField(b).len = K /\ KeyField(b).at = 7
  <2>1. KeyField(b) = Field(b, 5)
    BY DEF KeyField
  <2> QED BY <1>2, <1>3, <2>1, FieldRead
<1>5. Key(b) = CString(b, 7, K)
  BY <1>4 DEF Key
<1>6. \A i \in 1 .. K : b[7 + i - 1] = key[i] /\ key[i] # NUL
  BY <1>1, <1>2, Zenon
<1>7. key \in Seq(Alphabet) /\ Len(key) = K /\ 7 \in Nat \ {0}
  <2>1. 7 \in Nat \ {0}
    OBVIOUS
  <2> QED BY <1>1, <2>1, Zenon
<1> QED BY <1>2, <1>5, <1>6, <1>7, CStringAll

(* A name alone on the first line: the key is what the stack held, which has no *)
(* blank behind a digit.                                                        *)
LEMMA NameOnJunk ==
  ASSUME NEW X, NEW b \in Seq(X), Len(b) = LineMax, LineMax > 5, NEW j,
         \A t \in 5 .. LineMax : b[t] = j, Outcome(b) \in {"set", "del"}
  PROVE  Key(b) = <<>>
<1>1. LineMax \in Nat /\ 5 \in 1 .. Len(b) /\ Len(b) <= LineMax
  BY SizeAssumption
<1>2. \A t \in Nat : t >= 5 => At(b, t) = j \/ At(b, t) = NUL
  <2>1. ASSUME NEW t \in Nat, t >= 5 PROVE At(b, t) = j \/ At(b, t) = NUL
    <3>1. (t \in 5 .. LineMax /\ t \in 1 .. Len(b)) \/ t \notin 1 .. Len(b)
      BY <1>1, <2>1
    <3> QED BY <3>1, AtIs
  <2> QED BY <2>1
<1>3. At(b, 5) = j
  BY <1>1, AtIs
<1>4. PICK z : z = NonBlank(b, 5)
  OBVIOUS
<1>5. z \in Nat /\ z >= 5 /\ At(b, z) \notin Blank
      /\ \A i \in 5 .. (z - 1) : At(b, i) \in Blank
  <2>1. /\ z \in 5 .. (5 + LineMax + 1) /\ At(b, z) \notin Blank
        /\ \A i \in 5 .. (z - 1) : At(b, i) \in Blank
    BY <1>1, <1>4, NonBlankIs
  <2>2. z \in Nat /\ z >= 5
    BY <1>1, <2>1
  <2> QED BY <2>1, <2>2
<1>6. At(b, z) \in ToSet(Digits)
  <2>1. KeyField(b).ok <=> At(b, z) \in ToSet(Digits)
    BY <1>4, Zenon DEF KeyField, Field
  <2> QED BY <2>1, OutcomeNeeds
<1>7. j \in ToSet(Digits) /\ j # Space /\ j # NUL
  <2>1. At(b, z) # NUL /\ At(b, z) # Space
    <3>1. \A d \in ToSet(Digits) : d # NUL /\ d # Space
      BY DigitIs DEF Digit
    <3> QED BY <1>6, <3>1
  <2>2. At(b, z) = j
    BY <1>2, <1>5, <2>1
  <2> QED BY <1>6, <2>1, <2>2
<1>8. ~KeyField(b).found
  <2>1. PICK y : y = From(b, 5, {Space, NUL})
    OBVIOUS
  <2>2. KeyField(b).found <=> At(b, y) = Space
    BY <2>1, Zenon DEF KeyField, Field, Space
  <2>3. y \in 5 .. (5 + LineMax + 1)
    BY <1>1, <2>1, FromIs
  <2>4. At(b, y) = j \/ At(b, y) = NUL
    BY <1>1, <1>2, <2>3
  <2> QED BY <1>7, <2>2, <2>4, CharsDiffer
<1>9. KeyField(b).len = 0
  BY <1>8, OutcomeNeeds
<1>10. PICK p : p = KeyField(b).at
  OBVIOUS
<1>11. p \in Nat \ {0}
  BY <1>1, <1>10, FieldIs DEF KeyField
<1>12. PICK g : g = From(b, p, {NUL})
  OBVIOUS
<1>13. g \in Nat /\ g - p >= 0
  <2>1. g \in p .. (p + LineMax + 1)
    BY <1>1, <1>11, <1>12, FromIs
  <2> QED BY <1>1, <1>11, <2>1
<1>14. Least(0, g - p) = 0
  BY <1>11, <1>13 DEF Least
<1>15. Key(b) = [i \in 1 .. 0 |-> b[p + i - 1]]
  BY <1>9, <1>10, <1>12, <1>14, Zenon DEF Key, CString
<1> QED BY <1>15

LEMMA FitsEndsOnce == ASSUME NEW c \in Cmds, Fits(c) PROVE EndsOnce(Record(c))
<1>1. PICK r : r = [cmd |-> c, len |-> Len(Record(c))]
  OBVIOUS
<1>2. r.cmd = c /\ r.len = Len(Record(c))
  BY <1>1
<1>3. OneLine(r)
  BY <1>2 DEF OneLine, Whole
<1> QED BY <1>2, <1>3, LineReads
-----------------------------------------------------------------------------
(* The replay of a log whose last record is cut off. *)

\* nothing is wrong with the log but that its last record may be cut off: the
\* commands are one line each, and no other record was torn
TailOnly ==
  \A i \in DOMAIN recs : Fits(recs[i].cmd) /\ (Whole(recs[i]) \/ i = Len(recs))
Torn == TailOnly /\ ~Undamaged

\* what the n-th record left in the buffer b behind its name
Left(b, n) ==
  IF n = 0 THEN \E j : \A i \in 1 .. LineMax : b[i] = j
  ELSE \A t \in 5 .. (Len(Record(recs[n].cmd)) - 1) : b[t] = Record(recs[n].cmd)[t]

\* the map d is what all records but the last amount to, for the keys that the last
\* does not touch
ReflectsBut(d) ==
  \A k \in Keys : ~Touches(Len(recs), k) =>
    /\ k \in DOMAIN d => \E i \in 1 .. Len(recs) - 1 : recs[i].cmd.key = k
    /\ \A i \in 1 .. Len(recs) - 1 :
         recs[i].cmd.key = k /\ IsLast(i, Len(recs) - 1) => Shows(d, recs[i].cmd)

\* all that the line b can do is to a key that the last record touches
TornLine(b) == Outcome(b) \in {"set", "del"} /\ Key(b) \in Keys => Touches(Len(recs), Key(b))

(* All records but the last are one line each, and of the last there is a part. *)
LEMMA TornIs ==
  ASSUME LogInv, Torn
  PROVE  /\ Len(recs) \in 1 .. Len(recs) /\ Len(recs) - 1 \in Nat
         /\ \A i \in 1 .. Len(recs) - 1 : OneLine(recs[i]) /\ Whole(recs[i]) /\ i \in 1 .. Len(recs)
         /\ Fits(Latest.cmd) /\ Latest.cmd \in Cmds /\ ~Whole(Latest)
         /\ Latest.len \in 1 .. (Len(Record(Latest.cmd)) - 1)
<1>1. DOMAIN recs = 1 .. Len(recs) /\ Len(recs) \in Nat
  BY DomainRecs
<1>2. /\ \A i \in 1 .. Len(recs) : Fits(recs[i].cmd) /\ (Whole(recs[i]) \/ i = Len(recs))
      /\ \E i \in 1 .. Len(recs) : ~OneLine(recs[i])
  BY <1>1 DEF Torn, TailOnly, Undamaged
<1>3. Len(recs) \in 1 .. Len(recs) /\ ~Whole(Latest) /\ Fits(Latest.cmd)
  BY <1>2 DEF OneLine, Latest
<1>4. ASSUME NEW i \in 1 .. Len(recs) - 1
      PROVE  OneLine(recs[i]) /\ Whole(recs[i]) /\ i \in 1 .. Len(recs)
  <2>1. Len(recs) \in Nat
    BY <1>1
  <2>2. i \in 1 .. Len(recs) /\ i # Len(recs)
    BY <2>1
  <2> QED BY <1>2, <2>2 DEF OneLine
<1>5. Latest.cmd \in Cmds /\ Latest.len \in 1 .. (Len(Record(Latest.cmd)) - 1)
  <2>1. Latest.cmd \in Cmds /\ Latest.len \in 1 .. Len(Record(Latest.cmd))
    BY <1>1, <1>3, RecordsTyped DEF Latest
  <2>2. Latest.len # Len(Record(Latest.cmd)) /\ Len(Record(Latest.cmd)) \in Nat
    BY <1>3, <2>1, RecordLen DEF Whole
  <2> QED BY <2>1, <2>2
<1> QED BY <1>1, <1>3, <1>4, <1>5

(* fgets takes what there is of the last record. *)
LEMMA ReadsTorn ==
  ASSUME LogInv, TypeOK, Len(line) = LineMax, pending = <<>>, pos < Len(file), Torn,
         Latest.from = pos + 1
  PROVE  /\ pos + Taken = Len(file)
         /\ Fetched \in Seq(Characters) /\ Cut(Fetched, Record(Latest.cmd), Latest.len)
         /\ \A t \in (Latest.len + 2) .. LineMax : Fetched[t] = line[t]
<1>1. PICK c, R, L, f : c = Latest.cmd /\ R = Record(c) /\ L = Latest.len /\ f = Latest.from
  OBVIOUS
<1>2. /\ Tiled(recs, file) /\ Len(file) \in Nat /\ pos \in Nat /\ c \in Cmds
      /\ file \in Seq(Characters) /\ line \in Seq(Characters) /\ NUL \in Characters
      /\ LineMax \in Nat
  <2>1. Tiled(recs, file) /\ Len(file) \in Nat /\ c \in Cmds
    BY <1>1, FileTiled, TornIs
  <2>2. pos \in Nat /\ file \in Seq(Characters) /\ line \in Seq(Characters)
    BY <2>1 DEF TypeOK
  <2>3. NUL \in Characters
    BY Zenon DEF Characters
  <2> QED BY <2>1, <2>2, <2>3, SizeAssumption
<1>3. /\ L \in 1 .. (Len(R) - 1) /\ Len(R) \in Nat /\ Len(R) < LineMax
      /\ Len(R) > 3 /\ \A t \in 1 .. (Len(R) - 2) : R[t] # Newline
  <2>1. EndsOnce(R) /\ Len(R) < LineMax
    BY <1>1, <1>2, TornIs, FitsEndsOnce DEF Fits
  <2> QED BY <1>1, <2>1, TornIs DEF EndsOnce
<1>4. pos + L = Len(file) /\ \A t \in 1 .. L : file[pos + t] = R[t]
  <2>1. Len(recs) \in 1 .. Len(recs) /\ recs # <<>>
    <3>1. Len(recs) \in 1 .. Len(recs)
      BY TornIs
    <3> QED BY <3>1
  <2>2. f + L = Len(file) + 1 /\ \A t \in 1 .. L : file[f + t - 1] = R[t]
    BY <1>1, <1>2, <2>1, Zenon DEF Tiled, Latest
  <2>3. f = pos + 1
    BY <1>1
  <2>4. pos + L = Len(file) /\ \A t \in 1 .. L : f + t - 1 = pos + t
    BY <1>2, <1>3, <2>2, <2>3
  <2> QED BY <2>2, <2>4
<1>5. PICK n : n = Taken
  OBVIOUS
<1>6. /\ n \in 1 .. (LineMax - 1) /\ pos + n <= Len(file)
      /\ n = LineMax - 1 \/ pos + n = Len(file) \/ file[pos + n] = Newline
  BY <1>2, <1>5, TakenIs
<1>7. n = L
  <2> SUFFICES ASSUME n # L PROVE FALSE
    OBVIOUS
  <2>1. n < L /\ n \in 1 .. L /\ n \in 1 .. (Len(R) - 2) /\ n # LineMax - 1 /\ pos + n # Len(file)
    BY <1>2, <1>3, <1>4, <1>6
  <2> QED BY <1>3, <1>4, <1>6, <2>1
<1>8. /\ Fetched \in Seq(Characters) /\ Len(Fetched) = LineMax
      /\ \A t \in 1 .. L : Fetched[t] = file[pos + t]
      /\ Fetched[L + 1] = NUL
      /\ \A t \in (L + 2) .. LineMax : Fetched[t] = line[t]
  BY <1>2, <1>5, <1>7, FetchedIs
<1>9. \A t \in 1 .. L : Fetched[t] = R[t]
  BY <1>4, <1>8, Zenon
<1>10. Cut(Fetched, R, L)
  BY <1>3, <1>8, <1>9, Zenon DEF Cut
<1> QED BY <1>1, <1>4, <1>5, <1>7, <1>8, <1>10

(* What it does is to a key that the record touches. *)
LEMMA TornTouches ==
  ASSUME LogInv, TypeOK, Len(line) = LineMax, pending = <<>>, pos < Len(file), Torn, CStrings,
         Latest.from = pos + 1, Left(line, Len(recs) - 1)
  PROVE  TornLine(Fetched)
<1>1. PICK b, c, L, n : b = Fetched /\ c = Latest.cmd /\ L = Latest.len /\ n = Len(recs)
  OBVIOUS
<1>2. /\ b \in Seq(Characters) /\ Cut(b, Record(c), L)
      /\ \A t \in (L + 2) .. LineMax : b[t] = line[t]
  BY <1>1, ReadsTorn
<1>3. c \in Cmds /\ ~Clean(n) /\ recs[n] = Latest /\ n \in Nat \ {0} /\ n - 1 \in Nat
  <2>1. ~OneLine(recs[n])
    BY <1>1, TornIs DEF OneLine, Latest
  <2> QED BY <1>1, <2>1, TornIs DEF Clean, Latest
<1>4. PICK R, key, K : R = Record(c) /\ key = c.key /\ K = Len(c.key)
  OBVIOUS
<1>5. Starts(R, key, K)
  BY <1>3, <1>4, RecordStarts
<1> SUFFICES ASSUME Outcome(b) \in {"set", "del"}, Key(b) \in Keys
             PROVE  Touches(n, Key(b))
  BY <1>1 DEF TornLine
<1>6. L = 3 \/ IsPrefix(Key(b), key)
  BY <1>2, <1>4, <1>5, CutReads
<1>7. CASE IsPrefix(Key(b), key)
  BY <1>1, <1>3, <1>4, <1>7 DEF Touches
<1>8. CASE L = 3
  <2>1. Len(b) = LineMax /\ LineMax \in Nat /\ LineMax > 5 /\ \A t \in 5 .. LineMax : b[t] = line[t]
    <3>1. Len(b) = LineMax /\ Len(R) < LineMax
      BY <1>2, <1>4, Zenon DEF Cut
    <3>2. K \in 1 .. 9 /\ Len(R) \in Nat /\ Len(R) >= K + 7
      BY <1>5, Zenon DEF Starts
    <3> QED BY <1>2, <1>8, <3>1, <3>2, SizeAssumption
  <2>2. CASE n = 1
    <3>1. PICK j : \A t \in 1 .. LineMax : line[t] = j
      BY <1>1, <2>2 DEF Left
    <3>2. \A t \in 5 .. LineMax : b[t] = j
      BY <2>1, <3>1
    <3>3. Key(b) = <<>>
      BY <1>2, <2>1, <3>2, NameOnJunk
    <3>4. PICK a \in Cmds : a.key = <<>>
      BY <3>3 DEF Keys
    <3>5. Len(a.key) \in 1 .. 9
      BY CmdStrings
    <3> QED BY <3>4, <3>5
  <2>3. CASE n # 1
    <3>1. n - 1 \in 1 .. n - 1 /\ n - 1 # 0 /\ n > 1
      BY <1>3, <2>3
    <3>2. OneLine(recs[n - 1]) /\ recs[n - 1].cmd \in Cmds
      <4>1. OneLine(recs[n - 1]) /\ n - 1 \in DOMAIN recs
        BY <1>1, <3>1, TornIs, DomainRecs
      <4> QED BY <4>1, RecordsTyped
    <3>3. PICK d, S, k, M : d = recs[n - 1].cmd /\ S = Record(d) /\ k = d.key /\ M = Len(d.key)
      OBVIOUS
    <3>4. Starts(S, k, M) /\ Len(S) < LineMax
      BY <3>2, <3>3, RecordStarts DEF OneLine, Fits
    <3>5. Len(S) \in Nat
      BY <3>4, Zenon DEF Starts
    <3>6. \A t \in 5 .. (Len(S) - 1) : line[t] = S[t]
      BY <1>1, <3>1, <3>3 DEF Left
    <3>7. \A t \in 5 .. (Len(S) - 1) : b[t] = S[t]
      BY <2>1, <3>4, <3>5, <3>6
    <3>8. \A i \in 1 .. M : k[i] # NUL
      <4>1. k \in Seq(Alphabet) /\ M = Len(k)
        BY <3>4, Zenon DEF Starts
      <4>2. \A i \in 1 .. M : k[i] \in ToSet(k)
        BY <4>1, Elements
      <4>3. NUL \notin ToSet(k)
        BY <3>2, <3>3 DEF CStrings
      <4> QED BY <4>2, <4>3
    <3>9. Key(b) = k
      BY <1>2, <2>1, <3>4, <3>7, <3>8, NameAlone
    <3>10. recs[n].len = 3
      BY <1>1, <1>3, <1>8
    <3> QED BY <3>1, <3>3, <3>9, <3>10 DEF Touches
  <2> QED BY <2>2, <2>3
<1> QED BY <1>6, <1>7, <1>8

\* A replay that meets a torn record meets it last, behind all others.
TailInv ==
  Torn =>
    /\ phase = "replay" =>
         \/ \E n \in 0 .. Len(recs) - 1 : Behind(pos, n) /\ Left(line, n) /\ Reflects(asked, n)
         \/ pos = Len(file) /\ ReflectsBut(asked)
    /\ phase = "parse" =>
         \/ \E n \in 0 .. Len(recs) - 1 : Behind(pos, n) /\ Left(line, n) /\ Parses(n)
         \/ pos = Len(file) /\ TornLine(line) /\ Reflects(asked, Len(recs) - 1)
    /\ phase = "serving" /\ fresh => ReflectsBut(asked)

LEMMA SameTorn ==
  ASSUME recs' = recs
  PROVE  /\ Torn' <=> Torn
         /\ \A n : Left(line, n)' <=> Left(line', n)
         /\ ReflectsBut(asked)' <=> ReflectsBut(asked')
         /\ TornLine(line)' <=> TornLine(line')
<1>1. \A i : Clean(i)' <=> Clean(i)
  BY DEF Clean, OneLine
<1>2. \A i, k : Touches(i, k)' <=> Touches(i, k)
  BY <1>1 DEF Touches
<1>3. Torn' <=> Torn
  BY DEF Torn, TailOnly, Undamaged
<1>4. \A n : Left(line, n)' <=> Left(line', n)
  BY DEF Left
<1>5. ReflectsBut(asked)' <=> ReflectsBut(asked')
  BY <1>2 DEF ReflectsBut, IsLast
<1>6. TornLine(line)' <=> TornLine(line')
  BY <1>2 DEF TornLine
<1> QED BY <1>3, <1>4, <1>5, <1>6

(* fgets moves the replay behind the next record, or to the end of the file. *)
LEMMA TailReads ==
  ASSUME LogInv, TypeOK, Buffer, TailInv, Torn, CStrings, ReadLine
  PROVE  \/ \E n \in 0 .. Len(recs) - 1 :
              /\ Behind(pos + Taken, n) /\ Left(Fetched, n)
              /\ \/ LeadsTo(Fetched, "skip") /\ Reflects(asked, n)
                 \/ n # 0 /\ Does(Fetched, recs[n].cmd) /\ Reflects(asked, n - 1)
         \/ pos + Taken = Len(file) /\ TornLine(Fetched) /\ Reflects(asked, Len(recs) - 1)
<1>1. /\ phase = "replay" /\ pos < Len(file) /\ pending = <<>> /\ Len(line) = LineMax
      /\ pos \in Nat /\ Len(file) \in Nat
  <2>1. phase = "replay" /\ pos < Len(file)
    BY DEF ReadLine
  <2>2. Len(file) \in Nat
    BY LogIs
  <2>3. pending = <<>> /\ Len(line) = LineMax /\ pos \in 0 .. Len(file)
    BY <2>1 DEF LogInv, Buffer, TypeOK
  <2> QED BY <2>1, <2>2, <2>3
<1>2. PICK n \in 0 .. Len(recs) - 1 : Behind(pos, n) /\ Left(line, n) /\ Reflects(asked, n)
  BY <1>1 DEF TailInv
<1>3. Len(recs) \in Nat /\ n \in Nat /\ n \in 0 .. Len(recs)
  BY DomainRecs
<1>4. \A i \in 1 .. Len(recs) - 1 : OneLine(recs[i]) /\ i \in 1 .. Len(recs)
  BY TornIs
<1>5. CASE n # 0 /\ recs[n].from + recs[n].len = pos + 2
  <2>1. n \in 1 .. Len(recs) - 1 /\ n \in 1 .. Len(recs) /\ OneLine(recs[n])
    BY <1>3, <1>4, <1>5
  <2>2. /\ Behind(pos + Taken, n) /\ LeadsTo(Fetched, "skip")
        /\ \A t \in 3 .. LineMax : Fetched[t] = line[t]
    BY <1>1, <1>5, <2>1, ReadsNewline
  <2>3. Len(Record(recs[n].cmd)) < LineMax /\ Len(Record(recs[n].cmd)) \in Nat /\ LineMax \in Nat
    <3>1. recs[n].cmd \in Cmds
      BY <2>1, DomainRecs, RecordsTyped
    <3> QED BY <2>1, <3>1, RecordLen, SizeAssumption DEF OneLine, Fits
  <2>4. \A t \in 5 .. (Len(Record(recs[n].cmd)) - 1) : t \in 3 .. LineMax
    BY <2>3
  <2>5. Left(Fetched, n)
    BY <1>2, <1>5, <2>2, <2>4 DEF Left
  <2> QED BY <1>2, <2>2, <2>5
<1>6. CASE EndOf(pos, n)
  <2>1. n + 1 \in 1 .. Len(recs) /\ recs[n + 1].from = pos + 1
    BY <1>1, <1>3, <1>6, NextRecord
  <2>2. CASE n + 1 # Len(recs)
    <3>1. n + 1 \in 1 .. Len(recs) - 1 /\ n + 1 \in 0 .. Len(recs) - 1 /\ n + 1 # 0 /\ n + 1 - 1 = n
      BY <1>3, <2>1, <2>2
    <3>2. OneLine(recs[n + 1])
      BY <1>4, <3>1
    <3>3. /\ Behind(pos + Taken, n + 1) /\ Does(Fetched, recs[n + 1].cmd)
          /\ Holds(Fetched, Record(recs[n + 1].cmd))
      BY <1>1, <2>1, <3>2, ReadsRecord
    <3>4. \A t \in 5 .. (Len(Record(recs[n + 1].cmd)) - 1) :
             t \in 1 .. (Len(Record(recs[n + 1].cmd)) - 1)
      OBVIOUS
    <3>5. Left(Fetched, n + 1)
      BY <3>1, <3>3, <3>4 DEF Left, Holds
    <3> QED BY <1>2, <3>1, <3>3, <3>5
  <2>3. CASE n + 1 = Len(recs)
    <3>1. n = Len(recs) - 1 /\ Latest.from = pos + 1
      BY <1>3, <2>1, <2>3 DEF Latest
    <3>2. pos + Taken = Len(file)
      BY <1>1, <3>1, ReadsTorn
    <3>3. TornLine(Fetched)
      BY <1>1, <1>2, <3>1, TornTouches
    <3> QED BY <1>2, <3>1, <3>2, <3>3
  <2> QED BY <2>2, <2>3
<1> QED BY <1>2, <1>5, <1>6 DEF Behind, EndOf

(* To ask for one key leaves the others. *)
LEMMA AskKeeps ==
  ASSUME NEW d, NEW c, NEW k, k # c.key
  PROVE  /\ k \in DOMAIN Ask(d, c) <=> k \in DOMAIN d
         /\ k \in DOMAIN d => Ask(d, c)[k] = d[k]
BY Zenon DEF Ask

(* A line that can only reach what the last record touches leaves the rest alone. *)
LEMMA TornParses ==
  ASSUME TornLine(line), Reflects(asked, Len(recs) - 1), ParseSkip \/ ParseSet \/ ParseDel
  PROVE  ReflectsBut(asked')
<1>1. ASSUME NEW k \in Keys, ~Touches(Len(recs), k)
      PROVE  (k \in DOMAIN asked' <=> k \in DOMAIN asked) /\ (k \in DOMAIN asked => asked'[k] = asked[k])
  <2>1. CASE ParseSkip
    BY <2>1 DEF ParseSkip
  <2>2. CASE ParseSet
    <3>1. Outcome(line) = "set" /\ asked' = Ask(asked, SetOf(Key(line), Val(line)))
      BY <2>2, Zenon DEF ParseSet, Parsed
    <3>2. Key(line) # k
      BY <1>1, <3>1 DEF TornLine
    <3>3. SetOf(Key(line), Val(line)).key = Key(line)
      BY DEF SetOf
    <3> QED BY <3>1, <3>2, <3>3, AskKeeps
  <2>3. CASE ParseDel
    <3>1. Outcome(line) = "del" /\ asked' = Ask(asked, DelOf(Key(line)))
      BY <2>3, Zenon DEF ParseDel, Parsed
    <3>2. Key(line) # k
      BY <1>1, <3>1 DEF TornLine
    <3>3. DelOf(Key(line)).key = Key(line)
      BY DEF DelOf
    <3> QED BY <3>1, <3>2, <3>3, AskKeeps
  <2> QED BY <2>1, <2>2, <2>3
<1>2. \A k \in Keys : ~Touches(Len(recs), k) /\ k \in DOMAIN asked' =>
        \E i \in 1 .. Len(recs) - 1 : recs[i].cmd.key = k
  BY <1>1 DEF Reflects
<1>3. ASSUME NEW k \in Keys, ~Touches(Len(recs), k), NEW i \in 1 .. Len(recs) - 1,
             recs[i].cmd.key = k, IsLast(i, Len(recs) - 1)
      PROVE  Shows(asked', recs[i].cmd)
  <2>1. Shows(asked, recs[i].cmd)
    BY <1>3 DEF Reflects
  <2> QED BY <1>1, <1>3, <2>1 DEF Shows
<1> QED BY <1>2, <1>3 DEF ReflectsBut

(* The end of the replay is behind the last record. *)
LEMMA TailEnds ==
  ASSUME LogInv, TypeOK, TailInv, Torn, ReplayEnds
  PROVE  ReflectsBut(asked)
<1>1. phase = "replay" /\ pos = Len(file) /\ pending = <<>>
  BY DEF ReplayEnds, LogInv
<1> SUFFICES ASSUME NEW n \in 0 .. Len(recs) - 1, Behind(pos, n) PROVE FALSE
  BY <1>1 DEF TailInv
<1>2. /\ Len(recs) \in Nat /\ Len(recs) \in 1 .. Len(recs) /\ Len(file) \in Nat
      /\ Tiled(recs, file)
      /\ \A i \in 1 .. Len(recs) :
           /\ recs[i].from \in Nat \ {0} /\ recs[i].len \in Nat \ {0}
           /\ recs[i].from + recs[i].len <= Len(file) + 1
  BY <1>1, FileTiled, TornIs
<1>3. CASE n = 0
  <2>1. pos = 0
    BY <1>3 DEF Behind
  <2>2. Latest.from + Latest.len <= 1 /\ Latest.from \in Nat \ {0} /\ Latest.len \in Nat \ {0}
    BY <1>1, <1>2, <2>1 DEF Latest
  <2> QED BY <2>2
<1>4. CASE n # 0
  <2>1. n \in 1 .. Len(recs) /\ Len(recs) \in 1 .. Len(recs) /\ n < Len(recs)
    BY <1>2, <1>4
  <2>2. recs[n].from + recs[n].len <= Latest.from
    BY <1>2, <2>1, Zenon DEF Tiled, Latest
  <2>3. recs[n].from + recs[n].len \in {pos + 1, pos + 2}
    BY <1>4 DEF Behind
  <2>4. Latest.from + Latest.len <= pos + 1 /\ Latest.from \in Nat \ {0} /\ Latest.len \in Nat \ {0}
    BY <1>1, <1>2 DEF Latest
  <2>5. recs[n].from \in Nat /\ recs[n].len \in Nat /\ pos \in Nat
    BY <1>1, <1>2, <2>1
  <2> QED BY <2>2, <2>3, <2>4, <2>5
<1> QED BY <1>3, <1>4

(* One step of the replay of a torn log. *)
LEMMA TailStep ==
  ASSUME LogInv, TypeOK, Buffer, ReplayInv, TailInv, CStrings, [Next]_vars
  PROVE  TailInv'
<1>1. Len(recs) \in Nat /\ (Torn => 0 \in 0 .. Len(recs) - 1)
  BY DomainRecs, TornIs
<1>2. CASE UNCHANGED <<phase, file, recs, pos, line, asked, fresh>>
  BY <1>2, SameRecs, SameTorn DEF TailInv, Parses, Does, LeadsTo, Overruns
<1>3. CASE Start
  <2>1. /\ phase = "down" /\ phase' = "replay" /\ UNCHANGED <<recs, pos, asked>>
        /\ \E j \in Junk : line' = [i \in 1 .. LineMax |-> j]
    BY <1>3 DEF Start, logVars
  <2>2. pos' = 0 /\ asked' = NoKeys
    BY <2>1 DEF ReplayInv
  <2>3. Behind(pos', 0) /\ Reflects(asked', 0)
    BY <2>2, ReflectsNothing DEF Behind
  <2>4. Left(line', 0)
    BY <2>1 DEF Left
  <2>5. Torn => \E n \in 0 .. Len(recs) - 1 :
                  Behind(pos', n) /\ Left(line', n) /\ Reflects(asked', n)
    BY <1>1, <2>3, <2>4
  <2> QED BY <2>1, <2>5, SameRecs, SameTorn DEF TailInv
<1>4. CASE ReadLine
  <2>1. /\ phase = "replay" /\ phase' = "parse" /\ pos' = pos + Taken
        /\ line' = Fetched /\ UNCHANGED <<file, recs, asked>>
    BY <1>4 DEF ReadLine, logVars
  <2> SUFFICES ASSUME Torn
               PROVE  \/ \E n \in 0 .. Len(recs) - 1 :
                           Behind(pos, n)' /\ Left(line, n)' /\ Parses(n)'
                      \/ pos' = Len(file) /\ TornLine(line)' /\ Reflects(asked, Len(recs) - 1)
    BY <2>1, SameRecs, SameTorn DEF TailInv
  <2>2. CASE pos + Taken = Len(file) /\ TornLine(Fetched) /\ Reflects(asked, Len(recs) - 1)
    BY <2>1, <2>2, SameTorn
  <2>3. ASSUME NEW n \in 0 .. Len(recs) - 1, Behind(pos + Taken, n), Left(Fetched, n),
               \/ LeadsTo(Fetched, "skip") /\ Reflects(asked, n)
               \/ n # 0 /\ Does(Fetched, recs[n].cmd) /\ Reflects(asked, n - 1)
        PROVE  Behind(pos, n)' /\ Left(line, n)' /\ Parses(n)'
    <3>1. Behind(pos, n)' /\ Left(line, n)'
      BY <2>1, <2>3, SameRecs, SameTorn
    <3>2. Parses(n)'
      BY <2>1, <2>3, SameRecs DEF Parses, Does, LeadsTo
    <3> QED BY <3>1, <3>2
  <2> QED BY <1>4, <2>2, <2>3, TailReads
<1>5. CASE ParseSkip \/ ParseSet \/ ParseDel
  <2>1. /\ phase = "parse" /\ phase' = "replay" /\ UNCHANGED <<file, recs, pos, line>>
    BY <1>5 DEF ParseSkip, ParseSet, ParseDel, Parsed, logVars, bootVars
  <2> SUFFICES ASSUME Torn
               PROVE  \/ \E n \in 0 .. Len(recs) - 1 :
                           Behind(pos, n) /\ Left(line, n) /\ Reflects(asked', n)
                      \/ pos = Len(file) /\ ReflectsBut(asked')
    BY <2>1, SameRecs, SameTorn DEF TailInv
  <2>2. CASE pos = Len(file) /\ TornLine(line) /\ Reflects(asked, Len(recs) - 1)
    BY <1>5, <2>2, TornParses
  <2>3. ASSUME NEW n \in 0 .. Len(recs) - 1, Behind(pos, n), Left(line, n), Parses(n)
        PROVE  Reflects(asked', n)
    <3>1. n \in 0 .. Len(recs)
      BY <1>1
    <3> QED BY <1>5, <2>3, <3>1, ParsesOne
  <2> QED BY <2>1, <2>2, <2>3 DEF TailInv
<1>6. CASE ReplayEnds
  <2>1. phase = "replay" /\ phase' = "serving" /\ UNCHANGED <<recs, asked>>
    BY <1>6 DEF ReplayEnds, logVars
  <2>2. Torn => ReflectsBut(asked)
    BY <1>6, TailEnds
  <2> QED BY <2>1, <2>2, SameTorn DEF TailInv
<1>7. ASSUME NEW c \in Cmds, BeginAppend(c) PROVE TailInv'
  <2>1. phase' = "serving" /\ fresh' = FALSE
    BY <1>7 DEF BeginAppend
  <2> QED BY <2>1 DEF TailInv
<1>8. CASE WriteBlock
  <2>1. /\ phase \notin {"down", "replay", "parse"} /\ phase' = phase
        /\ UNCHANGED <<recs, asked, fresh>>
    BY <1>8 DEF WriteBlock, LogInv
  <2> QED BY <2>1, SameTorn DEF TailInv
<1>9. CASE BeginDbSave \/ BeginRewrite
  BY <1>2, <1>9 DEF BeginDbSave, BeginRewrite, Busy, logVars, bootVars
<1>10. CASE ParseSegv \/ Kill \/ PowerCut
  <2>1. phase' = "down"
    BY <1>10 DEF ParseSegv, Kill, PowerCut, Die
  <2> QED BY <2>1 DEF TailInv
<1>11. CASE UNCHANGED vars
  BY <1>2, <1>11 DEF vars, logVars, bootVars
<1> QED BY <1>3, <1>4, <1>5, <1>6, <1>7, <1>8, <1>9, <1>10, <1>11 DEF Next, Replay

(* To ask for all but what the torn record touches is all that is wanted. *)
LEMMA ReflectsTail ==
  ASSUME LogInv, Torn, ReflectsBut(asked)
  PROVE  DamageIsLocal
<1>1. PICK n : n = Len(recs)
  OBVIOUS
<1>2. DOMAIN recs = 1 .. n /\ n \in Nat \ {0} /\ n \in 1 .. n /\ n - 1 \in Nat
  <2>1. DOMAIN recs = 1 .. n /\ n \in Nat /\ n \in 1 .. n
    BY <1>1, DomainRecs, TornIs
  <2>2. \A m \in Nat : m \in 1 .. m => m \in Nat \ {0} /\ m - 1 \in Nat
    OBVIOUS
  <2> QED BY <2>1, <2>2, Zenon
<1>3. ASSUME NEW i \in 1 .. n - 1, NEW k PROVE Touches(i, k) <=> recs[i].cmd.key = k
  <2>1. OneLine(recs[i]) /\ Whole(recs[i]) /\ i \in 1 .. n
    BY <1>1, TornIs
  <2>2. i = 1 \/ i - 1 \in 1 .. n - 1
    BY <1>2
  <2>3. Clean(i)
    BY <1>1, <2>1, <2>2, TornIs DEF Clean
  <2>4. recs[i].len # 3
    <3>1. recs[i].cmd \in Cmds
      BY <1>2, <2>1, RecordsTyped
    <3>2. EndsOnce(Record(recs[i].cmd))
      BY <2>1, <3>1, LineReads
    <3> QED BY <2>1, <3>2 DEF EndsOnce, Whole
  <2> QED BY <2>3, <2>4, Zenon DEF Touches
<1>4. ~Clean(n)
  BY <1>1, TornIs DEF Clean, OneLine, Latest
<1> SUFFICES ASSUME NEW k \in Keys, NEW S, S = {i \in DOMAIN recs : Touches(i, k)}
             PROVE  IF S = {} THEN k \notin DOMAIN asked
                    ELSE LET i == CHOOSE x \in S : \A y \in S : y <= x
                         IN (Clean(i) /\ recs[i].cmd.key = k) =>
                              k \in DOMAIN asked /\ asked[k] = recs[i].cmd
  BY DEF DamageIsLocal
<1>5. CASE S = {}
  <2>1. ~Touches(n, k) /\ \A i \in 1 .. n : i \notin S
    BY <1>2, <1>5
  <2>2. \A i \in 1 .. n - 1 : recs[i].cmd.key # k
    <3>1. \A i \in 1 .. n - 1 : i \in 1 .. n
      BY <1>2
    <3> QED BY <1>2, <1>3, <1>5, <3>1
  <2>3. k \notin DOMAIN asked
    BY <1>1, <2>1, <2>2 DEF ReflectsBut
  <2> QED BY <1>5, <2>3
<1>6. CASE S # {}
  <2>1. PICK i : i = CHOOSE x \in S : \A y \in S : y <= x
    OBVIOUS
  <2>2. \E x \in S : \A y \in S : y <= x
    BY <1>2, <1>6, LastExists
  <2>3. i \in S /\ \A y \in S : y <= i
    BY <2>1, <2>2
  <2>4. i \in 1 .. n /\ Touches(i, k)
    BY <1>2, <2>3
  <2>5. CASE i = n
    BY <1>4, <1>6, <2>1, <2>5
  <2>6. CASE i # n
    <3>1. i \in 1 .. n - 1 /\ ~(n <= i) /\ \A j \in 1 .. n - 1 : j \in 1 .. n
      BY <1>2, <2>4, <2>6
    <3>2. ~Touches(n, k)
      BY <1>2, <2>3, <3>1
    <3>3. recs[i].cmd.key = k
      BY <1>3, <2>4, <3>1
    <3>4. IsLast(i, n - 1)
      BY <1>2, <1>3, <2>3, <3>1, <3>3 DEF IsLast
    <3>5. Shows(asked, recs[i].cmd)
      BY <1>1, <3>1, <3>2, <3>3, <3>4 DEF ReflectsBut
    <3>6. k \in DOMAIN asked /\ asked[k] = recs[i].cmd
      BY <3>3, <3>5 DEF Shows
    <3> QED BY <1>6, <2>1, <3>6
  <2> QED BY <2>5, <2>6
<1> QED BY <1>5, <1>6

(* Damage is local where nothing is damaged but the end: over a log of commands of  *)
(* one line each whose last record may be torn, at any place, a restart asks the    *)
(* map, of every key that this record does not touch, last for its last command,    *)
(* and of no key that is not in the log, whatever the stack and the lines before    *)
(* left in the buffer (aof.c:154-222).                                              *)
THEOREM TornTailIsLocal ==
  ASSUME CStrings
  PROVE  Spec => [](TailOnly => DamageIsLocal)
<1>1. Init => LogInv /\ TypeOK /\ Buffer /\ ReplayInv /\ TailInv
  <2>1. Init => TailInv
    BY DEF Init, TailInv
  <2> QED BY <2>1, LogInit, TypeInit, ReplayInit
<1>2. LogInv /\ TypeOK /\ Buffer /\ ReplayInv /\ TailInv /\ [Next]_vars
        => (LogInv /\ TypeOK /\ Buffer /\ ReplayInv /\ TailInv)'
  BY LogStep, TypeStep, ReplayStep, TailStep
<1>3. LogInv /\ ReplayInv /\ TailInv => (TailOnly => DamageIsLocal)
  <2> SUFFICES ASSUME LogInv, ReplayInv, TailInv, TailOnly PROVE DamageIsLocal
    OBVIOUS
  <2>1. CASE phase = "serving" /\ fresh
    <3>1. CASE Undamaged
      BY <2>1, <3>1, ReflectsAll DEF ReplayInv
    <3>2. CASE ~Undamaged
      <4>1. Torn
        BY <3>2 DEF Torn
      <4> QED BY <2>1, <4>1, ReflectsTail DEF TailInv
    <3> QED BY <3>1, <3>2
  <2>2. CASE ~(phase = "serving" /\ fresh)
    BY <2>2 DEF DamageIsLocal
  <2> QED BY <2>1, <2>2
<1> QED BY <1>1, <1>2, <1>3, PTL DEF Spec
-----------------------------------------------------------------------------
(* Kills alone do no damage to commands that are one line and one block each: no    *)
(* restart ends over the log, and each asks the map, of every key, last for its     *)
(* last command (aof.c:74, aof.c:154-222).                                          *)
THEOREM KillsDoNoDamage ==
  ASSUME CStrings, \A c \in Cmds : Fits(c) /\ Len(Record(c)) <= Block
  PROVE  Spec => [](cuts = 0 => ~segv /\ Undamaged /\ DamageIsLocal)
<1>1. Spec => []KillTearsOnlyLong
  BY NoShortRecordTorn
<1>2. Spec => []OnlyDamageStopsBoot
  BY OnlyDamageStops
<1>3. Spec => [](Undamaged => DamageIsLocal)
  BY UndamagedIsReplayed
<1>4. Spec => []TypeOK
  BY StorageTyped
<1>5. TypeOK /\ KillTearsOnlyLong => (cuts = 0 => Undamaged)
  BY DEF TypeOK, KillTearsOnlyLong, Undamaged, OneLine
<1>6. OnlyDamageStopsBoot => (Undamaged => ~segv)
  BY DEF OnlyDamageStopsBoot
<1> QED BY <1>1, <1>2, <1>3, <1>4, <1>5, <1>6, PTL
-----------------------------------------------------------------------------
(* The characters are a log of commands. *)

AbsRec(r)  == [cmd |-> r.cmd, whole |-> Whole(r)]
AbsSeq(s)  == [i \in DOMAIN s |-> AbsRec(s[i])]
AbsType    == [cmd : Cmds, whole : BOOLEAN]
Safe(s, d) == {i \in DOMAIN s : s[i].from + s[i].len <= d + 1}

LEMMA AbsSeqIs ==
  ASSUME NEW s \in Seq(RecType)
  PROVE  /\ AbsSeq(s) \in Seq(AbsType) /\ Len(AbsSeq(s)) = Len(s)
         /\ DOMAIN AbsSeq(s) = 1 .. Len(s) /\ DOMAIN s = 1 .. Len(s)
         /\ \A i \in 1 .. Len(s) : AbsSeq(s)[i] = AbsRec(s[i]) /\ AbsRec(s[i]) \in AbsType
<1>1. DOMAIN s = 1 .. Len(s) /\ Len(s) \in Nat /\ \A i \in 1 .. Len(s) : s[i] \in RecType
  OBVIOUS
<1>2. \A r \in RecType : AbsRec(r) \in AbsType
  BY DEF RecType, AbsRec, AbsType, Whole
<1>3. AbsSeq(s) = [i \in 1 .. Len(s) |-> AbsRec(s[i])]
  BY <1>1 DEF AbsSeq
<1>4. AbsSeq(s) \in [1 .. Len(s) -> AbsType]
  BY <1>1, <1>2, <1>3
<1>5. AbsSeq(s) \in Seq(AbsType) /\ Len(AbsSeq(s)) = Len(s)
  BY <1>1, <1>4, FunctionIsSeq
<1> QED BY <1>1, <1>2, <1>3, <1>5

LEMMA AbsAppend ==
  ASSUME NEW s \in Seq(RecType), NEW e \in RecType
  PROVE  AbsSeq(Append(s, e)) = Append(AbsSeq(s), AbsRec(e))
<1>1. PICK q, a, b, c : q = Append(s, e) /\ a = AbsSeq(s) /\ b = AbsSeq(q) /\ c = Append(a, AbsRec(e))
  OBVIOUS
<1>2. /\ q \in Seq(RecType) /\ Len(q) = Len(s) + 1 /\ Len(s) \in Nat
      /\ q[Len(s) + 1] = e /\ \A i \in 1 .. Len(s) : q[i] = s[i]
  BY <1>1
<1>3. AbsRec(e) \in AbsType
  BY DEF RecType, AbsRec, AbsType, Whole
<1>4. /\ a \in Seq(AbsType) /\ Len(a) = Len(s) /\ \A i \in 1 .. Len(s) : a[i] = AbsRec(s[i])
      /\ b \in Seq(AbsType) /\ Len(b) = Len(q) /\ \A i \in 1 .. Len(q) : b[i] = AbsRec(q[i])
  BY <1>1, <1>2, AbsSeqIs
<1>5. /\ c \in Seq(AbsType) /\ Len(c) = Len(s) + 1 /\ c[Len(s) + 1] = AbsRec(e)
      /\ \A i \in 1 .. Len(s) : c[i] = a[i]
  BY <1>1, <1>3, <1>4
<1>6. \A i \in 1 .. Len(q) : i \in 1 .. Len(s) \/ i = Len(s) + 1
  BY <1>2
<1>7. \A i \in 1 .. Len(b) : b[i] = c[i]
  BY <1>2, <1>4, <1>5, <1>6, Zenon
<1>8. b = c
  BY <1>2, <1>4, <1>5, <1>7, SameElements
<1> QED BY <1>1, <1>8

(* The first records of a log, of which the last may be cut off. *)
LEMMA AbsCut ==
  ASSUME NEW s \in Seq(RecType), NEW q \in Seq(RecType), Len(q) <= Len(s),
         \A i \in 1 .. Len(q) : q[i].cmd = s[i].cmd /\ (i = Len(q) \/ q[i].len = s[i].len)
  PROVE  /\ (Len(q) = 0 \/ q[Len(q)].len = s[Len(q)].len)
              => AbsSeq(q) = SubSeq(AbsSeq(s), 1, Len(q))
         /\ Len(q) # 0 /\ ~Whole(q[Len(q)])
              => AbsSeq(q) = [i \in 1 .. Len(q) |->
                                IF i = Len(q) THEN [AbsSeq(s)[i] EXCEPT !.whole = FALSE]
                                ELSE AbsSeq(s)[i]]
<1>1. PICK n, a, b : n = Len(q) /\ a = AbsSeq(s) /\ b = AbsSeq(q)
  OBVIOUS
<1>2. /\ a \in Seq(AbsType) /\ Len(a) = Len(s) /\ \A i \in 1 .. Len(s) : a[i] = AbsRec(s[i])
      /\ b \in Seq(AbsType) /\ Len(b) = n /\ \A i \in 1 .. n : b[i] = AbsRec(q[i])
  BY <1>1, AbsSeqIs
<1>3. n \in Nat /\ n \in 0 .. Len(a) /\ \A i \in 1 .. n : i \in 1 .. Len(s)
  BY <1>1, <1>2
<1>4. ASSUME NEW i \in 1 .. n, q[i].len = s[i].len PROVE b[i] = a[i]
  <2>1. q[i].cmd = s[i].cmd
    BY <1>1
  <2> QED BY <1>2, <1>3, <1>4, <2>1 DEF AbsRec, Whole
<1>5. ASSUME n = 0 \/ q[n].len = s[n].len PROVE b = SubSeq(a, 1, n)
  <2>1. PICK c : c = SubSeq(a, 1, n)
    OBVIOUS
  <2>2. c \in Seq(AbsType) /\ Len(c) = n /\ \A i \in 1 .. n : c[i] = a[i]
    BY <1>2, <1>3, <2>1, Prefix
  <2>3. \A i \in 1 .. n : b[i] = c[i]
    BY <1>1, <1>4, <1>5, <2>2
  <2>4. b = c
    BY <1>2, <2>2, <2>3, SameElements
  <2> QED BY <2>1, <2>4
<1>6. ASSUME n # 0, ~Whole(q[n])
      PROVE  b = [i \in 1 .. n |-> IF i = n THEN [a[i] EXCEPT !.whole = FALSE] ELSE a[i]]
  <2>1. b = [i \in 1 .. n |-> b[i]]
    BY <1>2
  <2>2. n \in 1 .. n /\ b[n] = [a[n] EXCEPT !.whole = FALSE]
    <3>1. n \in 1 .. n
      BY <1>3, <1>6
    <3>2. b[n] = [cmd |-> q[n].cmd, whole |-> FALSE]
      BY <1>2, <1>6, <3>1 DEF AbsRec
    <3>3. a[n] \in [cmd : Cmds, whole : BOOLEAN] /\ a[n].cmd = q[n].cmd
      <4>1. n \in 1 .. Len(s) /\ a[n] = AbsRec(s[n]) /\ q[n].cmd = s[n].cmd
        BY <1>1, <1>2, <1>3, <3>1
      <4>2. a[n] \in AbsType
        BY <1>2, <4>1
      <4>3. AbsRec(s[n]).cmd = s[n].cmd
        BY DEF AbsRec
      <4> QED BY <4>1, <4>2, <4>3 DEF AbsType
    <3>4. \A v : [a[n] EXCEPT !.whole = v] = [cmd |-> a[n].cmd, whole |-> v]
      BY <3>3
    <3>5. [a[n] EXCEPT !.whole = FALSE] = [cmd |-> q[n].cmd, whole |-> FALSE]
      BY <3>3, <3>4, Zenon
    <3> QED BY <3>1, <3>2, <3>5, Zenon
  <2>3. \A i \in 1 .. n : i # n => b[i] = a[i]
    BY <1>1, <1>4
  <2> QED BY <2>1, <2>2, <2>3
<1> QED BY <1>1, <1>5, <1>6

(* What the end of the process or the machine keeps of the records. *)
LEMMA DieKeeps ==
  ASSUME LogInv, NEW kept \in 0 .. Len(file), Die(kept)
  PROVE  /\ recs \in Seq(RecType) /\ recs' \in Seq(RecType) /\ pending' = <<>>
         /\ Len(recs') \in 0 .. Len(recs) /\ Len(recs) \in Nat
         /\ \A i \in 1 .. Len(recs') :
              /\ i \in 1 .. Len(recs) /\ recs[i].from <= kept
              /\ recs'[i].cmd = recs[i].cmd /\ recs'[i].from = recs[i].from
              /\ recs'[i].from + recs'[i].len <= kept + 1
              /\ recs[i].from + recs[i].len <= kept + 1 => recs'[i].len = recs[i].len
              /\ i = Len(recs') \/ recs[i].from + recs[i].len <= kept
              /\ recs[i].from + recs[i].len > kept + 1 => ~Whole(recs'[i])
         /\ \A i \in 1 .. Len(recs) : i > Len(recs') => recs[i].from > kept
<1>1. /\ Tiled(recs, Log) /\ kept \in Nat
      /\ /\ Len(recs) \in Nat /\ recs \in Seq(RecType)
         /\ \A i \in 1 .. Len(recs) :
              /\ recs[i].cmd \in Cmds /\ recs[i].from \in Nat \ {0} /\ recs[i].len \in Nat \ {0}
  <2>1. Tiled(recs, Log) /\ kept \in Nat
    BY DEF LogInv
  <2> QED BY <2>1, TiledFields, DomainRecs
<1>2. /\ Tiled(recs', Log') /\ pending' = <<>> /\ Len(recs') <= Len(recs)
      /\ \A i \in 1 .. Len(recs') :
           /\ i \in 1 .. Len(recs) /\ recs[i].from <= kept
           /\ recs'[i].cmd = recs[i].cmd /\ recs'[i].from = recs[i].from
           /\ recs[i].from + recs[i].len <= kept + 1 => recs'[i].len = recs[i].len
  BY DieCuts, Zenon
<1>3. Len(Log') = kept
  <2>1. file \in Seq(Alphabet) /\ file' = SubSeq(file, 1, kept)
    BY LogIs DEF Die
  <2>2. file' \in Seq(Alphabet) /\ Len(file') = kept
    BY <2>1, Prefix
  <2>3. Log' = file' \o <<>>
    BY <1>2 DEF Log
  <2> QED BY <2>2, <2>3
<1>4. /\ recs' \in Seq(RecType) /\ Len(recs') \in Nat
      /\ \A i \in 1 .. Len(recs') :
           recs'[i].from \in Nat \ {0} /\ recs'[i].len \in Nat \ {0} /\ recs'[i].cmd \in Cmds
           /\ recs'[i].from + recs'[i].len <= kept + 1
  <2>1. recs' \in Seq(RecType)
    BY <1>2 DEF Tiled
  <2>2. /\ Len(recs') \in Nat
        /\ \A i \in 1 .. Len(recs') :
             /\ recs'[i].cmd \in Cmds /\ recs'[i].from \in Nat \ {0} /\ recs'[i].len \in Nat \ {0}
             /\ recs'[i].from + recs'[i].len <= Len(Log') + 1
    BY <1>2, TiledFields
  <2> QED BY <1>3, <2>1, <2>2
<1>5. ASSUME NEW i \in 1 .. Len(recs'), i # Len(recs') PROVE recs[i].from + recs[i].len <= kept
  <2>1. /\ i < Len(recs') /\ Len(recs') \in 1 .. Len(recs')
    BY <1>4, <1>5
  <2>2. i \in 1 .. Len(recs) /\ Len(recs') \in 1 .. Len(recs) /\ recs[Len(recs')].from <= kept
    BY <1>2, <2>1
  <2>3. recs[i].from + recs[i].len <= recs[Len(recs')].from
    BY <1>1, <2>1, <2>2 DEF Tiled
  <2>4. recs[i].from \in Nat /\ recs[i].len \in Nat /\ recs[Len(recs')].from \in Nat
    BY <1>1, <2>2
  <2> QED BY <1>1, <2>2, <2>3, <2>4
<1>6. ASSUME NEW i \in 1 .. Len(recs'), recs[i].from + recs[i].len > kept + 1
      PROVE  ~Whole(recs'[i])
  <2>1. i \in 1 .. Len(recs) /\ recs'[i].cmd = recs[i].cmd /\ recs'[i].from = recs[i].from
    BY <1>2
  <2>2. recs[i].from \in Nat /\ recs[i].len \in Nat /\ recs'[i].len \in Nat
        /\ recs[i].from + recs'[i].len <= kept + 1
    BY <1>1, <1>4, <2>1
  <2>3. recs'[i].len < recs[i].len
    BY <1>1, <1>6, <2>2
  <2>4. recs[i].len <= Len(Record(recs[i].cmd)) /\ Len(Record(recs[i].cmd)) \in Nat
    BY <1>1, <2>1, RecordLen DEF Tiled
  <2> QED BY <2>1, <2>2, <2>3, <2>4 DEF Whole
<1>7. ASSUME NEW i \in 1 .. Len(recs), i > Len(recs') PROVE recs[i].from > kept
  <2>1. recs' = [j \in 1 .. Begun(kept) |->
                    [recs[j] EXCEPT !.len = Least(@, kept + 1 - recs[j].from)]]
    BY DEF Die
  <2>2. /\ Begun(kept) \in 0 .. Len(recs)
        /\ \A j \in 1 .. Len(recs) : j <= Begun(kept) <=> recs[j].from <= kept
    BY <1>1, BegunIs
  <2>3. Len(recs') = Begun(kept)
    BY <1>4, <2>1, <2>2
  <2> QED BY <1>1, <1>7, <2>2, <2>3
<1> QED BY <1>1, <1>2, <1>4, <1>5, <1>6, <1>7

\* what stdio holds of a record is not on the disk, and what was asked is a function
DiskInv == pending # <<>> => durable < Latest.from
MapInv  == asked = [k \in DOMAIN asked |-> asked[k]]

LEMMA DiskStep == LogInv /\ DiskInv /\ [Next]_vars => DiskInv'
<1> SUFFICES ASSUME LogInv, DiskInv, [Next]_vars PROVE DiskInv'
  OBVIOUS
<1>1. CASE UNCHANGED <<pending, durable, recs>>
  BY <1>1 DEF DiskInv, Latest
<1>2. ASSUME NEW c \in Cmds, BeginAppend(c) PROVE DiskInv'
  <2>1. PICK e : e = [cmd |-> c, from |-> Len(file) + 1, len |-> Len(Record(c))]
    OBVIOUS
  <2>2. e \in RecType /\ e.from = Len(file) + 1
    <3>1. Len(file) \in Nat /\ Len(Record(c)) \in Nat \ {0}
      BY LogIs, RecordLen
    <3> QED BY <2>1, <3>1 DEF RecType
  <2>3. recs' = Append(recs, e) /\ durable' = durable
    BY <1>2, <2>1 DEF BeginAppend
  <2>4. Latest' = e
    BY <2>2, <2>3, DomainRecs, AppendEndsIn DEF Latest
  <2>5. durable \in 0 .. Len(file) /\ Len(file) \in Nat
    BY LogIs DEF LogInv, FileInv
  <2> QED BY <2>2, <2>3, <2>4, <2>5 DEF DiskInv
<1>3. CASE WriteBlock
  <2>1. /\ pending # <<>> /\ recs' = recs
        /\ durable' \in IF pending' = <<>> THEN {durable, Len(file')} ELSE {durable}
    BY <1>3 DEF WriteBlock
  <2>2. pending' # <<>> => durable' = durable
    BY <2>1
  <2> QED BY <2>1, <2>2 DEF DiskInv, Latest
<1>4. CASE Kill \/ PowerCut
  <2>1. pending' = <<>>
    BY <1>4 DEF Kill, PowerCut, Die
  <2> QED BY <2>1 DEF DiskInv
<1>5. CASE Start \/ Replay
  BY <1>1, <1>5 DEF Start, Replay, ReadLine, ParseSkip, ParseSet, ParseDel, Parsed, ParseSegv,
                    ReplayEnds, logVars
<1>6. CASE BeginDbSave \/ BeginRewrite
  BY <1>1, <1>6 DEF BeginDbSave, BeginRewrite, Busy, logVars
<1>7. CASE UNCHANGED vars
  BY <1>1, <1>7 DEF vars, logVars
<1> QED BY <1>2, <1>3, <1>4, <1>5, <1>6, <1>7 DEF Next

LEMMA MapStep == MapInv /\ [Next]_vars => MapInv'
<1> SUFFICES ASSUME MapInv, [Next]_vars PROVE MapInv'
  OBVIOUS
<1>1. \A d, c : Ask(d, c) = [x \in DOMAIN Ask(d, c) |-> Ask(d, c)[x]]
  <2> SUFFICES ASSUME NEW d, NEW c, NEW e, e = Ask(d, c)
               PROVE  e = [x \in DOMAIN e |-> e[x]]
    OBVIOUS
  <2>1. e = [x \in DOMAIN d \cup {c.key} |-> IF x = c.key THEN c ELSE d[x]]
    BY Zenon DEF Ask
  <2> QED BY <2>1
<1>3. NoKeys = [x \in DOMAIN NoKeys |-> NoKeys[x]]
  BY DEF NoKeys
<1>4. ASSUME NEW c \in Cmds, BeginAppend(c) PROVE MapInv'
  <2>1. asked' = Ask(asked, c)
    BY <1>4, Zenon DEF BeginAppend
  <2> QED BY <1>1, <2>1, Zenon DEF MapInv
<1>5. CASE ParseSet
  <2>1. asked' = Ask(asked, SetOf(Key(line), Val(line)))
    BY <1>5, Zenon DEF ParseSet
  <2> QED BY <1>1, <2>1, Zenon DEF MapInv
<1>6. CASE ParseDel
  <2>1. asked' = Ask(asked, DelOf(Key(line)))
    BY <1>6, Zenon DEF ParseDel
  <2> QED BY <1>1, <2>1, Zenon DEF MapInv
<1>7. CASE ParseSegv \/ Kill \/ PowerCut
  <2>1. asked' = NoKeys
    BY <1>7 DEF ParseSegv, Kill, PowerCut, Die
  <2> QED BY <1>3, <2>1, Zenon DEF MapInv
<1>8. CASE \/ Start \/ ReadLine \/ ParseSkip \/ ReplayEnds \/ WriteBlock \/ BeginDbSave
           \/ BeginRewrite \/ UNCHANGED vars
  <2>1. asked' = asked
    BY <1>8 DEF Start, ReadLine, ParseSkip, ReplayEnds, WriteBlock, BeginDbSave, BeginRewrite, vars
  <2> QED BY <2>1 DEF MapInv
<1> QED BY <1>4, <1>5, <1>6, <1>7, <1>8 DEF Next, Replay

(* To be asked for all records is to be asked for what their commands amount to. *)
LEMMA ReflectsAmounts ==
  ASSUME LogInv, MapInv, Reflects(asked, Len(recs)), NEW l, l = AbsSeq(recs)
  PROVE  asked = AbsLog!Amounts(l)
<1>1. /\ DOMAIN l = 1 .. Len(recs) /\ Len(recs) \in Nat
      /\ \A i \in 1 .. Len(recs) : l[i].cmd = recs[i].cmd /\ recs[i].cmd \in Cmds
  <2>1. /\ DOMAIN l = 1 .. Len(recs) /\ \A i \in 1 .. Len(recs) : l[i] = AbsRec(recs[i])
    BY DomainRecs, AbsSeqIs
  <2>2. \A i \in 1 .. Len(recs) : recs[i].cmd \in Cmds
    BY DomainRecs, RecordsTyped
  <2> QED BY <2>1, <2>2, DomainRecs DEF AbsRec
<1>2. ASSUME NEW i \in 1 .. Len(recs), NEW k, k = recs[i].cmd.key
      PROVE  k \in DOMAIN asked /\ asked[k] = AbsLog!Last(l, k)
  <2>1. PICK S : S = AbsLog!On(l, k)
    OBVIOUS
  <2>2. S = {j \in 1 .. Len(recs) : recs[j].cmd.key = k} /\ i \in S
    BY <1>1, <1>2, <2>1 DEF AbsLog!On
  <2>3. PICK n : n = CHOOSE j \in S : \A m \in S : m <= j
    OBVIOUS
  <2>4. \E j \in S : \A m \in S : m <= j
    BY <1>1, <2>2, LastExists
  <2>5. n \in S /\ \A m \in S : m <= n
    BY <2>3, <2>4
  <2>6. AbsLog!Last(l, k) = l[n].cmd
    BY <2>1, <2>3, Zenon DEF AbsLog!Last
  <2>7. n \in 1 .. Len(recs) /\ recs[n].cmd.key = k /\ IsLast(n, Len(recs))
    BY <2>2, <2>5 DEF IsLast
  <2>8. AbsLog!Last(l, k) = recs[n].cmd /\ recs[n].cmd \in Cmds
    BY <1>1, <2>6, <2>7
  <2>9. Shows(asked, recs[n].cmd)
    BY <2>7 DEF Reflects
  <2> QED BY <2>7, <2>8, <2>9 DEF Shows
<1>3. \A k \in DOMAIN asked : \E i \in 1 .. Len(recs) : recs[i].cmd.key = k
  BY DEF Reflects
<1>4. PICK D : D = {l[i].cmd.key : i \in DOMAIN l}
  OBVIOUS
<1>5. D = DOMAIN asked
  <2>1. D = {recs[i].cmd.key : i \in 1 .. Len(recs)}
    BY <1>1, <1>4
  <2>2. \A k \in DOMAIN asked : k \in D
    BY <1>3, <2>1, Zenon
  <2>3. \A k \in D : k \in DOMAIN asked
    BY <1>2, <2>1, Zenon
  <2> QED BY <2>2, <2>3
<1>6. \A k \in DOMAIN asked : asked[k] = AbsLog!Last(l, k)
  BY <1>2, <1>3, Zenon
<1>7. asked = [k \in DOMAIN asked |-> AbsLog!Last(l, k)]
  BY <1>6 DEF MapInv
<1> QED BY <1>4, <1>5, <1>7, Zenon DEF AbsLog!Amounts

(* What the steps of the abstract log say of the mapping. *)
LEMMA AbsAdd ==
  ASSUME NEW c \in Cmds, phase = "serving", phase' = "serving", pending = <<>>, pending' # <<>>,
         AbsSeq(recs') = Append(AbsSeq(recs), [cmd |-> c, whole |-> TRUE]),
         Safe(recs', durable') = Safe(recs, durable),
         asked' = Ask(asked, c)
  PROVE  AbsLog!Add(c)
<1>1. AbsLog!Ask(asked, c) = Ask(asked, c)
  BY Zenon DEF AbsLog!Ask, Ask
<1>2. (IF phase' = "serving" THEN asked' ELSE NoKeys)
        = AbsLog!Ask(IF phase = "serving" THEN asked ELSE NoKeys, c)
  BY <1>1
<1> QED BY <1>2 DEF AbsLog!Add, AbsSeq, AbsRec, Safe

LEMMA AbsStutter ==
  ASSUME AbsSeq(recs') = AbsSeq(recs), Safe(recs', durable') = Safe(recs, durable),
         pending' = <<>> <=> pending = <<>>, phase' = "serving" <=> phase = "serving",
         phase = "serving" => asked' = asked
  PROVE  UNCHANGED AbsLog!logVars
<1>1. (IF phase' = "serving" THEN asked' ELSE NoKeys) = (IF phase = "serving" THEN asked ELSE NoKeys)
  OBVIOUS
<1>2. (pending' # <<>>) = (pending # <<>>) /\ (phase' = "serving") = (phase = "serving")
  OBVIOUS
<1> QED BY <1>1, <1>2 DEF AbsLog!logVars, AbsSeq, AbsRec, Safe

LEMMA AbsAnswer ==
  ASSUME pending # <<>>, pending' = <<>>, AbsSeq(recs') = AbsSeq(recs), phase' = phase, asked' = asked,
         Safe(recs', durable') \in {Safe(recs, durable), DOMAIN recs}
  PROVE  AbsLog!Answer
<1>1. DOMAIN AbsSeq(recs) = DOMAIN recs
  BY DEF AbsSeq
<1> QED BY <1>1 DEF AbsLog!Answer, AbsSeq, AbsRec, Safe

LEMMA AbsKill ==
  ASSUME pending' = <<>>, phase' = "down", Safe(recs', durable') = Safe(recs, durable),
         pending = <<>> => AbsSeq(recs') = AbsSeq(recs),
         pending # <<>> =>
           \/ AbsSeq(recs') = SubSeq(AbsSeq(recs), 1, Len(AbsSeq(recs)) - 1)
           \/ AbsSeq(recs') = AbsLog!Torn(Len(AbsSeq(recs)))
  PROVE  AbsLog!Kill
<1>1. AbsLog!Stop
  BY DEF AbsLog!Stop, AbsLog!NoKeys, NoKeys
<1> QED BY <1>1 DEF AbsLog!Kill, AbsSeq, AbsRec, Safe

LEMMA AbsPowerCut ==
  ASSUME pending' = <<>>, phase' = "down", NEW n \in 0 .. Len(recs), Len(AbsSeq(recs)) = Len(recs),
         Safe(recs, durable) \subseteq 1 .. n, Safe(recs', durable') = 1 .. n,
         \/ AbsSeq(recs') = SubSeq(AbsSeq(recs), 1, n)
         \/ n \notin Safe(recs, durable) /\ AbsSeq(recs') = AbsLog!Torn(n)
  PROVE  AbsLog!PowerCut
<1>1. AbsLog!Stop
  BY DEF AbsLog!Stop, AbsLog!NoKeys, NoKeys
<1> QED BY <1>1, Zenon DEF AbsLog!PowerCut, AbsSeq, AbsRec, Safe

LEMMA AbsRecover ==
  ASSUME phase # "serving", phase' = "serving", UNCHANGED <<recs, pending, durable>>,
         (\A i \in DOMAIN recs : Whole(recs[i]) /\ Fits(recs[i].cmd))
           => asked' = AbsLog!Amounts(AbsSeq(recs)),
         \A i \in DOMAIN recs : recs[i].cmd \in Cmds
  PROVE  AbsLog!Recover
<1>1. \A i \in DOMAIN recs : AbsSeq(recs)[i].cmd = recs[i].cmd /\ AbsSeq(recs)[i].whole = Whole(recs[i])
  BY DEF AbsSeq, AbsRec
<1>2. DOMAIN AbsSeq(recs) = DOMAIN recs
  BY DEF AbsSeq
<1>3. (\A i \in DOMAIN AbsSeq(recs) :
         AbsSeq(recs)[i].whole /\ AbsSeq(recs)[i].cmd \in {c \in Cmds : Fits(c)})
        => asked' = AbsLog!Amounts(AbsSeq(recs))
  BY <1>1, <1>2
<1> QED BY <1>3 DEF AbsLog!Recover, AbsSeq, AbsRec, Safe

LogRefInv == LogInv /\ TypeOK /\ Buffer /\ ReplayInv /\ DiskInv /\ MapInv

(* A handler that has begun its record has added its command. *)
LEMMA BeginAdds ==
  ASSUME LogInv, NEW c \in Cmds, BeginAppend(c)
  PROVE  AbsLog!Add(c)
<1>1. /\ phase = "serving" /\ phase' = phase /\ pending = <<>> /\ durable' = durable
      /\ pending' = Record(c)
      /\ asked' = Ask(asked, c)
  BY DEF BeginAppend
<1>2. PICK e : e = [cmd |-> c, from |-> Len(file) + 1, len |-> Len(Record(c))]
  OBVIOUS
<1>3. /\ Len(file) \in Nat /\ Len(Record(c)) \in Nat \ {0} /\ Record(c) # <<>>
      /\ durable \in 0 .. Len(file) /\ recs \in Seq(RecType) /\ Len(recs) \in Nat
  BY LogIs, RecordLen, DomainRecs DEF LogInv, FileInv
<1>4. e \in RecType /\ e.cmd = c /\ e.from = Len(file) + 1 /\ e.len = Len(Record(c))
  BY <1>2, <1>3 DEF RecType
<1>5. recs' = Append(recs, e)
  BY <1>2 DEF BeginAppend
<1>6. AbsSeq(recs') = Append(AbsSeq(recs), [cmd |-> c, whole |-> TRUE])
  <2>1. AbsRec(e) = [cmd |-> c, whole |-> TRUE]
    BY <1>4 DEF AbsRec, Whole
  <2> QED BY <1>3, <1>4, <1>5, <2>1, AbsAppend
<1>7. Safe(recs', durable') = Safe(recs, durable)
  <2>1. /\ DOMAIN recs' = 1 .. (Len(recs) + 1) /\ DOMAIN recs = 1 .. Len(recs)
        /\ \A i \in 1 .. Len(recs) : recs'[i] = recs[i]
        /\ recs'[Len(recs) + 1] = e
    BY <1>3, <1>4, <1>5
  <2>2. ~(e.from + e.len <= durable + 1)
    BY <1>3, <1>4
  <2>3. \A i : i \in 1 .. (Len(recs) + 1) <=> i \in 1 .. Len(recs) \/ i = Len(recs) + 1
    BY <1>3
  <2> QED BY <1>1, <2>1, <2>2, <2>3 DEF Safe
<1> QED BY <1>1, <1>3, <1>6, <1>7, AbsAdd

(* Between two appends all records are in the file. *)
LEMMA FileEnds ==
  LogInv /\ pending = <<>> => \A i \in DOMAIN recs : recs[i].from + recs[i].len <= Len(file) + 1
BY FileTiled, DomainRecs

LEMMA FileEndsNext ==
  (LogInv /\ pending = <<>> => \A i \in DOMAIN recs : recs[i].from + recs[i].len <= Len(file) + 1)'
BY FileEnds, PTL

(* The end of a record is the answer, and what fsync may follow makes all safe. *)
LEMMA WriteAnswers ==
  ASSUME LogInv, LogInv', WriteBlock
  PROVE  AbsLog!Answer \/ UNCHANGED AbsLog!logVars
<1>1. /\ pending # <<>> /\ UNCHANGED <<phase, recs, asked>>
      /\ durable' \in IF pending' = <<>> THEN {durable, Len(file')} ELSE {durable}
  BY DEF WriteBlock
<1>2. CASE pending' # <<>>
  BY <1>1, <1>2, AbsStutter
<1>3. CASE pending' = <<>> /\ durable' = durable
  BY <1>1, <1>3, AbsAnswer
<1>4. CASE pending' = <<>> /\ durable' = Len(file')
  <2>2. \A i \in DOMAIN recs' : recs'[i].from + recs'[i].len <= Len(file') + 1
    BY <1>4, FileEndsNext
  <2>3. Safe(recs', durable') = DOMAIN recs
    BY <1>1, <1>4, <2>2 DEF Safe
  <2> QED BY <1>1, <1>4, <2>3, AbsAnswer
<1> QED BY <1>1, <1>2, <1>3, <1>4

(* A kill loses the command that is in the stdio buffer, or tears it. *)
LEMMA KillKills ==
  ASSUME LogInv, DiskInv, Kill
  PROVE  AbsLog!Kill
<1>1. /\ Die(Len(file)) /\ durable' = durable /\ phase' = "down" /\ Len(file) \in Nat
      /\ Len(file) \in 0 .. Len(file) /\ durable \in 0 .. Len(file)
      /\ Len(pending) \in Nat /\ Len(Log) = Len(file) + Len(pending)
      /\ pending \in Seq(Alphabet)
  <2>1. Len(file) \in Nat /\ Len(pending) \in Nat /\ Len(Log) = Len(file) + Len(pending)
        /\ pending \in Seq(Alphabet)
    BY LogIs
  <2>2. Len(file) \in 0 .. Len(file)
    BY <2>1
  <2> QED BY <2>1, <2>2 DEF Kill, Die, LogInv, FileInv
<1>2. PICK q, n, m, F : q = recs' /\ n = Len(recs') /\ m = Len(recs) /\ F = Len(file)
  OBVIOUS
<1>3. /\ recs \in Seq(RecType) /\ q \in Seq(RecType) /\ pending' = <<>>
      /\ n = Len(q) /\ n \in 0 .. m /\ m \in Nat
      /\ \A i \in 1 .. n :
           /\ i \in 1 .. m /\ recs[i].from <= F
           /\ q[i].cmd = recs[i].cmd /\ q[i].from = recs[i].from
           /\ q[i].from + q[i].len <= F + 1
           /\ recs[i].from + recs[i].len <= F + 1 => q[i].len = recs[i].len
           /\ i = n \/ recs[i].from + recs[i].len <= F
           /\ recs[i].from + recs[i].len > F + 1 => ~Whole(q[i])
      /\ \A i \in 1 .. m : i > n => recs[i].from > F
  BY <1>1, <1>2, DieKeeps
<1>4. /\ Tiled(recs, Log)
      /\ \A i \in 1 .. m : /\ recs[i].from \in Nat \ {0} /\ recs[i].len \in Nat \ {0}
                           /\ recs[i].from + recs[i].len <= Len(Log) + 1
  BY <1>2, TiledFields DEF LogInv
<1>5. AbsSeq(recs) \in Seq(AbsType) /\ Len(AbsSeq(recs)) = m
  BY <1>2, <1>3, AbsSeqIs
<1>6. DOMAIN recs = 1 .. m /\ DOMAIN q = 1 .. n
  BY <1>2, <1>3
<1>7. CASE pending = <<>>
  <2>1. Len(Log) = F
    BY <1>1, <1>2, <1>7, LogIs
  <2>2. ASSUME NEW i \in 1 .. m PROVE recs[i].from <= F /\ recs[i].from + recs[i].len <= F + 1
    BY <1>1, <1>2, <1>4, <2>1
  <2>3. n = m
    <3> SUFFICES ASSUME n # m PROVE FALSE
      OBVIOUS
    <3>1. m \in 1 .. m /\ m > n
      BY <1>3
    <3>2. recs[m].from > F /\ recs[m].from <= F /\ recs[m].from \in Nat
      BY <1>3, <1>4, <2>2, <3>1
    <3> QED BY <1>1, <1>2, <3>2
  <2>4. \A i \in 1 .. m : q[i].cmd = recs[i].cmd /\ q[i].from = recs[i].from /\ q[i].len = recs[i].len
    BY <1>3, <2>2, <2>3
  <2>5. AbsSeq(q) = AbsSeq(recs)
    <3>1. AbsSeq(q) = [i \in 1 .. m |-> AbsRec(q[i])] /\ AbsSeq(recs) = [i \in 1 .. m |-> AbsRec(recs[i])]
      BY <1>6, <2>3 DEF AbsSeq
    <3>2. \A i \in 1 .. m : AbsRec(q[i]) = AbsRec(recs[i])
      BY <2>4 DEF AbsRec, Whole
    <3> QED BY <3>1, <3>2
  <2>6. Safe(q, durable) = Safe(recs, durable)
    BY <1>6, <2>3, <2>4 DEF Safe
  <2> QED BY <1>1, <1>2, <1>3, <1>7, <2>5, <2>6, AbsKill
<1>8. CASE pending # <<>>
  <2>1. /\ recs # <<>> /\ Latest.from <= F + 1 /\ durable < Latest.from
        /\ m \in 1 .. m /\ m # 0
    BY <1>2, <1>8, DomainRecs DEF LogInv, DiskInv
  <2>2. Latest.from + Latest.len = Len(Log) + 1 /\ Len(pending) # 0
    BY <1>1, <1>4, <1>8, <2>1, EmptyIs DEF Tiled, Latest
  <2>3. PICK f, k : f = Latest.from /\ k = Latest.len /\ f = recs[m].from /\ k = recs[m].len
    BY <1>2 DEF Latest
  <2>4. f \in Nat \ {0} /\ k \in Nat \ {0} /\ f + k > F + 1 /\ f <= F + 1 /\ durable < f
        /\ F \in Nat /\ durable \in 0 .. F
    BY <1>1, <1>2, <1>4, <2>1, <2>2, <2>3
  <2>5. ASSUME NEW i \in 1 .. m, i # m PROVE recs[i].from + recs[i].len <= f
    BY <1>2, <1>3, <1>4, <2>1, <2>3, <2>5 DEF Tiled
  <2>6. CASE f = F + 1
    <3>1. n = m - 1
      <4>1. n # m
        <5> SUFFICES ASSUME n = m PROVE FALSE
          OBVIOUS
        <5>1. f <= F
          BY <1>3, <2>1, <2>3
        <5> QED BY <2>4, <2>6, <5>1
      <4>2. ~(n < m - 1)
        <5> SUFFICES ASSUME n < m - 1 PROVE FALSE
          OBVIOUS
        <5>1. m - 1 \in 1 .. m /\ m - 1 > n /\ m - 1 # m
          BY <1>3
        <5>2. recs[m - 1].from > F /\ recs[m - 1].from + recs[m - 1].len <= f
              /\ recs[m - 1].from \in Nat /\ recs[m - 1].len \in Nat \ {0}
          BY <1>3, <1>4, <2>5, <5>1
        <5> QED BY <2>4, <2>6, <5>2
      <4> QED BY <1>3, <4>1, <4>2
    <3>2. ASSUME NEW i \in 1 .. n
          PROVE  /\ i \in 1 .. m /\ i # m /\ recs[i].from + recs[i].len <= F + 1
                 /\ q[i].len = recs[i].len /\ q[i].from = recs[i].from
      <4>1. i \in 1 .. m /\ i # m
        BY <1>3, <3>1
      <4>2. recs[i].from + recs[i].len <= F + 1
        BY <2>5, <2>6, <4>1
      <4> QED BY <1>3, <4>1, <4>2
    <3>3. AbsSeq(q) = SubSeq(AbsSeq(recs), 1, n)
      <4>1. n = 0 \/ n \in 1 .. n
        BY <1>3
      <4>2. Len(q) <= Len(recs)
        BY <1>2, <1>3
      <4> QED BY <1>3, <3>2, <4>1, <4>2, AbsCut
    <3>4. Safe(q, durable) = Safe(recs, durable)
      <4>1. ~(recs[m].from + recs[m].len <= durable + 1)
        BY <2>3, <2>4
      <4>2. \A i \in 1 .. m : i \in 1 .. n \/ i = m
        BY <1>3, <3>1
      <4> QED BY <1>6, <3>2, <4>1, <4>2 DEF Safe
    <3> QED BY <1>1, <1>2, <1>3, <1>5, <1>8, <3>1, <3>3, <3>4, AbsKill
  <2>7. CASE f # F + 1
    <3>1. f <= F
      BY <2>4, <2>7
    <3>2. n = m
      <4> SUFFICES ASSUME n # m PROVE FALSE
        OBVIOUS
      <4>1. m > n
        BY <1>3
      <4>2. recs[m].from > F
        BY <1>3, <2>1, <4>1
      <4> QED BY <2>3, <2>4, <3>1, <4>2
    <3>3. ~Whole(q[m])
      BY <1>3, <2>1, <2>3, <2>4, <3>2
    <3>4. ASSUME NEW i \in 1 .. m, i # m
          PROVE  q[i].len = recs[i].len /\ q[i].from = recs[i].from
      <4>1. recs[i].from + recs[i].len <= f /\ recs[i].from \in Nat /\ recs[i].len \in Nat
        BY <1>4, <2>5, <3>4
      <4>2. recs[i].from + recs[i].len <= F + 1
        BY <2>4, <4>1
      <4> QED BY <1>3, <3>2, <4>2
    <3>5. AbsSeq(q) = AbsLog!Torn(m)
      <4>1. Len(q) = m /\ m # 0 /\ Len(q) <= Len(recs) /\ ~Whole(q[Len(q)])
        BY <1>2, <1>3, <2>1, <3>2, <3>3
      <4>2. \A i \in 1 .. Len(q) : q[i].cmd = recs[i].cmd /\ (i = Len(q) \/ q[i].len = recs[i].len)
        BY <1>3, <3>2, <3>4, <4>1
      <4>3. Len(q) # 0 /\ ~Whole(q[Len(q)])
        BY <4>1
      <4>4. AbsSeq(q) = [i \in 1 .. Len(q) |->
                           IF i = Len(q) THEN [AbsSeq(recs)[i] EXCEPT !.whole = FALSE]
                           ELSE AbsSeq(recs)[i]]
        BY <1>3, <4>1, <4>2, <4>3, AbsCut, Zenon
      <4>5. AbsSeq(q) = [i \in 1 .. m |->
                           IF i = m THEN [AbsSeq(recs)[i] EXCEPT !.whole = FALSE]
                           ELSE AbsSeq(recs)[i]]
        BY <4>1, <4>4, Zenon
      <4> QED BY <4>5 DEF AbsLog!Torn, AbsSeq, AbsRec
    <3>6. Safe(q, durable) = Safe(recs, durable)
      <4>1. ~(recs[m].from + recs[m].len <= durable + 1)
        BY <2>3, <2>4
      <4>2. q[m].from = f /\ q[m].len \in Nat \ {0}
        <5>1. q[m] \in RecType
          <6>1. q \in Seq(RecType) /\ Len(q) = m /\ m \in 1 .. m
            BY <1>3, <2>1, <3>2
          <6> QED BY <6>1
        <5> QED BY <1>3, <2>1, <2>3, <3>2, <5>1 DEF RecType
      <4>3. ~(q[m].from + q[m].len <= durable + 1)
        BY <2>4, <4>2
      <4> QED BY <1>6, <3>2, <3>4, <4>1, <4>3 DEF Safe
    <3> QED BY <1>1, <1>2, <1>3, <1>5, <1>8, <3>5, <3>6, AbsKill
  <2> QED BY <2>6, <2>7
<1> QED BY <1>7, <1>8

(* A power cut keeps the records that begin in what it leaves, the last of them *)
(* cut off if it does not end there; those that were synced end there.          *)
LEMMA CutCuts ==
  ASSUME LogInv, PowerCut
  PROVE  AbsLog!PowerCut
<1>1. PICK kept \in durable .. Len(file) : Die(kept) /\ durable' = kept
  BY DEF PowerCut
<1>2. /\ durable \in Nat /\ kept \in Nat /\ durable <= kept /\ kept \in 0 .. Len(file)
      /\ phase' = "down"
  <2>1. durable \in 0 .. Len(file) /\ Len(file) \in Nat
    BY LogIs DEF LogInv, FileInv
  <2>2. phase' = "down"
    BY <1>1 DEF Die
  <2> QED BY <1>1, <2>1, <2>2
<1>3. PICK q, n, m : q = recs' /\ n = Len(recs') /\ m = Len(recs)
  OBVIOUS
<1>4. /\ recs \in Seq(RecType) /\ q \in Seq(RecType) /\ pending' = <<>>
      /\ n = Len(q) /\ n \in 0 .. m /\ m \in Nat
      /\ \A i \in 1 .. n :
           /\ i \in 1 .. m /\ recs[i].from <= kept
           /\ q[i].cmd = recs[i].cmd /\ q[i].from = recs[i].from
           /\ q[i].from + q[i].len <= kept + 1
           /\ recs[i].from + recs[i].len <= kept + 1 => q[i].len = recs[i].len
           /\ i = n \/ recs[i].from + recs[i].len <= kept
           /\ recs[i].from + recs[i].len > kept + 1 => ~Whole(q[i])
      /\ \A i \in 1 .. m : i > n => recs[i].from > kept
  BY <1>1, <1>2, <1>3, DieKeeps
<1>5. \A i \in 1 .. m : recs[i].from \in Nat \ {0} /\ recs[i].len \in Nat \ {0}
  BY <1>3, TiledFields DEF LogInv
<1>6. DOMAIN recs = 1 .. m /\ DOMAIN q = 1 .. n /\ Len(AbsSeq(recs)) = m
  BY <1>3, <1>4, AbsSeqIs
<1>7. Safe(recs, durable) \subseteq 1 .. n
  <2> SUFFICES ASSUME NEW i \in 1 .. m, recs[i].from + recs[i].len <= durable + 1
               PROVE  i \in 1 .. n
    BY <1>6 DEF Safe
  <2>1. recs[i].from <= kept
    BY <1>2, <1>5
  <2>2. ~(i > n)
    BY <1>2, <1>4, <1>5, <2>1
  <2> QED BY <1>4, <2>2
<1>8. Safe(q, kept) = 1 .. n
  BY <1>4, <1>6 DEF Safe
<1>9. \A i \in 1 .. n : i = n \/ q[i].len = recs[i].len
  <2> SUFFICES ASSUME NEW i \in 1 .. n, i # n PROVE q[i].len = recs[i].len
    OBVIOUS
  <2>1. recs[i].from + recs[i].len <= kept /\ recs[i].from \in Nat /\ recs[i].len \in Nat
    BY <1>4, <1>5
  <2>2. recs[i].from + recs[i].len <= kept + 1
    BY <1>2, <2>1
  <2> QED BY <1>4, <2>2
<1>10. \A i \in 1 .. Len(q) : q[i].cmd = recs[i].cmd /\ (i = Len(q) \/ q[i].len = recs[i].len)
  BY <1>4, <1>9
<1>11. Len(q) <= Len(recs)
  BY <1>3, <1>4
<1>12. CASE n = 0 \/ q[n].len = recs[n].len
  <2>1. Len(q) = 0 \/ q[Len(q)].len = recs[Len(q)].len
    BY <1>4, <1>12, Zenon
  <2>2. AbsSeq(q) = SubSeq(AbsSeq(recs), 1, Len(q))
    BY <1>4, <1>10, <1>11, <2>1, AbsCut
  <2>3. AbsSeq(q) = SubSeq(AbsSeq(recs), 1, n)
    BY <1>4, <2>2, Zenon
  <2> QED BY <1>1, <1>2, <1>3, <1>4, <1>6, <1>7, <1>8, <2>3, AbsPowerCut
<1>13. CASE n # 0 /\ q[n].len # recs[n].len
  <2>1. n \in 1 .. n
    BY <1>4, <1>13
  <2>2. recs[n].from + recs[n].len > kept + 1
    <3>1. ~(recs[n].from + recs[n].len <= kept + 1)
      BY <1>4, <1>13, <2>1
    <3>2. n \in 1 .. m /\ recs[n].from \in Nat /\ recs[n].len \in Nat
      BY <1>4, <1>5, <2>1
    <3> QED BY <1>2, <3>1, <3>2
  <2>3. Len(q) # 0 /\ ~Whole(q[Len(q)])
    BY <1>4, <1>13, <2>1, <2>2
  <2>4. AbsSeq(q) = [i \in 1 .. Len(q) |->
                       IF i = Len(q) THEN [AbsSeq(recs)[i] EXCEPT !.whole = FALSE]
                       ELSE AbsSeq(recs)[i]]
    BY <1>4, <1>10, <1>11, <2>3, AbsCut, Zenon
  <2>5. AbsSeq(q) = [i \in 1 .. n |->
                       IF i = n THEN [AbsSeq(recs)[i] EXCEPT !.whole = FALSE]
                       ELSE AbsSeq(recs)[i]]
    BY <1>4, <2>4, Zenon
  <2>6. AbsSeq(q) = AbsLog!Torn(n)
    BY <2>5 DEF AbsLog!Torn, AbsSeq, AbsRec
  <2>7. n \notin Safe(recs, durable)
    <3>1. n \in 1 .. m /\ recs[n].from \in Nat /\ recs[n].len \in Nat
      BY <1>4, <1>5, <2>1
    <3>2. ~(recs[n].from + recs[n].len <= durable + 1)
      BY <1>2, <2>2, <3>1
    <3> QED BY <3>2 DEF Safe
  <2> QED BY <1>1, <1>2, <1>3, <1>4, <1>6, <1>7, <1>8, <2>6, <2>7, AbsPowerCut
<1> QED BY <1>12, <1>13

(* A restart over records that can be read asks the map for them. *)
LEMMA EndRecovers ==
  ASSUME CStrings, LogRefInv, ReplayEnds
  PROVE  AbsLog!Recover
<1>1. phase = "replay" /\ phase' = "serving" /\ UNCHANGED <<logVars, asked>>
  BY DEF ReplayEnds
<1>2. \A i \in DOMAIN recs : recs[i].cmd \in Cmds
  BY DEF LogRefInv, TypeOK
<1>3. ASSUME \A i \in DOMAIN recs : Whole(recs[i]) /\ Fits(recs[i].cmd)
      PROVE  asked' = AbsLog!Amounts(AbsSeq(recs))
  <2>1. Undamaged
    BY <1>3 DEF Undamaged, OneLine
  <2>2. Reflects(asked, Len(recs))
    BY <2>1, ReplayMakes DEF LogRefInv
  <2>3. asked = AbsLog!Amounts(AbsSeq(recs))
    BY <2>2, ReflectsAmounts DEF LogRefInv
  <2> QED BY <1>1, <2>3
<1> QED BY <1>1, <1>2, <1>3, AbsRecover DEF logVars

(* The rest of the replay, and the worker, change nothing that the log shows. *)
LEMMA OthersStutter ==
  ASSUME \/ Start \/ ReadLine \/ ParseSkip \/ ParseSet \/ ParseDel \/ ParseSegv
         \/ BeginDbSave \/ BeginRewrite \/ UNCHANGED vars
  PROVE  UNCHANGED AbsLog!logVars
<1>1. /\ UNCHANGED <<recs, pending, durable>>
      /\ phase' = "serving" <=> phase = "serving"
      /\ phase = "serving" => asked' = asked
  BY DEF Start, ReadLine, ParseSkip, ParseSet, ParseDel, Parsed, ParseSegv, BeginDbSave,
         BeginRewrite, Busy, vars, logVars
<1> QED BY <1>1, AbsStutter

LEMMA LogRefInit == Init => LogRefInv /\ AbsLog!Init
<1> SUFFICES ASSUME Init PROVE LogRefInv /\ AbsLog!Init
  OBVIOUS
<1>1. LogInv /\ TypeOK /\ Buffer /\ ReplayInv
  BY LogInit, TypeInit, ReplayInit
<1>2. /\ recs = <<>> /\ pending = <<>> /\ durable = 0 /\ asked = NoKeys /\ phase = "down"
  BY DEF Init
<1>3. DiskInv /\ MapInv
  BY <1>2 DEF DiskInv, MapInv, NoKeys
<1>4. AbsLog!Init
  BY <1>2 DEF AbsLog!Init, AbsLog!NoKeys, NoKeys
<1> QED BY <1>1, <1>3, <1>4 DEF LogRefInv

LEMMA LogRefStep == LogRefInv /\ [Next]_vars => LogRefInv'
BY LogStep, TypeStep, ReplayStep, DiskStep, MapStep DEF LogRefInv

(* Every step of the characters is a step of the log of commands, or none. *)
LEMMA LogRefines ==
  ASSUME CStrings, LogRefInv, LogRefInv', [Next]_vars
  PROVE  [AbsLog!Next]_(AbsLog!logVars)
<1>1. ASSUME NEW c \in Cmds, BeginAppend(c) PROVE AbsLog!Next
  <2>1. AbsLog!Add(c)
    BY <1>1, BeginAdds DEF LogRefInv
  <2> QED BY <2>1 DEF AbsLog!Next
<1>2. CASE WriteBlock
  BY <1>2, WriteAnswers DEF LogRefInv, AbsLog!Next
<1>3. CASE Kill
  <2>1. AbsLog!Kill
    BY <1>3, KillKills DEF LogRefInv
  <2> QED BY <2>1 DEF AbsLog!Next
<1>4. CASE PowerCut
  <2>1. AbsLog!PowerCut
    BY <1>4, CutCuts DEF LogRefInv
  <2> QED BY <2>1 DEF AbsLog!Next
<1>5. CASE ReplayEnds
  <2>1. AbsLog!Recover
    BY <1>5, EndRecovers
  <2> QED BY <2>1 DEF AbsLog!Next
<1>6. CASE \/ Start \/ ReadLine \/ ParseSkip \/ ParseSet \/ ParseDel \/ ParseSegv
           \/ BeginDbSave \/ BeginRewrite \/ UNCHANGED vars
  BY <1>6, OthersStutter
<1> QED BY <1>1, <1>2, <1>3, <1>4, <1>5, <1>6 DEF Next, Replay

(* The characters of the log, its stdio buffer and the parser of aof_replay make  *)
(* a log of commands: a kill loses no command but the one that is on its way, a   *)
(* power cut none that was synced, and a restart over records that are one line   *)
(* each asks the map for the last of them on every key (aof.c:96-130,             *)
(* aof.c:140-230).                                                                *)
THEOREM StorageImplementsLog ==
  ASSUME CStrings
  PROVE  Spec => RefinesCommandLog
<1>1. Init => LogRefInv /\ AbsLog!Init
  BY LogRefInit
<1>2. LogRefInv /\ [Next]_vars => LogRefInv'
  BY LogRefStep
<1>3. LogRefInv /\ LogRefInv' /\ [Next]_vars => [AbsLog!Next]_(AbsLog!logVars)
  BY LogRefines
<1> QED BY <1>1, <1>2, <1>3, PTL DEF Spec, RefinesCommandLog, AbsLog!Spec
=============================================================================
