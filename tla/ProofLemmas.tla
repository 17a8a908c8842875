---------------------------- MODULE ProofLemmas ----------------------------
(***************************************************************************)
(* Lemmas for the proofs: remainders, as the masks x & (capacity - 1) of   *)
(* the hash map and of the ring compute them; what Append, Tail and SubSeq *)
(* do to the elements of a sequence; first and last elements of sets of    *)
(* indices.                                                                *)
(***************************************************************************)
EXTENDS Integers, Sequences, SequencesExt, WellFoundedInduction, TLAPS

(* A mask never leaves the array. *)
LEMMA ModInRange ==
  ASSUME NEW n \in Nat, NEW m \in Nat \ {0}
  PROVE  n % m \in 0 .. (m - 1)
OBVIOUS

(* Quotient and remainder. *)
LEMMA DivMod ==
  ASSUME NEW n \in Nat, NEW m \in Nat \ {0}
  PROVE  n \div m \in Nat /\ n = m * (n \div m) + (n % m)
OBVIOUS

(* A positive multiple of m is at least m. *)
LEMMA MultGrows ==
  ASSUME NEW m \in Nat \ {0}, NEW k \in Nat \ {0}
  PROVE  m * k \in Nat /\ m * k >= m
OBVIOUS

(* The remainder is the only number below m that differs from n by a *)
(* multiple of m.                                                     *)
LEMMA ModUnique ==
  ASSUME NEW n \in Nat, NEW m \in Nat \ {0}, NEW q \in Nat, NEW r \in 0 .. (m - 1),
         n = m * q + r
  PROVE  n % m = r
<1> DEFINE d == n \div m
           s == n % m
<1>1. n = m * d + s /\ d \in Nat /\ s \in 0 .. (m - 1)
  BY DivMod, ModInRange
<1> HIDE DEF d, s
<1>2. ~(d < q)
  <2> SUFFICES ASSUME d < q PROVE FALSE
    OBVIOUS
  <2>1. q - d \in Nat \ {0} /\ m * q = m * d + m * (q - d)
    BY <1>1
  <2>2. m * (q - d) \in Nat /\ m * (q - d) >= m
    BY <2>1, MultGrows
  <2> QED BY <1>1, <2>1, <2>2
<1>3. ~(q < d)
  <2> SUFFICES ASSUME q < d PROVE FALSE
    OBVIOUS
  <2>1. d - q \in Nat \ {0} /\ m * d = m * q + m * (d - q)
    BY <1>1
  <2>2. m * (d - q) \in Nat /\ m * (d - q) >= m
    BY <2>1, MultGrows
  <2> QED BY <1>1, <2>1, <2>2
<1>4. q = d /\ r = s
  BY <1>1, <1>2, <1>3
<1> QED BY <1>4 DEF s

(* Masking before an addition does not change the masked sum. *)
LEMMA ModAdd ==
  ASSUME NEW n \in Nat, NEW k \in Nat, NEW m \in Nat \ {0}
  PROVE  ((n % m) + k) % m = (n + k) % m
<1> DEFINE t == (n % m) + k
           q == (n \div m) + (t \div m)
<1>1. n % m \in Nat /\ n \div m \in Nat /\ n = m * (n \div m) + (n % m)
  BY DivMod, ModInRange
<1>2. t \in Nat
  BY <1>1
<1>3. t \div m \in Nat /\ t = m * (t \div m) + (t % m) /\ t % m \in 0 .. (m - 1)
  BY <1>2, DivMod, ModInRange
<1>4. q \in Nat /\ m * q = m * (n \div m) + m * (t \div m)
  BY <1>1, <1>3
<1>5. n + k \in Nat /\ n + k = m * q + (t % m)
  BY <1>1, <1>3, <1>4
<1> HIDE DEF t, q
<1>6. (n + k) % m = t % m
  BY <1>3, <1>4, <1>5, ModUnique
<1> QED BY <1>6 DEF t

(* A counter that wraps at a multiple w of m keeps its remainder. *)
LEMMA ModWrap ==
  ASSUME NEW n \in Nat, NEW m \in Nat \ {0}, NEW w \in Nat \ {0}, w % m = 0
  PROVE  (n % w) % m = n % m
<1> DEFINE a == n \div w
           s == n % w
           b == w \div m
           c == s \div m
           r == s % m
<1>1. a \in Nat /\ s \in Nat /\ n = w * a + s
  BY DivMod, ModInRange
<1>2. b \in Nat /\ w = m * b
  BY DivMod
<1> HIDE DEF a, s, b
<1>3. c \in Nat /\ s = m * c + r /\ r \in 0 .. (m - 1)
  BY <1>1, DivMod, ModInRange
<1> HIDE DEF c, r
<1>4. (b * a) + c \in Nat /\ n = m * ((b * a) + c) + r
  <2>1. b * a \in Nat /\ m * (b * a) = w * a
    BY <1>1, <1>2
  <2>2. m * ((b * a) + c) = m * (b * a) + m * c
    BY <1>3, <2>1
  <2> QED BY <1>1, <1>3, <2>1, <2>2
<1>5. n % m = r
  BY <1>3, <1>4, ModUnique
<1> QED BY <1>5 DEF r, s

(* Two indices less than m apart use two different slots. *)
LEMMA ModDistinct ==
  ASSUME NEW i \in Nat, NEW j \in Nat, NEW m \in Nat \ {0}, i < j, j < i + m
  PROVE  i % m # j % m
<1> DEFINE a == i \div m
           b == j \div m
           r == i % m
<1> SUFFICES ASSUME j % m = r PROVE FALSE
  OBVIOUS
<1>1. a \in Nat /\ r \in Nat /\ i = m * a + r
  BY DivMod, ModInRange
<1>2. b \in Nat /\ j = m * b + r
  BY DivMod
<1> HIDE DEF a, b, r
<1>3. a < b
  <2> SUFFICES ASSUME b <= a PROVE FALSE
    BY <1>1, <1>2
  <2>1. CASE a = b
    BY <1>1, <1>2, <2>1
  <2>2. CASE b < a
    <3>1. a - b \in Nat \ {0} /\ m * a = m * b + m * (a - b)
      BY <1>1, <1>2, <2>2
    <3>2. m * (a - b) \in Nat /\ m * (a - b) >= m
      BY <3>1, MultGrows
    <3> QED BY <1>1, <1>2, <3>1, <3>2
  <2> QED BY <1>1, <1>2, <2>1, <2>2
<1>4. b - a \in Nat \ {0} /\ m * b = m * a + m * (b - a)
  BY <1>1, <1>2, <1>3
<1>5. m * (b - a) \in Nat /\ m * (b - a) >= m
  BY <1>4, MultGrows
<1> QED BY <1>1, <1>2, <1>4, <1>5
-----------------------------------------------------------------------------
(* Sequences. *)

Distinct(s) == \A i, j \in 1 .. Len(s) : s[i] = s[j] => i = j

LEMMA AppendSet ==
  ASSUME NEW S, NEW s \in Seq(S), NEW e \in S
  PROVE  /\ Append(s, e) \in Seq(S)
         /\ ToSet(Append(s, e)) = ToSet(s) \cup {e}
         /\ Append(s, e) # <<>>
<1> DEFINE t == Append(s, e)
<1>1. /\ t \in Seq(S) /\ Len(t) = Len(s) + 1 /\ DOMAIN t = 1 .. Len(s) + 1
      /\ DOMAIN s = 1 .. Len(s) /\ Len(s) \in Nat
      /\ \A i \in 1 .. Len(s) : t[i] = s[i]
      /\ t[Len(s) + 1] = e
  OBVIOUS
<1> HIDE DEF t
<1>2. ToSet(t) \subseteq ToSet(s) \cup {e}
  BY <1>1 DEF ToSet
<1>3. ToSet(s) \subseteq ToSet(t)
  BY <1>1 DEF ToSet
<1>4. e \in ToSet(t)
  BY <1>1 DEF ToSet
<1>5. t # <<>>
  BY <1>1
<1> QED BY <1>1, <1>2, <1>3, <1>4, <1>5 DEF t

LEMMA AppendDistinct ==
  ASSUME NEW S, NEW s \in Seq(S), NEW e \in S, e \notin ToSet(s), Distinct(s)
  PROVE  Distinct(Append(s, e))
BY DEF ToSet, Distinct

LEMMA HeadTailSet ==
  ASSUME NEW S, NEW s \in Seq(S), s # <<>>
  PROVE  /\ Head(s) \in S /\ Head(s) \in ToSet(s)
         /\ Tail(s) \in Seq(S)
         /\ ToSet(Tail(s)) \subseteq ToSet(s)
BY DEF ToSet

LEMMA TailDistinct ==
  ASSUME NEW S, NEW s \in Seq(S), s # <<>>, Distinct(s)
  PROVE  Distinct(Tail(s)) /\ Head(s) \notin ToSet(Tail(s))
BY DEF ToSet, Distinct

LEMMA EmptySet == ToSet(<<>>) = {} /\ Distinct(<<>>)
BY DEF ToSet, Distinct
-----------------------------------------------------------------------------
(* Indices. *)

LEMMA FirstExists ==
  ASSUME NEW S, S \subseteq Nat, S # {}
  PROVE  \E i \in S : \A j \in S : i <= j
<1>1. PICK i \in S : \A j \in S : <<j, i>> \notin OpToRel(<, Nat)
  BY NatLessThanWellFounded, WFMin
<1>2. \A j \in S : ~(j < i)
  BY <1>1 DEF OpToRel
<1> QED BY <1>2

LEMMA LastExists ==
  ASSUME NEW n \in Nat, NEW S, S \subseteq 1 .. n, S # {}
  PROVE  \E i \in S : \A j \in S : j <= i
<1> DEFINE T == {n - i : i \in S}
<1>1. T \subseteq Nat /\ T # {}
  <2>1. \A i \in S : n - i \in Nat
    OBVIOUS
  <2> QED BY <2>1
<1>2. PICK t \in T : \A u \in T : t <= u
  BY <1>1, FirstExists
<1>3. PICK i \in S : t = n - i
  BY <1>2
<1>4. \A j \in S : n - i <= n - j
  BY <1>2, <1>3
<1> QED BY <1>4
-----------------------------------------------------------------------------
(* A prefix keeps its elements in their places. *)
LEMMA Prefix ==
  ASSUME NEW S, NEW s \in Seq(S), NEW n \in 0 .. Len(s)
  PROVE  /\ SubSeq(s, 1, n) \in Seq(S) /\ Len(SubSeq(s, 1, n)) = n
         /\ \A i \in 1 .. n : SubSeq(s, 1, n)[i] = s[i]
         /\ n = Len(s) => SubSeq(s, 1, n) = s
  OBVIOUS
-----------------------------------------------------------------------------
(* Strings written out, and strings one behind the other. *)

LEMMA EmptyIs == ASSUME NEW S, NEW s \in Seq(S) PROVE s = <<>> <=> Len(s) = 0
OBVIOUS

LEMMA FunctionIsSeq ==
  ASSUME NEW S, NEW n \in Nat, NEW f \in [1 .. n -> S]
  PROVE  f \in Seq(S) /\ Len(f) = n
OBVIOUS

LEMMA ByElements ==
  ASSUME NEW S, NEW T, NEW s \in Seq(S), \A i \in 1 .. Len(s) : s[i] \in T
  PROVE  s \in Seq(T)
OBVIOUS

LEMMA Elements ==
  ASSUME NEW S, NEW s \in Seq(S), NEW i \in 1 .. Len(s)
  PROVE  s[i] \in S /\ s[i] \in ToSet(s)
BY DEF ToSet

LEMMA Middle ==
  ASSUME NEW S, NEW s \in Seq(S), NEW m \in 1 .. (Len(s) + 1), NEW n \in 0 .. Len(s),
         m <= n + 1
  PROVE  /\ SubSeq(s, m, n) \in Seq(S) /\ Len(SubSeq(s, m, n)) = n + 1 - m
         /\ \A i \in 1 .. (n + 1 - m) : SubSeq(s, m, n)[i] = s[m + i - 1]
OBVIOUS

LEMMA OneOf ==
  ASSUME NEW T, NEW a \in T
  PROVE  <<a>> \in Seq(T) /\ Len(<<a>>) = 1 /\ <<a>>[1] = a
OBVIOUS

LEMMA FourOf ==
  ASSUME NEW T, NEW a \in T, NEW b \in T, NEW c \in T, NEW d \in T
  PROVE  /\ <<a, b, c, d>> \in Seq(T) /\ Len(<<a, b, c, d>>) = 4
         /\ <<a, b, c, d>>[1] = a /\ <<a, b, c, d>>[2] = b
         /\ <<a, b, c, d>>[3] = c /\ <<a, b, c, d>>[4] = d
OBVIOUS

\* r reads s, then t, then u
ReadsTwo(r, s, t, S) ==
  /\ r \in Seq(S) /\ Len(r) = Len(s) + Len(t)
  /\ \A i \in 1 .. Len(s) : r[i] = s[i]
  /\ \A i \in 1 .. Len(t) : r[Len(s) + i] = t[i]
Reads(r, s, t, u, S) ==
  /\ r \in Seq(S) /\ Len(r) = Len(s) + Len(t) + Len(u)
  /\ \A i \in 1 .. Len(s) : r[i] = s[i]
  /\ \A i \in 1 .. Len(t) : r[Len(s) + i] = t[i]
  /\ \A i \in 1 .. Len(u) : r[Len(s) + Len(t) + i] = u[i]

LEMMA GluedTwo ==
  ASSUME NEW S, NEW s \in Seq(S), NEW t \in Seq(S)
  PROVE  ReadsTwo(s \o t, s, t, S)
BY DEF ReadsTwo

LEMMA GluedThree ==
  ASSUME NEW S, NEW s \in Seq(S), NEW t \in Seq(S), NEW u \in Seq(S)
  PROVE  Reads(s \o t \o u, s, t, u, S)
<1>1. PICK v : v = s \o t
  OBVIOUS
<1>2. ReadsTwo(v, s, t, S)
  BY <1>1, GluedTwo, Zenon
<1>3. PICK r : r = v \o u
  OBVIOUS
<1>4. ReadsTwo(r, v, u, S)
  <2>1. v \in Seq(S)
    BY <1>2 DEF ReadsTwo
  <2> QED BY <2>1, <1>3, GluedTwo, Zenon
<1>5. Reads(r, s, t, u, S)
  BY <1>2, <1>4 DEF ReadsTwo, Reads
<1> QED BY <1>1, <1>3, <1>5, Zenon

LEMMA SamePrefix ==
  ASSUME NEW S, NEW s \in Seq(S), NEW r \in Seq(S), Len(s) <= Len(r),
         \A i \in 1 .. Len(s) : r[i] = s[i], NEW n \in 0 .. Len(s)
  PROVE  SubSeq(r, 1, n) = SubSeq(s, 1, n)
OBVIOUS

LEMMA AppendEndsIn ==
  ASSUME NEW S, NEW s \in Seq(S), NEW e \in S
  PROVE  Append(s, e) # <<>> /\ Append(s, e)[Len(Append(s, e))] = e
OBVIOUS

LEMMA SameElements ==
  ASSUME NEW S, NEW s \in Seq(S), NEW r \in Seq(S), Len(r) = Len(s),
         \A i \in 1 .. Len(s) : r[i] = s[i]
  PROVE  r = s
OBVIOUS

LEMMA SplitAt ==
  ASSUME NEW S, NEW s \in Seq(S), NEW k \in Nat
  PROVE  SubSeq(s, 1, IF k < Len(s) THEN k ELSE Len(s)) \o SubSeq(s, k + 1, Len(s)) = s
<1>1. CASE k < Len(s)
  <2>1. PICK a, b : a = SubSeq(s, 1, k) /\ b = SubSeq(s, k + 1, Len(s))
    OBVIOUS
  <2>2. /\ a \in Seq(S) /\ Len(a) = k /\ \A i \in 1 .. k : a[i] = s[i]
        /\ b \in Seq(S) /\ Len(b) = Len(s) - k /\ \A i \in 1 .. (Len(s) - k) : b[i] = s[k + i]
    <3>1. Len(s) \in Nat /\ k + 1 \in 1 .. (Len(s) + 1)
      BY <1>1
    <3>2. a \in Seq(S) /\ Len(a) = k /\ \A i \in 1 .. k : a[i] = s[i]
      BY <1>1, <2>1, <3>1
    <3>3. b \in Seq(S)
      BY <1>1, <2>1, <3>1
    <3>4. Len(b) = Len(s) - k
      BY <1>1, <2>1, <3>1
    <3>5. \A i \in 1 .. (Len(s) - k) : b[i] = s[k + i]
      BY <1>1, <2>1, <3>1
    <3> QED BY <3>2, <3>3, <3>4, <3>5
  <2>3. PICK c : c = a \o b
    OBVIOUS
  <2>4. c \in Seq(S) /\ Len(c) = Len(s) /\ \A i \in 1 .. Len(s) : c[i] = s[i]
    <3>1. ReadsTwo(c, a, b, S)
      BY <2>2, <2>3, GluedTwo, Zenon
    <3>2. c \in Seq(S) /\ Len(c) = Len(s)
      BY <1>1, <2>2, <3>1 DEF ReadsTwo
    <3>3. \A i \in 1 .. k : c[i] = s[i]
      BY <2>2, <3>1 DEF ReadsTwo
    <3>4. \A i \in 1 .. (Len(s) - k) : c[k + i] = s[k + i]
      BY <2>2, <3>1 DEF ReadsTwo
    <3>5. ASSUME NEW i \in 1 .. Len(s), i > k PROVE c[i] = s[i]
      <4>1. i - k \in 1 .. (Len(s) - k) /\ k + (i - k) = i
        BY <1>1, <3>5
      <4> QED BY <3>4, <4>1
    <3> QED BY <1>1, <3>2, <3>3, <3>5
  <2>5. c = s
    BY <2>4, SameElements, Zenon
  <2> QED BY <1>1, <2>1, <2>3, <2>5
<1>2. CASE ~(k < Len(s))
  <2>1. SubSeq(s, 1, Len(s)) = s /\ SubSeq(s, k + 1, Len(s)) = <<>>
    BY <1>2
  <2>2. s \o <<>> = s
    OBVIOUS
  <2> QED BY <1>2, <2>1, <2>2
<1> QED BY <1>1, <1>2
=============================================================================
