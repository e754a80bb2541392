---------------------------- MODULE Option82Proofs ----------------------------
(***************************************************************************)
(* What addLease cuts out of a relay agent option, for up to three         *)
(* sub-options, every code, every length that fits and every value of the  *)
(* octets.                                                                 *)
(***************************************************************************)
EXTENDS Option82, SequenceTheorems, TLAPS

(* Two octets, and a value behind them. *)
LEMMA HeaderOctets ==
  ASSUME NEW k \in Nat, NEW j \in Nat, NEW v \in Seq(Nat)
  PROVE  LET x == <<k, j>> \o v IN
         /\ x \in Seq(Nat)
         /\ Len(x) = Len(v) + 2
         /\ x[2] = j
         /\ \A i \in 1 .. Len(v) : x[i + 2] = v[i]
<1> DEFINE h == <<k, j>>
           x == h \o v
<1>1. Len(v) \in Nat
  BY LenProperties
<1>2. h \in Seq(Nat) /\ Len(h) = 2 /\ h[2] = j
  OBVIOUS
<1> HIDE DEF h
<1>3. /\ x \in Seq(Nat)
      /\ Len(x) = Len(h) + Len(v)
      /\ \A i \in 1 .. Len(h) + Len(v) : x[i] = IF i <= Len(h) THEN h[i] ELSE v[i - Len(h)]
  BY <1>2, ConcatProperties
<1> HIDE DEF x
<1>4. x[2] = j
  BY <1>1, <1>2, <1>3
<1>5. ASSUME NEW i \in 1 .. Len(v) PROVE x[i + 2] = v[i]
  <2>1. i + 2 \in 1 .. Len(h) + Len(v) /\ ~(i + 2 <= Len(h)) /\ (i + 2) - Len(h) = i
    BY <1>1, <1>2
  <2> QED
    BY <1>3, <2>1
<1> QED
  BY <1>1, <1>2, <1>3, <1>4, <1>5 DEF x, h

(* The octets of one sub-option, and those of a missing one. *)
LEMMA ATuple ==
  ASSUME NEW subs \in Seq(SubOption), NEW i \in 1 .. Len(subs)
  PROVE  /\ subs[i].code \in Nat
         /\ subs[i].value \in Seq(Nat)
         /\ Len(subs[i].value) \in Nat
         /\ Tuple(subs, i) \in Seq(Nat)
         /\ Len(Tuple(subs, i)) = Len(subs[i].value) + 2
         /\ Tuple(subs, i)[2] = Len(subs[i].value)
         /\ \A j \in 1 .. Len(subs[i].value) : Tuple(subs, i)[j + 2] = subs[i].value[j]
<1>1. DOMAIN subs = 1 .. Len(subs)
  BY LenProperties
<1>2. subs[i] \in SubOption
  BY ElementOfSeq
<1>3. subs[i].code \in Byte /\ subs[i].value \in Seq(Byte)
  BY <1>2 DEF SubOption
<1>4. Byte \subseteq Nat
  BY DEF Byte
<1>5. subs[i].code \in Nat /\ subs[i].value \in Seq(Nat) /\ Len(subs[i].value) \in Nat
  BY <1>3, <1>4, SeqMonotonic, LenProperties
<1>6. Tuple(subs, i) = <<subs[i].code, Len(subs[i].value)>> \o subs[i].value
  BY <1>1 DEF Tuple
<1> DEFINE v == subs[i].value
           x == <<subs[i].code, Len(v)>> \o v
<1>7. /\ x \in Seq(Nat)
      /\ Len(x) = Len(v) + 2
      /\ x[2] = Len(v)
      /\ \A j \in 1 .. Len(v) : x[j + 2] = v[j]
  BY <1>5, HeaderOctets
<1> QED
  BY <1>5, <1>6, <1>7

LEMMA NoTuple ==
  ASSUME NEW subs \in Seq(SubOption), NEW i, i \notin 1 .. Len(subs)
  PROVE  Tuple(subs, i) = <<>>
<1>1. DOMAIN subs = 1 .. Len(subs)
  BY LenProperties
<1> QED
  BY <1>1 DEF Tuple

(* A number below the width is itself modulo the width. *)
LEMMA ByteSmall == ASSUME NEW x \in 0 .. 255 PROVE x % 256 = x
  OBVIOUS

(* How far the two lengths reach when the whole option fits. *)
LEMMA LengthsFit ==
  ASSUME NEW a \in Nat, NEW b \in Nat, NEW n \in Nat, n = a + b + 4, n <= 255
  PROVE  /\ 2 + a \in 0 .. 255
         /\ (2 + a) + 3 = a + 5
         /\ n > 2
         /\ ~(2 + a < 2) /\ ~((2 + a) + 2 > n)
         /\ n - (a + 5) + 1 = b
         /\ (IF a + 5 <= n THEN n - (a + 5) + 1 ELSE 0) = b
         /\ \A i \in a + 5 .. n : i \in 1 .. n
  OBVIOUS

(* Where octet i of the second value is. *)
LEMMA SecondValue ==
  ASSUME NEW a \in Nat, NEW b \in Nat, NEW i \in 1 .. b
  PROVE  /\ (a + 5) + i - 1 \in 1 .. (a + 2) + (b + 2)
         /\ ~((a + 5) + i - 1 <= a + 2)
         /\ ((a + 5) + i - 1) - (a + 2) = i + 2
  OBVIOUS

(* How far the length reaches when there is nothing behind the value. *)
LEMMA LoneFits ==
  ASSUME NEW a \in Nat, NEW n \in Nat, n = a + 2, n <= 255, a # 0
  PROVE  n > 2 /\ 2 + a \in 0 .. 255 /\ (2 + a) + 2 > n
  OBVIOUS

(* Where an octet is, two further on. *)
LEMMA ShiftByTwo ==
  ASSUME NEW d \in Nat, NEW z \in Nat, NEW y, y = d + 2, NEW i \in 1 .. d + z
  PROVE  /\ i + 2 \in 1 .. y + z /\ i \in 1 .. d + z
         /\ i + 2 <= y <=> i <= d
         /\ (i + 2) - y = i - d
         /\ i <= d => i \in 1 .. d
  OBVIOUS

LEMMA UpToThree == ASSUME NEW n \in Nat, n <= 3 PROVE n \in {0, 1, 2, 3}
  OBVIOUS

(* Where there is a second header, its octets are not cut out of range, and *)
(* what is behind it is taken (proxy_lease.go:48-54).                       *)
LEMMA SecondHeader ==
  ASSUME NEW c \in Seq(Nat), NEW x \in Seq(Nat), NEW r \in Seq(Nat), NEW y \in Seq(Nat)
  PROVE  \A q :
           /\ q = x \o y /\ Len(q) <= 255
           /\ Len(x) = Len(c) + 2 /\ x[2] = Len(c)
           /\ Len(y) = Len(r) + 2 /\ \A i \in 1 .. Len(r) : y[i + 2] = r[i]
           => Rid(q) = r /\ ~Panics(q)
<1> DEFINE o == x \o y
<1>0. SUFFICES ASSUME /\ Len(o) <= 255
                      /\ Len(x) = Len(c) + 2 /\ x[2] = Len(c)
                      /\ Len(y) = Len(r) + 2 /\ \A i \in 1 .. Len(r) : y[i + 2] = r[i]
               PROVE  Rid(o) = r /\ ~Panics(o)
  OBVIOUS
<1>4. Len(c) \in Nat /\ Len(r) \in Nat
  BY LenProperties
<1>5. Len(o) <= 255
  BY <1>0
<1>6. /\ x \in Seq(Nat) /\ Len(x) = Len(c) + 2 /\ x[2] = Len(c)
      /\ y \in Seq(Nat) /\ Len(y) = Len(r) + 2 /\ \A i \in 1 .. Len(r) : y[i + 2] = r[i]
  BY <1>0
<1>7. /\ x \o y \in Seq(Nat)
      /\ Len(x \o y) = Len(x) + Len(y)
      /\ \A i \in 1 .. Len(x) + Len(y) : (x \o y)[i] = IF i <= Len(x) THEN x[i] ELSE y[i - Len(x)]
  BY ConcatProperties
<1>8. o = x \o y
  OBVIOUS
<1> HIDE DEF o
<1>9. o \in Seq(Nat) /\ Len(o) = Len(c) + Len(r) + 4 /\ o[2] = Len(c)
  BY <1>4, <1>6, <1>7, <1>8
<1> DEFINE a == Len(c)
           b == Len(r)
           n == Len(o)
<1>10. /\ a \in Nat /\ b \in Nat /\ n \in Nat
       /\ n = a + b + 4 /\ n <= 255 /\ o[2] = a
       /\ Len(x) = a + 2 /\ Len(y) = b + 2
  BY <1>4, <1>5, <1>6, <1>9, LenProperties
<1> HIDE DEF a, b, n
<1>11. Cut(o) /\ CircuitEnd(o) = 2 + a /\ Rid(o) = SubSeq(o, a + 5, n)
  <2>1. 2 + a \in 0 .. 255 /\ (2 + a) + 3 = a + 5 /\ n > 2
    BY <1>10, LengthsFit
  <2>2. (2 + a) % 256 = 2 + a
    BY <2>1, ByteSmall
  <2>3. CircuitEnd(o) = 2 + a
    BY <1>10, <2>2 DEF CircuitEnd
  <2>4. Cut(o)
    BY <2>1 DEF Cut, n
  <2> QED
    BY <2>1, <2>3, <2>4 DEF Rid, n
<1>12. ASSUME NEW i \in 1 .. b PROVE o[(a + 5) + i - 1] = r[i]
  <2>1. /\ (a + 5) + i - 1 \in 1 .. (a + 2) + (b + 2)
        /\ ~((a + 5) + i - 1 <= a + 2)
        /\ ((a + 5) + i - 1) - (a + 2) = i + 2
    BY <1>10, SecondValue
  <2>2. o[(a + 5) + i - 1] = y[((a + 5) + i - 1) - (a + 2)]
    BY <1>7, <1>8, <1>10, <2>1
  <2>3. y[i + 2] = r[i]
    BY <1>6 DEF b
  <2> QED
    BY <2>1, <2>2, <2>3
<1>13. Rid(o) = r
  <2>1. \A i \in a + 5 .. n : o[i] \in Nat
    <3>1. ASSUME NEW i \in a + 5 .. n PROVE i \in 1 .. Len(o)
      BY <1>10, LengthsFit DEF n
    <3> QED
      BY <1>9, <3>1, ElementOfSeq
  <2>2. a + 5 \in Int /\ n \in Int
    BY <1>10
  <2>3. /\ Rid(o) \in Seq(Nat)
        /\ Len(Rid(o)) = IF a + 5 <= n THEN n - (a + 5) + 1 ELSE 0
        /\ \A i \in 1 .. n - (a + 5) + 1 : Rid(o)[i] = o[(a + 5) + i - 1]
    BY SMTT(30), <1>11, <2>1, <2>2, SubSeqProperties
  <2>4. Len(Rid(o)) = b /\ n - (a + 5) + 1 = b
    BY <1>10, <2>3, LengthsFit
  <2>5. \A i \in 1 .. b : Rid(o)[i] = r[i]
    BY <1>12, <2>3, <2>4
  <2> QED
    BY <1>4, <2>3, <2>4, <2>5, SeqEqual DEF b
<1>14. ~Panics(o)
  <2>1. ~(2 + a < 2) /\ ~((2 + a) + 2 > n)
    BY <1>10, LengthsFit
  <2> QED
    BY <1>11, <2>1 DEF Panics, n
<1> QED
  BY <1>13, <1>14

(* addLease does not survive a sub-option that has a value and stands       *)
(* alone; of any other option it takes what is behind the second header.    *)
THEOREM OptionRead ==
  ASSUME NEW subs, IsAgentOption(subs)
  PROVE  /\ Panics(Octets(subs)) <=> Lone(subs)
         /\ ~Lone(subs) => Rid(Octets(subs)) = BehindSecondHeader(subs)
<1> DEFINE x == Tuple(subs, 1)
           y == Tuple(subs, 2)
           z == Tuple(subs, 3)
           c == subs[1].value
           o == Octets(subs)
<1>1. subs \in Seq(SubOption) /\ Len(subs) <= 3 /\ Len(o) <= 255
  BY DEF IsAgentOption, MaxSubOptions
<1>2. Len(subs) \in Nat
  BY <1>1, LenProperties
<1>3. Len(subs) \in {0, 1, 2, 3}
  BY <1>1, <1>2, UpToThree
<1>4. \A i \in 1 .. 3 : Tuple(subs, i) \in Seq(Nat)
  <2> TAKE i \in 1 .. 3
  <2>1. CASE i \in 1 .. Len(subs)
    BY <1>1, <2>1, ATuple
  <2>2. CASE i \notin 1 .. Len(subs)
    BY <1>1, <2>2, NoTuple, EmptySeq
  <2> QED
    BY <2>1, <2>2
<1>5. x \in Seq(Nat) /\ y \in Seq(Nat) /\ z \in Seq(Nat)
  BY <1>4
<1>6. o = x \o (y \o z)
  BY DEF Octets
<1>7. <<>> \in Seq(Nat) /\ \A s \in Seq(Nat) : s \o <<>> = s
  BY ConcatEmptySeq, EmptySeq
<1>8. CASE Len(subs) = 0
  <2>1. 1 \notin 1 .. Len(subs) /\ 2 \notin 1 .. Len(subs) /\ 3 \notin 1 .. Len(subs)
    BY <1>8
  <2>2. x = <<>> /\ y = <<>> /\ z = <<>>
    BY <1>1, <2>1, NoTuple
  <2>3. o = <<>>
    BY <1>6, <1>7, <2>2
  <2>4. ~Cut(o)
    BY <2>3 DEF Cut
  <2> QED
    BY <1>8, <2>4 DEF Panics, Rid, Lone, BehindSecondHeader
<1>9. CASE Len(subs) = 1
  <2>1. 1 \in 1 .. Len(subs) /\ 2 \notin 1 .. Len(subs) /\ 3 \notin 1 .. Len(subs)
    BY <1>9
  <2>2. y = <<>> /\ z = <<>>
    BY <1>1, <2>1, NoTuple
  <2>3. /\ c \in Seq(Nat) /\ subs[1].code \in Nat
        /\ Len(x) = Len(c) + 2 /\ x[2] = Len(c)
    BY <1>1, <2>1, ATuple
  <2>4. Len(c) \in Nat
    BY <1>1, <2>1, ATuple
  <2>5. o = x
    BY <1>5, <1>6, <1>7, <2>2
  <2>6. Len(o) = Len(c) + 2 /\ o[2] = Len(c)
    BY <2>3, <2>5
  <2>7. c = <<>> <=> Len(c) = 0
    BY <2>3, EmptySeq
  <2> HIDE DEF x, y, z, c, o
  <2>8. CASE Len(c) = 0
    <3>1. ~Cut(o)
      BY <2>6, <2>8 DEF Cut
    <3> QED
      BY <1>9, <2>7, <2>8, <3>1 DEF Panics, Rid, Lone, BehindSecondHeader, o, c
  <2>9. CASE Len(c) # 0
    <3>1. Len(o) <= 255
      BY <1>1
    <3>2. Len(o) > 2 /\ 2 + Len(c) \in 0 .. 255 /\ (2 + Len(c)) + 2 > Len(o)
      <4>1. Len(o) \in Nat
        BY <2>4, <2>6
      <4> QED
        BY <2>4, <2>6, <2>9, <3>1, <4>1, LoneFits
    <3>3. CircuitEnd(o) = 2 + Len(c)
      BY <2>6, <3>2, ByteSmall DEF CircuitEnd
    <3>4. Panics(o)
      BY <3>2, <3>3 DEF Panics, Cut
    <3> QED
      BY <1>9, <2>7, <2>9, <3>4 DEF Lone, o, c
  <2> QED
    BY <2>8, <2>9
<1>10. CASE Len(subs) \in {2, 3}
  <2> DEFINE d == subs[2].value
             r == d \o z
             w == y \o z
  <2>1. 1 \in 1 .. Len(subs) /\ 2 \in 1 .. Len(subs)
    BY <1>10
  <2>2. c \in Seq(Nat) /\ x \in Seq(Nat) /\ Len(x) = Len(c) + 2 /\ x[2] = Len(c)
    BY <1>1, <2>1, ATuple
  <2>3. d \in Seq(Nat) /\ Len(d) \in Nat
    BY <1>1, <2>1, ATuple
  <2>5. y \in Seq(Nat) /\ Len(y) = Len(d) + 2 /\ \A i \in 1 .. Len(d) : y[i + 2] = d[i]
    BY <1>1, <2>1, ATuple
  <2>6. z \in Seq(Nat) /\ Len(z) \in Nat
    BY <1>5, LenProperties
  <2> HIDE DEF x, y, z, c, d, o
  <2>7. /\ r \in Seq(Nat) /\ Len(r) = Len(d) + Len(z)
        /\ \A i \in 1 .. Len(d) + Len(z) : r[i] = IF i <= Len(d) THEN d[i] ELSE z[i - Len(d)]
    BY <2>3, <2>6, ConcatProperties
  <2>8. /\ w \in Seq(Nat) /\ Len(w) = Len(y) + Len(z)
        /\ \A i \in 1 .. Len(y) + Len(z) : w[i] = IF i <= Len(y) THEN y[i] ELSE z[i - Len(y)]
    BY <2>5, <2>6, ConcatProperties
  <2>9. o = x \o w /\ Len(o) <= 255
    BY <1>1, <1>6
  <2> HIDE DEF r, w
  <2>10. Len(w) = Len(r) + 2 /\ \A i \in 1 .. Len(r) : w[i + 2] = r[i]
    <3>1. Len(w) = Len(r) + 2
      BY <2>3, <2>5, <2>6, <2>7, <2>8
    <3>2. ASSUME NEW i \in 1 .. Len(r) PROVE w[i + 2] = r[i]
      <4>1. /\ i + 2 \in 1 .. Len(y) + Len(z) /\ i \in 1 .. Len(d) + Len(z)
            /\ i + 2 <= Len(y) <=> i <= Len(d)
            /\ (i + 2) - Len(y) = i - Len(d)
            /\ i <= Len(d) => i \in 1 .. Len(d)
        <5>1. Len(d) \in Nat /\ Len(z) \in Nat /\ Len(y) = Len(d) + 2 /\ i \in 1 .. Len(d) + Len(z)
          BY <2>3, <2>5, <2>6, <2>7
        <5> QED
          BY <5>1, ShiftByTwo
      <4> QED
        BY <2>5, <2>7, <2>8, <4>1
    <3> QED
      BY <3>1, <3>2
  <2>12. Rid(o) = r /\ ~Panics(o)
    <3>1. c \in Seq(Nat) /\ x \in Seq(Nat) /\ r \in Seq(Nat) /\ w \in Seq(Nat)
      BY <2>2, <2>7, <2>8
    <3>2. \A q :
            /\ q = x \o w /\ Len(q) <= 255
            /\ Len(x) = Len(c) + 2 /\ x[2] = Len(c)
            /\ Len(w) = Len(r) + 2 /\ \A i \in 1 .. Len(r) : w[i + 2] = r[i]
            => Rid(q) = r /\ ~Panics(q)
      BY <3>1, SecondHeader, Zenon
    <3> QED
      BY <2>2, <2>9, <2>10, <3>2, Zenon
  <2>11. BehindSecondHeader(subs) = r /\ ~Lone(subs)
    BY <1>10 DEF BehindSecondHeader, Lone, r, d, z
  <2> QED
    BY <2>11, <2>12 DEF o
<1> QED
  BY <1>3, <1>8, <1>9, <1>10
=============================================================================
