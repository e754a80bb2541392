------------------------- MODULE ConfiguratorSaveProofs -------------------------
(***************************************************************************)
(* What SAVE AND QUIT writes is what was saved, though the forms share the *)
(* arrays of their lists with it and go on appending to and removing from  *)
(* them; and the two tables on the screen show these lists: for any number *)
(* of sessions, forms, routers and servers, and lists of any length.       *)
(***************************************************************************)
EXTENDS ConfiguratorProofs, SequenceTheorems, FiniteSetTheorems, WellFoundedInduction

------------------------------------------------------------------------------
(* Slices of the arrays in h, apart from what the variables are. *)
View(h, s) == IF s = Nil THEN <<>> ELSE SubSeq(h[s.array], 1, s.len)

SliceOf(h, s, S) ==
  \/ s = Nil
  \/ \E a \in 1 .. Len(h), n \in Nat : s = Slice(a, n) /\ n <= Len(h[a]) /\ h[a] \in Seq(S)

(* h2 is h with more arrays, or with changes in array a behind element k.   *)
Keeps(h, h2, a, k) ==
  /\ Len(h) <= Len(h2)
  /\ \A b \in 1 .. Len(h) : Len(h2[b]) = Len(h[b]) /\ (b # a => h2[b] = h[b])
  /\ a \in 1 .. Len(h) => \A i \in 1 .. k : h2[a][i] = h[a][i]

LEMMA SlicesStay ==
  ASSUME NEW C, NEW h \in Seq(Seq(C)), NEW h2 \in Seq(Seq(C)), NEW a \in Nat, NEW k \in Nat,
         NEW S, NEW s, Keeps(h, h2, a, k), SliceOf(h, s, S),
         s.array = a /\ a \in 1 .. Len(h) => h2[a] \in Seq(S)
  PROVE  SliceOf(h2, s, S)
<1>1. CASE s = Nil
  BY <1>1 DEF SliceOf
<1>2. CASE s # Nil
  <2>1. PICK b \in 1 .. Len(h), n \in Nat : s = Slice(b, n) /\ n <= Len(h[b]) /\ h[b] \in Seq(S)
    BY <1>2 DEF SliceOf
  <2>2. s.array = b
    BY <2>1 DEF Slice
  <2>3. b \in 1 .. Len(h2) /\ Len(h2[b]) = Len(h[b]) /\ h2[b] \in Seq(S)
    BY <2>1, <2>2, LenProperties DEF Keeps
  <2> QED
    BY <2>1, <2>3 DEF SliceOf
<1> QED
  BY <1>1, <1>2

LEMMA ViewsStay ==
  ASSUME NEW C, NEW h \in Seq(Seq(C)), NEW h2 \in Seq(Seq(C)), NEW a \in Nat, NEW k \in Nat,
         NEW S, NEW s, Keeps(h, h2, a, k), SliceOf(h, s, S),
         s.array = a => s.len <= k
  PROVE  View(h2, s) = View(h, s)
<1>1. CASE s = Nil
  BY <1>1 DEF View
<1>2. CASE s # Nil
  <2>1. PICK b \in 1 .. Len(h), n \in Nat : s = Slice(b, n) /\ n <= Len(h[b]) /\ h[b] \in Seq(S)
    BY <1>2 DEF SliceOf
  <2>2. s.array = b /\ s.len = n
    BY <2>1 DEF Slice
  <2>3. View(h, s) = SubSeq(h[b], 1, n) /\ View(h2, s) = SubSeq(h2[b], 1, n)
    BY <1>2, <2>2 DEF View
  <2>4. CASE b # a
    BY <2>1, <2>3, <2>4 DEF Keeps
  <2>5. CASE b = a
    <3>1. /\ b \in 1 .. Len(h2) /\ Len(h2[b]) = Len(h[b])
          /\ \A i \in 1 .. n : h2[b][i] = h[b][i]
      BY <2>1, <2>2, <2>5, LenProperties DEF Keeps
    <3>2. h[b] \in Seq(C) /\ h2[b] \in Seq(C) /\ Len(h[b]) \in Nat
      BY <2>1, <3>1, ElementOfSeq, LenProperties
    <3> DEFINE x == SubSeq(h[b], 1, n)
               y == SubSeq(h2[b], 1, n)
    <3>3. /\ x \in Seq(C) /\ y \in Seq(C) /\ Len(x) = n /\ Len(y) = n
          /\ \A i \in 1 .. n : x[i] = h[b][i] /\ y[i] = h2[b][i]
      <4>1. \A i \in 1 .. n : h[b][i] \in C /\ h2[b][i] \in C
        BY SMTT(30), <2>1, <3>1, <3>2, ElementOfSeq
      <4>2. 1 \in Int /\ n \in Int /\ n - 1 + 1 = n /\ \A i \in 1 .. n : 1 + i - 1 = i
        BY <2>1
      <4>3. n = 0 \/ 1 <= n
        BY <2>1
      <4>4. /\ x \in Seq(C) /\ Len(x) = (IF 1 <= n THEN n - 1 + 1 ELSE 0)
            /\ \A i \in 1 .. n - 1 + 1 : x[i] = h[b][1 + i - 1]
        BY <4>1, <4>2, SubSeqProperties
      <4>5. /\ y \in Seq(C) /\ Len(y) = (IF 1 <= n THEN n - 1 + 1 ELSE 0)
            /\ \A i \in 1 .. n - 1 + 1 : y[i] = h2[b][1 + i - 1]
        BY <4>1, <4>2, SubSeqProperties
      <4> QED
        BY <4>2, <4>3, <4>4, <4>5
    <3>4. x = y
      BY <3>1, <3>3, SeqEqual
    <3> QED
      BY <2>3, <3>4
  <2> QED
    BY <2>4, <2>5
<1> QED
  BY <1>1, <1>2

LEMMA ViewIsSeq ==
  ASSUME NEW S, NEW C, NEW h \in Seq(Seq(C)), NEW s, SliceOf(h, s, S)
  PROVE  /\ View(h, s) \in Seq(S) /\ Len(View(h, s)) = s.len
         /\ s.len \in Nat /\ s.array \in 0 .. Len(h)
         /\ s # Nil => s.array \in 1 .. Len(h) /\ s.len <= Len(h[s.array]) /\ h[s.array] \in Seq(S)
         /\ s # Nil => \A i \in 1 .. s.len : View(h, s)[i] = h[s.array][i]
<1>0. Len(h) \in Nat
  BY LenProperties
<1>1. CASE s = Nil
  BY <1>0, <1>1, EmptySeq DEF View, Nil
<1>2. CASE s # Nil
  <2>1. PICK b \in 1 .. Len(h), n \in Nat : s = Slice(b, n) /\ n <= Len(h[b]) /\ h[b] \in Seq(S)
    BY <1>2 DEF SliceOf
  <2>2. s.array = b /\ s.len = n
    BY <2>1 DEF Slice
  <2>3. View(h, s) = SubSeq(h[b], 1, n)
    BY <1>2, <2>2 DEF View
  <2>4. Len(h[b]) \in Nat
    BY <2>1, LenProperties
  <2>5. \A i \in 1 .. n : h[b][i] \in S
    BY <2>1, <2>4, ElementOfSeq
  <2>6. 1 \in Int /\ n \in Int /\ n - 1 + 1 = n /\ (n = 0 \/ 1 <= n) /\ \A i \in 1 .. n : 1 + i - 1 = i
    BY <2>1
  <2> HIDE DEF View
  <2>7. /\ SubSeq(h[b], 1, n) \in Seq(S)
        /\ Len(SubSeq(h[b], 1, n)) = IF 1 <= n THEN n - 1 + 1 ELSE 0
        /\ \A i \in 1 .. n - 1 + 1 : SubSeq(h[b], 1, n)[i] = h[b][1 + i - 1]
    BY <2>5, <2>6, SubSeqProperties
  <2>8. Len(SubSeq(h[b], 1, n)) = n /\ \A i \in 1 .. n : SubSeq(h[b], 1, n)[i] = h[b][i]
    BY <2>6, <2>7
  <2> QED
    BY <1>0, <2>1, <2>2, <2>3, <2>7, <2>8
<1> QED
  BY <1>1, <1>2

(* A list goes from s to s2, and the arrays from h to h2.                   *)
Moves(h, h2, s, s2, S, C, k) ==
  /\ h2 \in Seq(Seq(C))
  /\ Keeps(h, h2, s2.array, k)
  /\ SliceOf(h2, s2, S)
  /\ s2.array \in Nat \ {0}
  /\ s2.array \in 1 .. Len(h) => s2.array = s.array /\ h2[s2.array] \in Seq(S)

LEMMA ConstantIsSeq ==
  ASSUME NEW S, NEW z \in S, NEW n \in Int
  PROVE  [i \in 1 .. n |-> z] \in Seq(S)
<1>1. CASE n \in Nat
  BY <1>1, SeqDef
<1>2. CASE n \notin Nat
  <2>1. 1 .. n = 1 .. 0
    BY <1>2
  <2>2. [i \in 1 .. 0 |-> z] \in [1 .. 0 -> S] /\ 0 \in Nat
    OBVIOUS
  <2>3. [i \in 1 .. 0 |-> z] \in Seq(S)
    BY <2>2, SeqDef
  <2> QED
    BY <2>1, <2>3
<1> QED
  BY <1>1, <1>2

(* append changes nothing that a shorter slice of the array sees, nor any   *)
(* other array (configurator.go:430, 563).                                  *)
LEMMA AppendMoves ==
  ASSUME NEW S, NEW C, S \subseteq C, heap \in Seq(Seq(C)), NEW s, SliceOf(heap, s, S),
         NEW x \in S, NEW z \in S
  PROVE  /\ Moves(heap, HeapAppend(s, x, z), s, AppendedTo(s), S, C, s.len)
         /\ AppendedTo(s).len >= s.len
<1>1. /\ View(heap, s) \in Seq(S) /\ Len(View(heap, s)) = s.len
      /\ s.len \in Nat /\ s.array \in 0 .. Len(heap) /\ Len(heap) \in Nat
      /\ s # Nil => s.array \in 1 .. Len(heap) /\ s.len <= Len(heap[s.array]) /\ heap[s.array] \in Seq(S)
  BY ViewIsSeq, LenProperties
<1>2. ASSUME NEW q, q \in Seq(S) PROVE q \in Seq(C)
  BY <1>2, SeqMonotonic
<1>3. CASE HasRoom(s)
  <2> DEFINE b == s.array
             n == s.len
             g == [heap[b] EXCEPT ![n + 1] = x]
  <2>1. s # Nil /\ n < Len(heap[b])
    BY <1>3 DEF HasRoom, Cap, Nil
  <2>2. n + 1 \in 1 .. Len(heap[b]) /\ b \in 1 .. Len(heap) /\ b \in Nat \ {0} /\ Len(heap[b]) \in Nat
    BY <1>1, <2>1, LenProperties
  <2>3. /\ g \in Seq(S) /\ Len(g) = Len(heap[b])
        /\ \A i \in 1 .. n : g[i] = heap[b][i]
    BY <1>1, <2>1, <2>2, ExceptSeq
  <2>4. AppendedTo(s) = Slice(b, n + 1) /\ HeapAppend(s, x, z) = [heap EXCEPT ![b] = g]
    BY <1>3 DEF AppendedTo, HeapAppend
  <2> DEFINE h2 == [heap EXCEPT ![b] = g]
  <2> HIDE DEF g
  <2>5. /\ h2 \in Seq(Seq(C)) /\ Len(h2) = Len(heap) /\ h2[b] = g
        /\ \A c \in 1 .. Len(heap) : c # b => h2[c] = heap[c]
    BY <1>2, <2>2, <2>3, ExceptSeq
  <2> HIDE DEF h2
  <2>6. Keeps(heap, h2, b, n)
    <3>1. Len(heap) <= Len(h2)
      BY <1>1, <2>5
    <3> HIDE DEF b, n
    <3>2. \A c \in 1 .. Len(heap) : Len(h2[c]) = Len(heap[c]) /\ (c # b => h2[c] = heap[c])
      BY <2>3, <2>5
    <3>3. \A i \in 1 .. n : h2[b][i] = heap[b][i]
      BY <2>3, <2>5
    <3> QED
      BY <3>1, <3>2, <3>3 DEF Keeps
  <2>7. SliceOf(h2, Slice(b, n + 1), S)
    <3>1. n + 1 \in Nat /\ n + 1 <= Len(h2[b])
      BY <1>1, <2>2, <2>3, <2>5
    <3> QED
      BY <2>2, <2>3, <2>5, <3>1 DEF SliceOf
  <2>8. Slice(b, n + 1).array = b /\ Slice(b, n + 1).len = n + 1 /\ n + 1 >= n
    BY <1>1 DEF Slice
  <2> HIDE DEF b, n
  <2>9. Moves(heap, h2, s, Slice(b, n + 1), S, C, n)
    BY <2>2, <2>3, <2>5, <2>6, <2>7, <2>8 DEF Moves, b
  <2> QED
    BY <2>4, <2>8, <2>9 DEF h2, n
<1>4. CASE ~HasRoom(s)
  <2> DEFINE k == Len(heap) + 1
             m == Cap(s) - 1
             zeros == [i \in 1 .. m |-> z]
             g == (View(heap, s) \o <<x>>) \o zeros
             h2 == Append(heap, g)
  <2>1. AppendedTo(s) = Slice(k, s.len + 1) /\ HeapAppend(s, x, z) = h2
    <3>1. Elements(s) = View(heap, s)
      BY DEF Elements, View
    <3> QED
      BY <1>4, <3>1 DEF AppendedTo, HeapAppend
  <2>2. Cap(s) \in Nat
    BY <1>1, LenProperties DEF Cap
  <2>3. zeros \in Seq(S)
    <3>1. m \in Int
      BY <2>2
    <3> HIDE DEF m
    <3> QED
      BY <3>1, ConstantIsSeq
  <2> HIDE DEF zeros, m
  <2>4. <<x>> \in Seq(S) /\ Len(<<x>>) = 1
    OBVIOUS
  <2>5. View(heap, s) \o <<x>> \in Seq(S) /\ Len(View(heap, s) \o <<x>>) = s.len + 1
    BY <1>1, <2>4, ConcatProperties
  <2>6. g \in Seq(S) /\ s.len + 1 <= Len(g)
    <3>1. Len(zeros) \in Nat
      BY <2>3, LenProperties
    <3> DEFINE first == View(heap, s) \o <<x>>
    <3>2. first \in Seq(S) /\ Len(first) = s.len + 1
      BY <2>5
    <3> HIDE DEF first
    <3>3. first \o zeros \in Seq(S) /\ Len(first \o zeros) = Len(first) + Len(zeros)
      BY <2>3, <3>2, ConcatProperties
    <3>4. g = first \o zeros
      BY DEF first
    <3> HIDE DEF g
    <3> QED
      BY <1>1, <3>1, <3>2, <3>3, <3>4
  <2> HIDE DEF g
  <2>7. /\ h2 \in Seq(Seq(C)) /\ Len(h2) = k /\ h2[k] = g
        /\ \A c \in 1 .. Len(heap) : h2[c] = heap[c]
    BY <1>2, <2>6, AppendProperties
  <2> HIDE DEF h2
  <2>8. k \in Nat \ {0} /\ k \notin 1 .. Len(heap) /\ k \in 1 .. k /\ Len(heap) <= k
    BY <1>1
  <2>9. Keeps(heap, h2, k, s.len)
    BY <2>7, <2>8 DEF Keeps
  <2>10. SliceOf(h2, Slice(k, s.len + 1), S)
    <3>1. s.len + 1 \in Nat
      BY <1>1
    <3> QED
      BY <2>6, <2>7, <2>8, <3>1 DEF SliceOf
  <2>11. Slice(k, s.len + 1).array = k /\ Slice(k, s.len + 1).len = s.len + 1 /\ s.len + 1 >= s.len
    BY <1>1 DEF Slice
  <2> HIDE DEF k
  <2>12. Moves(heap, h2, s, Slice(k, s.len + 1), S, C, s.len)
    BY <2>7, <2>8, <2>9, <2>10, <2>11 DEF Moves
  <2> QED
    BY <2>1, <2>11, <2>12
<1> QED
  BY <1>3, <1>4

(* A removal changes one array, which stays as long as it is                *)
(* (configurator.go:481-483, 589-591).                                      *)
LEMMA RemoveMoves ==
  ASSUME NEW S, NEW C, S \subseteq C, heap \in Seq(Seq(C)), NEW s, SliceOf(heap, s, S),
         NEW i \in 1 .. s.len, NEW z \in S
  PROVE  Moves(heap, HeapRemove(s, i, z), s, RemovedFrom(s), S, C, 0)
<1> DEFINE v == View(heap, s)
           b == s.array
           n == s.len
           c == Len(heap[b])
           front == SubSeq(v, 1, i - 1)
           back == SubSeq(v, i + 1, Len(v))
           rest == SubSeq(heap[b], n + 1, c)
           g == ((front \o back) \o <<z>>) \o rest
           h2 == [heap EXCEPT ![b] = g]
<1>0. s # Nil
  <2>1. 1 .. 0 = {}
    OBVIOUS
  <2> QED
    BY <2>1 DEF Nil
<1>1. /\ v \in Seq(S) /\ Len(v) = n /\ n \in Nat /\ i \in 1 .. n
      /\ b \in 1 .. Len(heap) /\ n <= c /\ heap[b] \in Seq(S) /\ c \in Nat /\ Len(heap) \in Nat
  BY <1>0, ViewIsSeq, LenProperties
<1>2. HeapRemove(s, i, z) = h2 /\ RemovedFrom(s) = Slice(b, n - 1)
  <2>1. Elements(s) = v /\ Cap(s) = c
    BY <1>0 DEF Elements, View, Cap
  <2> QED
    BY <2>1 DEF HeapRemove, RemoveAt, RemovedFrom
<1>3. front \in Seq(S) /\ Len(front) = i - 1
  <2>1. 1 \in Int /\ i - 1 \in Int /\ (i - 1) - 1 + 1 = i - 1 /\ (i - 1 = 0 \/ 1 <= i - 1)
    BY <1>1
  <2>2. \A j \in 1 .. i - 1 : v[j] \in S
    BY <1>1, ElementOfSeq
  <2> HIDE DEF v, n
  <2>3. front \in Seq(S) /\ Len(front) = IF 1 <= i - 1 THEN (i - 1) - 1 + 1 ELSE 0
    BY <2>1, <2>2, SubSeqProperties
  <2> QED
    BY <2>1, <2>3
<1>4. back \in Seq(S) /\ Len(back) = n - i
  <2>1. i + 1 \in Int /\ Len(v) \in Int /\ n - (i + 1) + 1 = n - i /\ (n - i = 0 \/ i + 1 <= n)
        /\ (i + 1 <= n \/ n - i = 0)
    BY <1>1
  <2>2. \A j \in i + 1 .. Len(v) : v[j] \in S
    BY <1>1, ElementOfSeq
  <2> HIDE DEF v, n
  <2>3. back \in Seq(S) /\ Len(back) = IF i + 1 <= Len(v) THEN Len(v) - (i + 1) + 1 ELSE 0
    BY <2>1, <2>2, SubSeqProperties
  <2>4. Len(v) = n /\ n \in Nat /\ i \in 1 .. n
    BY <1>1
  <2>5. i + 1 <= n <=> n - i # 0
    BY <2>4
  <2> QED
    BY <2>1, <2>3, <2>4, <2>5
<1>5. rest \in Seq(S) /\ Len(rest) = c - n
  <2>2. \A j \in n + 1 .. c : heap[b][j] \in S
    BY <1>1, ElementOfSeq
  <2>4. n \in Nat /\ c \in Nat /\ n <= c
    BY <1>1
  <2> HIDE DEF b, n, c
  <2>1. n + 1 \in Int /\ c \in Int /\ c - (n + 1) + 1 = c - n /\ (n + 1 <= c <=> c - n # 0)
    BY <2>4
  <2>3. rest \in Seq(S) /\ Len(rest) = IF n + 1 <= c THEN c - (n + 1) + 1 ELSE 0
    BY <2>1, <2>2, SubSeqProperties
  <2> QED
    BY <2>1, <2>3
<1> HIDE DEF v, b, n, c, front, back, rest
<1>6. g \in Seq(S) /\ Len(g) = c
  <2> DEFINE x == front \o back
             y == x \o <<z>>
  <2>1. x \in Seq(S) /\ Len(x) = Len(front) + Len(back)
    BY <1>3, <1>4, ConcatProperties
  <2>2. <<z>> \in Seq(S) /\ Len(<<z>>) = 1
    OBVIOUS
  <2> HIDE DEF x
  <2>3. y \in Seq(S) /\ Len(y) = Len(x) + 1
    BY <2>1, <2>2, ConcatProperties
  <2> HIDE DEF y
  <2>4. y \o rest \in Seq(S) /\ Len(y \o rest) = Len(y) + Len(rest)
    BY <1>5, <2>3, ConcatProperties
  <2>5. g = y \o rest
    BY DEF x, y
  <2> HIDE DEF g
  <2>6. i \in Nat /\ n \in Nat /\ c \in Nat
    BY <1>1
  <2> QED
    BY <1>3, <1>4, <1>5, <2>1, <2>3, <2>4, <2>5, <2>6
<1> HIDE DEF g
<1>7. /\ h2 \in Seq(Seq(C)) /\ Len(h2) = Len(heap) /\ h2[b] = g
      /\ \A d \in 1 .. Len(heap) : d # b => h2[d] = heap[d]
  <2>1. g \in Seq(C)
    BY <1>6, SeqMonotonic
  <2> QED
    BY <1>1, <2>1, ExceptSeq
<1> HIDE DEF h2
<1>8. Keeps(heap, h2, b, 0)
  BY <1>1, <1>6, <1>7 DEF Keeps, c
<1>9. SliceOf(h2, Slice(b, n - 1), S)
  <2>1. n - 1 \in Nat /\ n - 1 <= c
    BY <1>1
  <2> QED
    BY <1>1, <1>6, <1>7, <2>1 DEF SliceOf
<1>10. Slice(b, n - 1).array = b /\ b \in Nat \ {0}
  BY <1>1 DEF Slice
<1> QED
  BY <1>2, <1>6, <1>7, <1>8, <1>9, <1>10 DEF Moves, b

(* The elements of a list with one taken out (configurator.go:481, 589).    *)
LEMMA RemovedSeq ==
  ASSUME NEW S, NEW v \in Seq(S), NEW i \in 1 .. Len(v)
  PROVE  /\ RemoveAt(v, i) \in Seq(S)
         /\ Len(RemoveAt(v, i)) = Len(v) - 1
         /\ \A j \in 1 .. Len(v) - 1 : RemoveAt(v, i)[j] = IF j < i THEN v[j] ELSE v[j + 1]
<1> DEFINE n == Len(v)
           front == SubSeq(v, 1, i - 1)
           back == SubSeq(v, i + 1, n)
<1>1. n \in Nat /\ i \in 1 .. n /\ \A j \in 1 .. n : v[j] \in S
  BY LenProperties, ElementOfSeq
<1>2. RemoveAt(v, i) = front \o back
  BY DEF RemoveAt
<1> HIDE DEF n
<1>3. /\ front \in Seq(S) /\ Len(front) = i - 1
      /\ \A j \in 1 .. i - 1 : front[j] = v[j]
  <2>1. /\ 1 \in Int /\ i - 1 \in Int /\ (i - 1) - 1 + 1 = i - 1 /\ (i - 1 = 0 \/ 1 <= i - 1)
        /\ \A j \in 1 .. i - 1 : 1 + j - 1 = j /\ v[j] \in S
    BY <1>1
  <2>2. /\ front \in Seq(S) /\ Len(front) = IF 1 <= i - 1 THEN (i - 1) - 1 + 1 ELSE 0
        /\ \A j \in 1 .. (i - 1) - 1 + 1 : front[j] = v[1 + j - 1]
    BY <2>1, SubSeqProperties
  <2> QED
    BY <2>1, <2>2
<1>4. /\ back \in Seq(S) /\ Len(back) = n - i
      /\ \A j \in 1 .. n - i : back[j] = v[i + j]
  <2>1. /\ i + 1 \in Int /\ n \in Int /\ n - (i + 1) + 1 = n - i /\ (i + 1 <= n <=> n - i # 0)
        /\ \A j \in 1 .. n - i : i + 1 + j - 1 = i + j
        /\ \A j \in i + 1 .. n : v[j] \in S
    BY <1>1
  <2>2. /\ back \in Seq(S) /\ Len(back) = IF i + 1 <= n THEN n - (i + 1) + 1 ELSE 0
        /\ \A j \in 1 .. n - (i + 1) + 1 : back[j] = v[i + 1 + j - 1]
    BY <2>1, SubSeqProperties
  <2> QED
    BY <2>1, <2>2
<1> HIDE DEF front, back
<1>5. /\ front \o back \in Seq(S) /\ Len(front \o back) = (i - 1) + (n - i)
      /\ \A j \in 1 .. (i - 1) + (n - i) :
           (front \o back)[j] = IF j <= i - 1 THEN front[j] ELSE back[j - (i - 1)]
  <2>1. /\ front \o back \in Seq(S) /\ Len(front \o back) = Len(front) + Len(back)
        /\ \A j \in 1 .. Len(front) + Len(back) :
             (front \o back)[j] = IF j <= Len(front) THEN front[j] ELSE back[j - Len(front)]
    BY <1>3, <1>4, ConcatProperties
  <2> QED
    BY <1>3, <1>4, <2>1
<1>6. (i - 1) + (n - i) = n - 1
  BY <1>1
<1>7. ASSUME NEW j \in 1 .. n - 1
      PROVE  (front \o back)[j] = IF j < i THEN v[j] ELSE v[j + 1]
  <2>1. CASE j < i
    <3>1. j <= i - 1 /\ j \in 1 .. i - 1
      BY <1>1, <2>1
    <3> QED
      BY <1>3, <1>5, <1>6, <2>1, <3>1
  <2>2. CASE ~(j < i)
    <3>1. ~(j <= i - 1) /\ j - (i - 1) \in 1 .. n - i /\ i + (j - (i - 1)) = j + 1
      BY <1>1, <2>2
    <3> QED
      BY <1>4, <1>5, <1>6, <2>2, <3>1
  <2> QED
    BY <2>1, <2>2
<1> QED
  BY <1>2, <1>5, <1>6, <1>7 DEF n

LEMMA PrefixOfConcat ==
  ASSUME NEW S, NEW s \in Seq(S), NEW t \in Seq(S)
  PROVE  SubSeq(s \o t, 1, Len(s)) = s
<1>1. Len(s) \in Nat
  BY LenProperties
<1>2. CASE Len(s) = 0
  <2>1. SubSeq(s \o t, 1, Len(s)) = <<>>
    BY <1>2, SubSeqEmpty
  <2>2. s = <<>>
    BY <1>2, EmptySeq
  <2> QED
    BY <2>1, <2>2
<1>3. CASE Len(s) # 0
  <2>1. 1 \in 1 .. Len(s) /\ Len(s) \in 1 .. Len(s)
    BY <1>1, <1>3
  <2> QED
    BY <2>1, SubSeqOfConcat1, SubSeqFull
<1> QED
  BY <1>2, <1>3

(* The form sees its list with one element more, whether or not the array   *)
(* had room (configurator.go:430, 563).                                     *)
LEMMA AppendView ==
  ASSUME NEW S, NEW C, S \subseteq C, heap \in Seq(Seq(C)), NEW s, SliceOf(heap, s, S),
         NEW x \in S, NEW z \in S
  PROVE  View(HeapAppend(s, x, z), AppendedTo(s)) = Append(View(heap, s), x)
<1> DEFINE v == View(heap, s)
           h2 == HeapAppend(s, x, z)
           n == s.len
<1>1. /\ v \in Seq(S) /\ Len(v) = n /\ n \in Nat /\ Len(heap) \in Nat
      /\ s.array \in 0 .. Len(heap)
      /\ s # Nil => s.array \in 1 .. Len(heap) /\ heap[s.array] \in Seq(S)
      /\ s # Nil => \A i \in 1 .. n : v[i] = heap[s.array][i]
  BY SMTT(30), ViewIsSeq, LenProperties
<1>2. Append(v, x) \in Seq(S) /\ Append(v, x) = v \o <<x>> /\ Len(Append(v, x)) = n + 1
  BY <1>1, AppendProperties, AppendIsConcat
<1>3. CASE HasRoom(s)
  <2> DEFINE b == s.array
             t == Slice(b, n + 1)
  <2>1. s # Nil /\ n < Len(heap[b])
    BY <1>3 DEF HasRoom, Cap, Nil
  <2>2. /\ b \in 1 .. Len(heap) /\ heap[b] \in Seq(S) /\ n + 1 \in 1 .. Len(heap[b])
        /\ DOMAIN heap = 1 .. Len(heap) /\ DOMAIN heap[b] = 1 .. Len(heap[b])
    BY <1>1, <2>1, LenProperties
  <2>3. AppendedTo(s) = t /\ h2 = [heap EXCEPT ![b][n + 1] = x]
    BY <1>3 DEF AppendedTo, HeapAppend
  <2>4. /\ h2[b][n + 1] = x
        /\ \A i \in 1 .. n : h2[b][i] = v[i]
    BY <1>1, <2>1, <2>2, <2>3
  <2>5. t # Nil /\ t.array = b /\ t.len = n + 1
    BY <2>2 DEF Nil, Slice
  <2>6. View(h2, t) = SubSeq(h2[b], 1, n + 1)
    BY <2>5 DEF View
  <2>7. \A i \in 1 .. n + 1 : h2[b][i] \in S
    <3>1. \A i \in 1 .. n : v[i] \in S
      BY <1>1, ElementOfSeq
    <3>2. \A i \in 1 .. n + 1 : i \in 1 .. n \/ i = n + 1
      BY <1>1
    <3> QED
      BY <2>4, <3>1, <3>2
  <2> HIDE DEF h2, v, t
  <2>8. /\ View(h2, t) \in Seq(S) /\ Len(View(h2, t)) = n + 1
        /\ \A i \in 1 .. n + 1 : View(h2, t)[i] = h2[b][i]
    <3>1. /\ 1 \in Int /\ n + 1 \in Int /\ 1 <= n + 1 /\ n + 1 - 1 + 1 = n + 1
          /\ \A i \in 1 .. n + 1 : 1 + i - 1 = i
      BY <1>1
    <3> HIDE DEF n, b
    <3> DEFINE q == h2[b]
    <3>2. \A i \in 1 .. n + 1 : q[i] \in S
      BY <2>7
    <3> HIDE DEF q
    <3>3. /\ SubSeq(q, 1, n + 1) \in Seq(S)
          /\ Len(SubSeq(q, 1, n + 1)) = IF 1 <= n + 1 THEN n + 1 - 1 + 1 ELSE 0
          /\ \A i \in 1 .. n + 1 - 1 + 1 : SubSeq(q, 1, n + 1)[i] = q[1 + i - 1]
      BY <3>1, <3>2, SubSeqProperties
    <3> QED
      BY <2>6, <3>1, <3>3 DEF q
  <2>9. /\ \A i \in 1 .. n : Append(v, x)[i] = v[i]
        /\ Append(v, x)[n + 1] = x
    BY <1>1, AppendProperties
  <2> HIDE DEF n
  <2>10. ASSUME NEW i \in 1 .. n + 1 PROVE View(h2, t)[i] = Append(v, x)[i]
    <3>1. i \in 1 .. n \/ i = n + 1
      BY <1>1
    <3> QED
      BY <2>4, <2>8, <2>9, <3>1
  <2>11. View(h2, t) = Append(v, x)
    BY <1>2, <2>8, <2>10, SeqEqual
  <2> QED
    BY <2>3, <2>11 DEF h2, v, t
<1>4. CASE ~HasRoom(s)
  <2> DEFINE k == Len(heap) + 1
             m == Cap(s) - 1
             zeros == [i \in 1 .. m |-> z]
             g == (v \o <<x>>) \o zeros
  <2>1. AppendedTo(s) = Slice(k, n + 1) /\ h2 = Append(heap, g)
    <3>1. Elements(s) = v
      BY DEF Elements, View
    <3> QED
      BY <1>4, <3>1 DEF AppendedTo, HeapAppend
  <2>2. zeros \in Seq(S)
    <3>1. m \in Int
      BY <1>1, LenProperties DEF Cap
    <3> HIDE DEF m
    <3> QED
      BY <3>1, ConstantIsSeq
  <2> HIDE DEF zeros
  <2>3. SubSeq(g, 1, n + 1) = v \o <<x>>
    BY <1>2, <2>2, PrefixOfConcat
  <2>4. g \in Seq(C)
    <3>1. Append(v, x) \o zeros \in Seq(S)
      BY <1>2, <2>2, ConcatProperties
    <3> QED
      BY <1>2, <3>1, SeqMonotonic
  <2> HIDE DEF g, v
  <2>5. Append(heap, g)[k] = g
    BY <2>4, AppendProperties
  <2>6. Slice(k, n + 1) # Nil /\ Slice(k, n + 1).array = k /\ Slice(k, n + 1).len = n + 1
    BY <1>1 DEF Nil, Slice
  <2>7. View(Append(heap, g), Slice(k, n + 1)) = SubSeq(g, 1, n + 1)
    BY <2>5, <2>6 DEF View
  <2> QED
    BY <1>2, <2>1, <2>3, <2>7 DEF v
<1> QED
  BY <1>3, <1>4

(* The form sees its list without the one element (configurator.go:481-483, *)
(* 589-591).                                                                *)
LEMMA RemoveView ==
  ASSUME NEW S, NEW C, S \subseteq C, heap \in Seq(Seq(C)), NEW s, SliceOf(heap, s, S),
         NEW i \in 1 .. s.len, NEW z \in S
  PROVE  View(HeapRemove(s, i, z), RemovedFrom(s)) = RemoveAt(View(heap, s), i)
<1> DEFINE v == View(heap, s)
           b == s.array
           n == s.len
           c == Len(heap[b])
           w == RemoveAt(v, i)
           rest == SubSeq(heap[b], n + 1, c)
           g == (w \o <<z>>) \o rest
           t == Slice(b, n - 1)
<1>0. s # Nil
  <2>1. 1 .. 0 = {}
    OBVIOUS
  <2> QED
    BY <2>1 DEF Nil
<1>1. /\ v \in Seq(S) /\ Len(v) = n /\ n \in Nat /\ i \in 1 .. n
      /\ b \in 1 .. Len(heap) /\ n <= c /\ heap[b] \in Seq(S) /\ c \in Nat /\ Len(heap) \in Nat
  BY <1>0, ViewIsSeq, LenProperties
<1>2. HeapRemove(s, i, z) = [heap EXCEPT ![b] = g] /\ RemovedFrom(s) = t
  <2>1. Elements(s) = v /\ Cap(s) = c
    BY <1>0 DEF Elements, View, Cap
  <2> QED
    BY <2>1 DEF HeapRemove, RemovedFrom
<1>3. w \in Seq(S) /\ Len(w) = n - 1
  BY <1>1, RemovedSeq
<1> HIDE DEF w, v
<1>4. rest \in Seq(S)
  <2>1. \A j \in n + 1 .. c : heap[b][j] \in S
    BY <1>1, ElementOfSeq
  <2>2. n + 1 \in Int /\ c \in Int
    BY <1>1
  <2> HIDE DEF n, c, b
  <2> QED
    BY <2>1, <2>2, SubSeqProperties
<1> HIDE DEF rest
<1>5. <<z>> \in Seq(S) /\ <<z>> \o rest \in Seq(S)
  BY <1>4, ConcatProperties
<1>6. g = w \o (<<z>> \o rest)
  BY <1>3, <1>4, <1>5, ConcatAssociative
<1>7. SubSeq(g, 1, n - 1) = w
  BY <1>3, <1>5, <1>6, PrefixOfConcat
<1> HIDE DEF g
<1>8. [heap EXCEPT ![b] = g][b] = g
  BY <1>1, LenProperties
<1>9. t # Nil /\ t.array = b /\ t.len = n - 1
  BY <1>1 DEF Nil, Slice
<1>10. View([heap EXCEPT ![b] = g], t) = SubSeq(g, 1, n - 1)
  BY <1>8, <1>9 DEF View
<1> QED
  BY <1>2, <1>7, <1>10 DEF w, v

------------------------------------------------------------------------------
(* Two kinds of lists, with the slices A and B, share no array.             *)
TwoLists(h, A, S, B, T) ==
  /\ \A s \in A : SliceOf(h, s, S)
  /\ \A u \in B : SliceOf(h, u, T)
  /\ \A s \in A, u \in B : s.array = u.array => s.array = 0

LEMMA TwoListsMove ==
  ASSUME NEW A, NEW S, NEW B, NEW T, NEW C, NEW h \in Seq(Seq(C)), NEW h2, NEW k \in Nat,
         NEW s \in A, NEW s2, TwoLists(h, A, S, B, T), Moves(h, h2, s, s2, S, C, k)
  PROVE  TwoLists(h2, A \cup {s2}, S, B, T)
<1> DEFINE a == s2.array
<1>1. /\ h2 \in Seq(Seq(C)) /\ Keeps(h, h2, a, k) /\ SliceOf(h2, s2, S) /\ a \in Nat /\ a # 0
      /\ a \in 1 .. Len(h) => a = s.array /\ h2[a] \in Seq(S)
  BY DEF Moves
<1>2. ASSUME NEW q \in A PROVE SliceOf(h2, q, S)
  BY <1>1, SlicesStay DEF TwoLists
<1>3. ASSUME NEW u \in B PROVE u.array # a
  <2>1. u.array \in 0 .. Len(h) /\ Len(h) \in Nat
    BY ViewIsSeq, LenProperties DEF TwoLists
  <2>2. CASE a \in 1 .. Len(h)
    BY <1>1, <2>2 DEF TwoLists
  <2>3. CASE a \notin 1 .. Len(h)
    BY <1>1, <2>1, <2>3
  <2> QED
    BY <2>2, <2>3
<1>4. ASSUME NEW u \in B PROVE SliceOf(h2, u, T)
  BY <1>1, <1>3, SlicesStay DEF TwoLists
<1>5. \A q \in A \cup {s2}, u \in B : q.array = u.array => q.array = 0
  BY <1>3 DEF TwoLists
<1> QED
  BY <1>1, <1>2, <1>4, <1>5 DEF TwoLists

(* Neither changes what a list of the other kind looks like.                *)
LEMMA TwoListsApart ==
  ASSUME NEW A, NEW S, NEW B, NEW T, NEW C, NEW h \in Seq(Seq(C)), NEW h2, NEW k \in Nat,
         NEW s \in A, NEW s2, TwoLists(h, A, S, B, T), Moves(h, h2, s, s2, S, C, k), NEW u \in B
  PROVE  View(h2, u) = View(h, u)
<1> DEFINE a == s2.array
<1>1. /\ h2 \in Seq(Seq(C)) /\ Keeps(h, h2, a, k) /\ a \in Nat /\ a # 0
      /\ a \in 1 .. Len(h) => a = s.array
  BY DEF Moves
<1>2. SliceOf(h, u, T)
  BY DEF TwoLists
<1>3. u.array # a
  <2>1. u.array \in 0 .. Len(h) /\ Len(h) \in Nat
    BY <1>2, ViewIsSeq, LenProperties
  <2>2. CASE a \in 1 .. Len(h)
    BY <1>1, <2>2 DEF TwoLists
  <2>3. CASE a \notin 1 .. Len(h)
    BY <1>1, <2>1, <2>3
  <2> QED
    BY <2>2, <2>3
<1> HIDE DEF a
<1> QED
  BY <1>1, <1>2, <1>3, ViewsStay

LEMMA TwoListsSwap ==
  ASSUME NEW h, NEW A, NEW S, NEW B, NEW T, TwoLists(h, A, S, B, T)
  PROVE  TwoLists(h, B, T, A, S)
BY DEF TwoLists

LEMMA TwoListsLess ==
  ASSUME NEW h, NEW A, NEW S, NEW B, NEW T, TwoLists(h, A, S, B, T), NEW D, NEW E, D \subseteq A, E \subseteq B
  PROVE  TwoLists(h, D, S, E, T)
BY DEF TwoLists

(* What was saved of a list, c, is what it was, v, as long as the form's    *)
(* slice f only grows.                                                      *)
LastSaved(h, v, c, f) ==
  \/ v = {} /\ c = Nil
  \/ v = {View(h, c)} /\ (c.array = f.array => c.len <= f.len)

LEMMA LastGrows ==
  ASSUME NEW S, NEW C, NEW h \in Seq(Seq(C)), NEW h2, NEW v, NEW c, NEW f, NEW f2,
         SliceOf(h, c, S), SliceOf(h, f, S), LastSaved(h, v, c, f),
         Moves(h, h2, f, f2, S, C, f.len), f2.len >= f.len, f2.len \in Nat
  PROVE  LastSaved(h2, v, c, f2)
<1>1. /\ c.array \in 0 .. Len(h) /\ Len(h) \in Nat /\ f.len \in Nat /\ c.len \in Nat
      /\ c = Nil => c.array = 0
  <2>1. c.array \in 0 .. Len(h) /\ c.len \in Nat
    BY ViewIsSeq
  <2>2. f.len \in Nat
    BY ViewIsSeq
  <2>3. c = Nil => c.array = 0
    BY DEF Nil
  <2> QED
    BY <2>1, <2>2, <2>3, LenProperties
<1>2. /\ h2 \in Seq(Seq(C)) /\ Keeps(h, h2, f2.array, f.len) /\ f2.array \in Nat /\ f2.array # 0
      /\ f2.array \in 1 .. Len(h) => f2.array = f.array
  BY DEF Moves
<1>3. CASE v = {} /\ c = Nil
  BY <1>3 DEF LastSaved
<1>4. CASE v = {View(h, c)} /\ (c.array = f.array => c.len <= f.len)
  <2>1. c.array = f2.array => c.array = f.array
    BY <1>1, <1>2
  <2>2. c.array = f2.array => c.len <= f.len /\ c.len <= f2.len
    BY <1>1, <1>4, <2>1
  <2>3. View(h2, c) = View(h, c)
    BY <1>1, <1>2, <2>2, ViewsStay
  <2> QED
    BY <1>4, <2>2, <2>3 DEF LastSaved
<1> QED
  BY <1>3, <1>4 DEF LastSaved

LEMMA LastStays ==
  ASSUME NEW S, NEW C, NEW h \in Seq(Seq(C)), NEW h2 \in Seq(Seq(C)), NEW v, NEW c, NEW f,
         NEW a \in Nat, NEW k \in Nat,
         SliceOf(h, c, S), LastSaved(h, v, c, f), Keeps(h, h2, a, k), c.array # a
  PROVE  LastSaved(h2, v, c, f)
BY ViewsStay DEF LastSaved

------------------------------------------------------------------------------
Sections == {"OperationMode", "Sonar", "Logging", "Batch", "Proxy"}

HasParts(o) ==
  /\ Sections \subseteq DOMAIN o
  /\ "Routers" \in DOMAIN o.Batch
  /\ "UpstreamServerIPs" \in DOMAIN o.Proxy

(* Changes of one section, and what is left of the others. *)
Alike(p, o, S) == HasParts(p) /\ \A s \in S : Part(p, s) = Part(o, s)

LEMMA SimplePart ==
  ASSUME NEW o, NEW s \in {"OperationMode", "Sonar", "Logging"} PROVE Part(o, s) = o[s]
BY DEF Part

LEMMA BatchPart == ASSUME NEW o PROVE Part(o, "Batch") = [o.Batch EXCEPT !["Routers"] = <<>>]
BY DEF Part

LEMMA ProxyPart == ASSUME NEW o PROVE Part(o, "Proxy") = [o.Proxy EXCEPT !["UpstreamServerIPs"] = <<>>]
BY DEF Part

LEMMA ListParts ==
  ASSUME NEW o
  PROVE  Part(o, "Routers") = o.Batch.Routers /\ Part(o, "UpstreamServerIPs") = o.Proxy.UpstreamServerIPs
BY DEF Part

LEMMA TwiceSet ==
  ASSUME NEW f, NEW k, NEW x, NEW y
  PROVE  [[f EXCEPT ![k] = x] EXCEPT ![k] = y] = [f EXCEPT ![k] = y]
OBVIOUS

LEMMA ChangeSimple ==
  ASSUME NEW o, NEW s \in {"OperationMode", "Sonar", "Logging"}, NEW v, HasParts(o)
  PROVE  LET p == [o EXCEPT ![s] = v] IN
         Alike(p, o, Sections \ {s}) /\ p.Batch = o.Batch /\ p.Proxy = o.Proxy
<1> DEFINE p == [o EXCEPT ![s] = v]
<1>1. DOMAIN p = DOMAIN o /\ \A x \in DOMAIN o : x # s => p[x] = o[x]
  OBVIOUS
<1> HIDE DEF p
<1>2. \A x \in Sections \ {s} : p[x] = o[x]
  BY <1>1 DEF HasParts
<1>3. p["Batch"] = o["Batch"] /\ p["Proxy"] = o["Proxy"]
  BY <1>2 DEF Sections
<1>4. \A x \in Sections \ {s} : Part(p, x) = Part(o, x)
  <2>1. Part(p, "Batch") = Part(o, "Batch")
    BY <1>3, BatchPart
  <2>2. Part(p, "Proxy") = Part(o, "Proxy")
    BY <1>3, ProxyPart
  <2>3. \A x \in {"OperationMode", "Sonar", "Logging"} \ {s} : Part(p, x) = Part(o, x)
    BY <1>2, SimplePart DEF Sections
  <2> QED
    BY <2>1, <2>2, <2>3 DEF Sections
<1>5. HasParts(p)
  BY <1>1, <1>3 DEF HasParts
<1> QED
  BY <1>3, <1>4, <1>5 DEF Alike, p

LEMMA ChangeBatch ==
  ASSUME NEW o, NEW b, HasParts(o), "Routers" \in DOMAIN b
  PROVE  LET p == [o EXCEPT !["Batch"] = b] IN
         Alike(p, o, Sections \ {"Batch"}) /\ p.Batch = b /\ p.Proxy = o.Proxy
<1> DEFINE p == [o EXCEPT !["Batch"] = b]
<1>1. DOMAIN p = DOMAIN o /\ p["Batch"] = b /\ \A x \in DOMAIN o : x # "Batch" => p[x] = o[x]
  BY DEF HasParts, Sections
<1> HIDE DEF p
<1>2. \A x \in Sections \ {"Batch"} : p[x] = o[x]
  BY <1>1 DEF HasParts
<1>3. p["Proxy"] = o["Proxy"]
  BY <1>2 DEF Sections
<1>4. \A x \in Sections \ {"Batch"} : Part(p, x) = Part(o, x)
  <2>1. Part(p, "Proxy") = Part(o, "Proxy")
    BY <1>3, ProxyPart
  <2>2. \A x \in {"OperationMode", "Sonar", "Logging"} \ {"Batch"} : Part(p, x) = Part(o, x)
    BY <1>2, SimplePart DEF Sections
  <2> QED
    BY <2>1, <2>2 DEF Sections
<1>5. HasParts(p)
  BY <1>1, <1>3 DEF HasParts
<1> QED
  BY <1>1, <1>3, <1>4, <1>5 DEF Alike, p

LEMMA ChangeProxy ==
  ASSUME NEW o, NEW b, HasParts(o), "UpstreamServerIPs" \in DOMAIN b
  PROVE  LET p == [o EXCEPT !["Proxy"] = b] IN
         Alike(p, o, Sections \ {"Proxy"}) /\ p.Proxy = b /\ p.Batch = o.Batch
<1> DEFINE p == [o EXCEPT !["Proxy"] = b]
<1>1. DOMAIN p = DOMAIN o /\ p["Proxy"] = b /\ \A x \in DOMAIN o : x # "Proxy" => p[x] = o[x]
  BY DEF HasParts, Sections
<1> HIDE DEF p
<1>2. \A x \in Sections \ {"Proxy"} : p[x] = o[x]
  BY <1>1 DEF HasParts
<1>3. p["Batch"] = o["Batch"]
  BY <1>2 DEF Sections
<1>4. \A x \in Sections \ {"Proxy"} : Part(p, x) = Part(o, x)
  <2>1. Part(p, "Batch") = Part(o, "Batch")
    BY <1>3, BatchPart
  <2>2. \A x \in {"OperationMode", "Sonar", "Logging"} \ {"Proxy"} : Part(p, x) = Part(o, x)
    BY <1>2, SimplePart DEF Sections
  <2> QED
    BY <2>1, <2>2 DEF Sections
<1>5. HasParts(p)
  BY <1>1, <1>3 DEF HasParts
<1> QED
  BY <1>1, <1>3, <1>4, <1>5 DEF Alike, p

LEMMA ChangeRouters ==
  ASSUME NEW o, NEW l, HasParts(o)
  PROVE  LET p == [o EXCEPT !["Batch"] = [o["Batch"] EXCEPT !["Routers"] = l]] IN
         Alike(p, o, Sections) /\ p.Batch.Routers = l /\ p.Proxy = o.Proxy
<1> DEFINE b == [o["Batch"] EXCEPT !["Routers"] = l]
           p == [o EXCEPT !["Batch"] = b]
<1>1. "Routers" \in DOMAIN b /\ b["Routers"] = l
  BY DEF HasParts
<1>2. [b EXCEPT !["Routers"] = <<>>] = [o["Batch"] EXCEPT !["Routers"] = <<>>]
  BY TwiceSet
<1> HIDE DEF b
<1>3. Alike(p, o, Sections \ {"Batch"}) /\ p.Batch = b /\ p.Proxy = o.Proxy
  BY <1>1, ChangeBatch
<1> HIDE DEF p
<1>4. Part(p, "Batch") = Part(o, "Batch")
  BY <1>2, <1>3, BatchPart
<1> QED
  BY <1>1, <1>3, <1>4 DEF Alike, p, b

LEMMA ChangeServers ==
  ASSUME NEW o, NEW l, HasParts(o)
  PROVE  LET p == [o EXCEPT !["Proxy"] = [o["Proxy"] EXCEPT !["UpstreamServerIPs"] = l]] IN
         Alike(p, o, Sections) /\ p.Proxy.UpstreamServerIPs = l /\ p.Batch = o.Batch
<1> DEFINE b == [o["Proxy"] EXCEPT !["UpstreamServerIPs"] = l]
           p == [o EXCEPT !["Proxy"] = b]
<1>1. "UpstreamServerIPs" \in DOMAIN b /\ b["UpstreamServerIPs"] = l
  BY DEF HasParts
<1>2. [b EXCEPT !["UpstreamServerIPs"] = <<>>] = [o["Proxy"] EXCEPT !["UpstreamServerIPs"] = <<>>]
  BY TwiceSet
<1> HIDE DEF b
<1>3. Alike(p, o, Sections \ {"Proxy"}) /\ p.Proxy = b /\ p.Batch = o.Batch
  BY <1>1, ChangeProxy
<1> HIDE DEF p
<1>4. Part(p, "Proxy") = Part(o, "Proxy")
  BY <1>2, <1>3, ProxyPart
<1> QED
  BY <1>1, <1>3, <1>4 DEF Alike, p, b

(* What is written of each section. *)
LEMMA WrittenParts ==
  ASSUME NEW o, HasParts(o)
  PROVE  /\ Alike(Written(o), o, Sections)
         /\ Part(Written(o), "Routers") = View(heap, o.Batch.Routers)
         /\ Part(Written(o), "UpstreamServerIPs") = View(heap, o.Proxy.UpstreamServerIPs)
<1> DEFINE R == Elements(o["Batch"]["Routers"])
           p == [o EXCEPT !["Batch"] = [o["Batch"] EXCEPT !["Routers"] = R]]
           U == Elements(p["Proxy"]["UpstreamServerIPs"])
           q == [p EXCEPT !["Proxy"] = [p["Proxy"] EXCEPT !["UpstreamServerIPs"] = U]]
<1>1. Written(o) = q
  BY DEF Written
<1> HIDE DEF R
<1>2. Alike(p, o, Sections) /\ p.Batch.Routers = R /\ p.Proxy = o.Proxy
  BY ChangeRouters
<1> HIDE DEF p, U
<1>3. HasParts(p)
  BY <1>2 DEF Alike
<1>4. Alike(q, p, Sections) /\ q.Proxy.UpstreamServerIPs = U /\ q.Batch = p.Batch
  BY <1>3, ChangeServers
<1> HIDE DEF q
<1>5. Alike(q, o, Sections)
  BY <1>2, <1>4 DEF Alike
<1>6. q.Batch.Routers = R /\ q.Proxy.UpstreamServerIPs = U
  BY <1>2, <1>4
<1>7. R = View(heap, o.Batch.Routers) /\ U = View(heap, o.Proxy.UpstreamServerIPs)
  BY <1>2 DEF R, U, Elements, View
<1> QED
  BY <1>1, <1>5, <1>6, <1>7, ListParts

LEMMA ChangeOther ==
  ASSUME NEW o, NEW k, NEW v, HasParts(o), k \notin {"Batch", "Proxy"}
  PROVE  LET p == [o EXCEPT ![k] = v] IN HasParts(p) /\ p.Batch = o.Batch /\ p.Proxy = o.Proxy
<1> DEFINE p == [o EXCEPT ![k] = v]
<1>1. DOMAIN p = DOMAIN o /\ \A x \in DOMAIN o : x # k => p[x] = o[x]
  OBVIOUS
<1> HIDE DEF p
<1>2. p["Batch"] = o["Batch"] /\ p["Proxy"] = o["Proxy"]
  BY <1>1 DEF HasParts, Sections
<1>3. HasParts(p)
  BY <1>1, <1>2 DEF HasParts
<1> QED
  BY <1>2, <1>3 DEF p

LEMMA NoOptions ==
  /\ HasParts(programConfig) /\ programConfig.Batch.Routers = <<>> /\ programConfig.Proxy.UpstreamServerIPs = <<>>
  /\ Alike(Empty, programConfig, Sections)
  /\ Empty.Batch.Routers = Nil /\ Empty.Proxy.UpstreamServerIPs = Nil
<1> DEFINE o == programConfig
           p == [o EXCEPT !["Batch"] = [o["Batch"] EXCEPT !["Routers"] = Nil]]
           q == [p EXCEPT !["Proxy"] = [p["Proxy"] EXCEPT !["UpstreamServerIPs"] = Nil]]
<1>1. HasParts(o) /\ o.Batch.Routers = <<>> /\ o.Proxy.UpstreamServerIPs = <<>>
  BY DEF programConfig, HasParts, Sections
<1>2. Empty = q
  BY DEF Empty
<1> HIDE DEF o
<1>3. Alike(p, o, Sections) /\ p.Batch.Routers = Nil /\ p.Proxy = o.Proxy
  BY <1>1, ChangeRouters
<1> HIDE DEF p
<1>4. HasParts(p)
  BY <1>3 DEF Alike
<1>5. Alike(q, p, Sections) /\ q.Proxy.UpstreamServerIPs = Nil /\ q.Batch = p.Batch
  BY <1>4, ChangeServers
<1> HIDE DEF q
<1> QED
  BY <1>1, <1>2, <1>3, <1>5 DEF Alike, o

------------------------------------------------------------------------------
RouterCell == WholeRouter \cup {batchRouterAuth} \cup torn
ServerCell == Server \cup {""}
Cell == RouterCell \cup ServerCell

RouterLists == {tmpCfgRouters, config.Batch.Routers, form.Batch.Routers}
ServerLists == {config.Proxy.UpstreamServerIPs, form.Proxy.UpstreamServerIPs}

Arrays ==
  heap \in Seq(Seq(Cell)) /\ TwoLists(heap, RouterLists, RouterCell, ServerLists, ServerCell)

(* config has of section s what was saved of it, or nothing. *)
Kept(s) ==
  \/ saved[s] = {} /\ Part(config, s) = Part(programConfig, s)
  \/ saved[s] = {Part(config, s)}

KeptRouters == "Routers" \notin loose => LastSaved(heap, saved["Routers"], config.Batch.Routers, tmpCfgRouters)
KeptServers ==
  "UpstreamServerIPs" \notin loose =>
    LastSaved(heap, saved["UpstreamServerIPs"], config.Proxy.UpstreamServerIPs, form.Proxy.UpstreamServerIPs)

Editing ==
  /\ HasParts(config) /\ HasParts(form)
  /\ Arrays
  /\ \A s \in Sections : Kept(s)
  /\ KeptRouters
  /\ KeptServers

FileOK == file # Unreadable => HasParts(file) /\ file.Batch.Routers \in Seq(RouterCell)

(* Inside a session the options to be written are what was saved, in arrays *)
(* that hold whole routers and blanks; afterwards the file is.              *)
SaveInv ==
  /\ FileOK
  /\ phase = "configurator" => Editing
  /\ phase # "configurator" => config = Empty
  /\ WritesWhatWasSaved

LEMMA Cells == RouterCell \subseteq Cell /\ ServerCell \subseteq Cell /\ batchRouterAuth \in RouterCell /\ "" \in ServerCell
BY DEF Cell, RouterCell, ServerCell

LEMMA SameCells == ASSUME torn' = torn PROVE RouterCell' = RouterCell /\ Cell' = Cell
BY DEF Cell, RouterCell

LEMMA InSession ==
  ASSUME SaveInv, phase = "configurator", UNCHANGED programVars, Editing'
  PROVE  SaveInv'
<1>1. RouterCell' = RouterCell
  BY SameCells DEF programVars
<1> QED
  BY <1>1 DEF SaveInv, FileOK, programVars, WritesWhatWasSaved

(* The slice of the router form changes, and with it the arrays.            *)
LEMMA RoutersMove ==
  ASSUME Editing, UNCHANGED <<torn, config, form, saved>>, loose \subseteq loose', NEW k \in Nat,
         Moves(heap, heap', tmpCfgRouters, tmpCfgRouters', RouterCell, Cell, k), KeptRouters'
  PROVE  Editing'
<1>1. heap \in Seq(Seq(Cell)) /\ TwoLists(heap, RouterLists, RouterCell, ServerLists, ServerCell)
  BY DEF Editing, Arrays
<1>2. TwoLists(heap', RouterLists \cup {tmpCfgRouters'}, RouterCell, ServerLists, ServerCell)
  <2>1. tmpCfgRouters \in RouterLists
    BY DEF RouterLists
  <2> QED
    BY <1>1, <2>1, TwoListsMove
<1>3. RouterLists' \subseteq RouterLists \cup {tmpCfgRouters'} /\ ServerLists' = ServerLists
  BY DEF RouterLists, ServerLists
<1>4. Arrays'
  <2>1. TwoLists(heap', RouterLists', RouterCell, ServerLists', ServerCell)
    BY <1>2, <1>3, TwoListsLess
  <2>2. heap' \in Seq(Seq(Cell))
    BY DEF Moves
  <2> QED
    BY <2>1, <2>2, SameCells DEF Arrays
<1>5. KeptServers'
  <2> DEFINE c == config.Proxy.UpstreamServerIPs
             f == form.Proxy.UpstreamServerIPs
             a == tmpCfgRouters'.array
  <2>1. c \in ServerLists
    BY DEF ServerLists
  <2>2. SliceOf(heap, c, ServerCell)
    BY <1>1, <2>1 DEF TwoLists
  <2>3. heap' \in Seq(Seq(Cell)) /\ Keeps(heap, heap', a, k) /\ a \in Nat /\ a # 0
    BY DEF Moves
  <2>4. c.array # a
    BY <1>2, <2>1, <2>3 DEF TwoLists
  <2>5. ASSUME "UpstreamServerIPs" \notin loose'
        PROVE  LastSaved(heap, saved["UpstreamServerIPs"], c, f)
    BY <2>5 DEF Editing, KeptServers
  <2> HIDE DEF c, f, a
  <2>6. ASSUME "UpstreamServerIPs" \notin loose'
        PROVE  LastSaved(heap', saved["UpstreamServerIPs"], c, f)
    BY <1>1, <2>2, <2>3, <2>4, <2>5, <2>6, LastStays
  <2> QED
    BY <2>6 DEF KeptServers, c, f
<1> QED
  BY <1>4, <1>5 DEF Editing, Kept

(* The same for the DHCP servers, whose slice is the form's.                *)
LEMMA ServersMove ==
  ASSUME Editing, UNCHANGED <<torn, config, tmpCfgRouters, saved>>, loose \subseteq loose', NEW k \in Nat, NEW l,
         form' = [form EXCEPT !["Proxy"] = [form["Proxy"] EXCEPT !["UpstreamServerIPs"] = l]],
         Moves(heap, heap', Upstream, l, ServerCell, Cell, k),
         "UpstreamServerIPs" \notin loose' =>
           LastSaved(heap', saved["UpstreamServerIPs"], config.Proxy.UpstreamServerIPs, l)
  PROVE  Editing'
<1>1. heap \in Seq(Seq(Cell)) /\ TwoLists(heap, RouterLists, RouterCell, ServerLists, ServerCell)
  BY DEF Editing, Arrays
<1>2. HasParts(form') /\ form'.Proxy.UpstreamServerIPs = l /\ form'.Batch = form.Batch
  BY ChangeServers DEF Editing, Alike
<1>3. TwoLists(heap', RouterLists, RouterCell, ServerLists \cup {l}, ServerCell)
  <2>1. Upstream \in ServerLists
    BY DEF ServerLists, Upstream
  <2>2. TwoLists(heap, ServerLists, ServerCell, RouterLists, RouterCell)
    BY <1>1, TwoListsSwap
  <2>3. TwoLists(heap', ServerLists \cup {l}, ServerCell, RouterLists, RouterCell)
    BY <1>1, <2>1, <2>2, TwoListsMove
  <2> QED
    BY <2>3, TwoListsSwap
<1>4. ServerLists' \subseteq ServerLists \cup {l} /\ RouterLists' = RouterLists
  BY <1>2 DEF RouterLists, ServerLists
<1>5. Arrays'
  <2>1. TwoLists(heap', RouterLists', RouterCell, ServerLists', ServerCell)
    BY <1>3, <1>4, TwoListsLess
  <2>2. heap' \in Seq(Seq(Cell))
    BY DEF Moves
  <2> QED
    BY <2>1, <2>2, SameCells DEF Arrays
<1>6. KeptRouters'
  <2> DEFINE c == config.Batch.Routers
             a == l.array
  <2>1. c \in RouterLists /\ l \in ServerLists \cup {l}
    BY DEF RouterLists
  <2>2. SliceOf(heap, c, RouterCell)
    BY <1>1, <2>1 DEF TwoLists
  <2>3. heap' \in Seq(Seq(Cell)) /\ Keeps(heap, heap', a, k) /\ a \in Nat /\ a # 0
    BY DEF Moves
  <2>4. c.array # a
    BY <1>3, <2>1, <2>3 DEF TwoLists
  <2>5. ASSUME "Routers" \notin loose'
        PROVE  LastSaved(heap, saved["Routers"], c, tmpCfgRouters)
    BY <2>5 DEF Editing, KeptRouters
  <2> HIDE DEF c, a
  <2>6. ASSUME "Routers" \notin loose'
        PROVE  LastSaved(heap', saved["Routers"], c, tmpCfgRouters)
    BY <1>1, <2>2, <2>3, <2>4, <2>5, <2>6, LastStays
  <2> QED
    BY <2>6 DEF KeptRouters, c
<1>7. KeptServers'
  BY <1>2 DEF KeptServers
<1> QED
  BY <1>2, <1>5, <1>6, <1>7 DEF Editing, Kept

LEMMA CompleteIsCell == ASSUME NEW r \in Router, Complete(r) PROVE r \in RouterCell
<1>1. r["Username"] # "" /\ r["Password"] # "" /\ r["RouterIP"] # ""
  BY TextsOK DEF Complete
<1>2. DOMAIN r = {"Username", "Password", "RouterIP"}
  BY RoutersOK DEF batchRouterAuth
<1> QED
  BY <1>1, <1>2 DEF RouterCell, WholeRouter, Filled

(* The largest index there is. *)
LEMMA LargestIndex ==
  ASSUME NEW n \in Nat, NEW I, I \subseteq 1 .. n, I # {} PROVE Max(I) \in I
<1> DEFINE R == {ss \in Nat \X Nat : ss[1] < ss[2]}
           T == {n - i : i \in I}
<1>1. IsWellFoundedOn(R, Nat)
  BY NatLessThanWellFounded DEF OpToRel
<1>2. \A i \in I : i \in Nat /\ n - i \in Nat
  OBVIOUS
<1>3. T \subseteq Nat /\ T # {}
  BY <1>2
<1> HIDE DEF T
<1>4. PICK x \in T : \A y \in T : <<y, x>> \notin R
  BY <1>1, <1>3, WFMin
<1>5. \A y \in T : x <= y
  <2>1. ASSUME NEW y \in T, y < x PROVE FALSE
    <3>1. <<y, x>> \in R
      BY <1>3, <2>1
    <3> QED
      BY <1>4, <3>1
  <2> QED
    BY <1>3, <2>1
<1>6. PICK i \in I : x = n - i
  BY DEF T
<1>7. \A j \in I : i >= j
  <2> TAKE j \in I
  <2>1. n - j \in T
    BY DEF T
  <2>2. n - i <= n - j
    BY <1>5, <1>6, <2>1
  <2> QED
    BY <1>2, <2>2
<1>8. \E k \in I : \A j \in I : k >= j
  BY <1>7
<1> QED
  BY <1>8 DEF Max

LEMMA ElementsLength ==
  ASSUME NEW S, NEW C, heap \in Seq(Seq(C)), NEW s, SliceOf(heap, s, S)
  PROVE  Len(Elements(s)) = s.len /\ s.len \in Nat
<1>1. Elements(s) = View(heap, s)
  BY DEF Elements, View
<1>2. View(heap, s) \in Seq(S) /\ Len(View(heap, s)) = s.len /\ s.len \in Nat
  BY ViewIsSeq
<1> QED
  BY <1>1, <1>2

------------------------------------------------------------------------------
LEMMA RouterFormKeeps ==
  ASSUME SaveInv, NEW r, NEW row, (r \in Router /\ AddRouter(r)) \/ RemoveRouter(row)
  PROVE  SaveInv'
<1>1. /\ phase = "configurator" /\ UNCHANGED programVars /\ UNCHANGED <<torn, config, form, saved>>
      /\ loose \subseteq loose'
  BY DEF AddRouter, RemoveRouter, In, historyVars, programVars
<1>2. Editing /\ heap \in Seq(Seq(Cell)) /\ TwoLists(heap, RouterLists, RouterCell, ServerLists, ServerCell)
  BY <1>1 DEF SaveInv, Editing, Arrays
<1>3. SliceOf(heap, tmpCfgRouters, RouterCell) /\ SliceOf(heap, config.Batch.Routers, RouterCell)
  BY <1>2 DEF TwoLists, RouterLists
<1>4. CASE r \in Router /\ AddRouter(r)
  <2>1. /\ tmpCfgRouters' = AppendedTo(tmpCfgRouters)
        /\ heap' = HeapAppend(tmpCfgRouters, r, batchRouterAuth)
        /\ loose' = loose
    BY <1>4 DEF AddRouter, historyVars
  <2>2. r \in RouterCell
    BY <1>4, CompleteIsCell DEF AddRouter
  <2>3. /\ Moves(heap, heap', tmpCfgRouters, tmpCfgRouters', RouterCell, Cell, tmpCfgRouters.len)
        /\ tmpCfgRouters'.len >= tmpCfgRouters.len
    BY <1>2, <1>3, <2>1, <2>2, Cells, AppendMoves
  <2>4. tmpCfgRouters.len \in Nat
    BY <1>2, <1>3, ViewIsSeq
  <2>5. tmpCfgRouters'.len \in Nat
    BY <2>3, ViewIsSeq DEF Moves
  <2>6. KeptRouters'
    <3> SUFFICES ASSUME "Routers" \notin loose
                 PROVE  LastSaved(heap', saved["Routers"], config.Batch.Routers, tmpCfgRouters')
      BY <1>1, <2>1 DEF KeptRouters
    <3>1. LastSaved(heap, saved["Routers"], config.Batch.Routers, tmpCfgRouters)
      BY <1>2 DEF Editing, KeptRouters
    <3> QED
      BY <1>2, <1>3, <2>3, <2>5, <3>1, LastGrows
  <2>7. Editing'
    BY <1>1, <1>2, <2>3, <2>4, <2>6, RoutersMove
  <2> QED
    BY <1>1, <2>7, InSession
<1>5. CASE RemoveRouter(row)
  <2>1. "Routers" \in loose'
    BY <1>5 DEF RemoveRouter
  <2>2. KeptRouters'
    BY <2>1 DEF KeptRouters
  <2>3. CASE Match(row) = 0
    <3>1. UNCHANGED <<tmpCfgRouters, heap>> /\ loose' = loose \cup {"Routers"}
      BY <1>5, <2>3 DEF RemoveRouter
    <3>2. Editing'
      BY <1>1, <1>2, <2>2, <3>1, SameCells
         DEF Editing, Arrays, Kept, KeptServers, RouterLists, ServerLists
    <3> QED
      BY <1>1, <3>2, InSession
  <2>4. CASE Match(row) # 0
    <3>1. /\ tmpCfgRouters' = RemovedFrom(tmpCfgRouters)
          /\ heap' = HeapRemove(tmpCfgRouters, Match(row), batchRouterAuth)
      BY <1>5, <2>4 DEF RemoveRouter
    <3>2. Match(row) \in 1 .. tmpCfgRouters.len
      <4> DEFINE q == Elements(tmpCfgRouters)
                 I == {i \in 1 .. Len(q) : q[i].RouterIP = shown.Routers[row].RouterIP}
      <4>1. Len(q) = tmpCfgRouters.len /\ Len(q) \in Nat
        BY <1>2, <1>3, ElementsLength
      <4>2. Match(row) = IF I # {} THEN Max(I) ELSE 0
        BY DEF Match, SelectLastInSeq
      <4> HIDE DEF q
      <4>3. I # {} /\ Match(row) = Max(I)
        BY <2>4, <4>2
      <4>4. I \subseteq 1 .. Len(q)
        OBVIOUS
      <4> HIDE DEF I
      <4> QED
        BY <4>1, <4>3, <4>4, LargestIndex
    <3>3. Moves(heap, heap', tmpCfgRouters, tmpCfgRouters', RouterCell, Cell, 0)
      BY <1>2, <1>3, <3>1, <3>2, Cells, RemoveMoves
    <3>4. Editing'
      <4>1. 0 \in Nat
        OBVIOUS
      <4> QED
        BY <1>1, <1>2, <2>2, <3>3, <4>1, RoutersMove
    <3> QED
      BY <1>1, <3>4, InSession
  <2> QED
    BY <2>3, <2>4
<1> QED
  BY <1>4, <1>5

LEMMA ServerFormKeeps ==
  ASSUME SaveInv, NEW ip, NEW row, (ip \in Server /\ AddServer(ip)) \/ RemoveServer(row)
  PROVE  SaveInv'
<1>1. /\ phase = "configurator" /\ UNCHANGED programVars /\ UNCHANGED <<torn, config, tmpCfgRouters, saved>>
      /\ loose \subseteq loose'
  BY DEF AddServer, RemoveServer, In, historyVars, programVars
<1>2. Editing /\ heap \in Seq(Seq(Cell)) /\ TwoLists(heap, RouterLists, RouterCell, ServerLists, ServerCell)
  BY <1>1 DEF SaveInv, Editing, Arrays
<1>3. SliceOf(heap, Upstream, ServerCell) /\ SliceOf(heap, config.Proxy.UpstreamServerIPs, ServerCell)
  BY <1>2 DEF TwoLists, ServerLists, Upstream
<1>4. CASE UNCHANGED <<form, heap>>
  <2>1. "UpstreamServerIPs" \notin loose' => "UpstreamServerIPs" \notin loose
    BY <1>1
  <2>2. "Routers" \notin loose' => "Routers" \notin loose
    BY <1>1
  <2>3. Editing'
    BY <1>1, <1>2, <1>4, <2>1, <2>2, SameCells
       DEF Editing, Arrays, Kept, KeptServers, KeptRouters, RouterLists, ServerLists
  <2> QED
    BY <1>1, <2>3, InSession
<1>5. CASE ip \in Server /\ AddServer(ip) /\ ~Listed(ip)
  <2> DEFINE l == AppendedTo(Upstream)
  <2>1. /\ form' = [form EXCEPT !["Proxy"] = [form["Proxy"] EXCEPT !["UpstreamServerIPs"] = l]]
        /\ heap' = HeapAppend(Upstream, ip, "")
        /\ loose' = loose
    BY <1>5 DEF AddServer, historyVars, Upstream
  <2>2. ip \in ServerCell
    BY <1>5 DEF ServerCell
  <2>3. Moves(heap, heap', Upstream, l, ServerCell, Cell, Upstream.len) /\ l.len >= Upstream.len
    BY <1>2, <1>3, <2>1, <2>2, Cells, AppendMoves
  <2> HIDE DEF l
  <2>4. Upstream.len \in Nat
    BY <1>2, <1>3, ViewIsSeq
  <2>5. l.len \in Nat
    BY <2>3, ViewIsSeq DEF Moves
  <2>6. ASSUME "UpstreamServerIPs" \notin loose'
        PROVE  LastSaved(heap', saved["UpstreamServerIPs"], config.Proxy.UpstreamServerIPs, l)
    <3>1. LastSaved(heap, saved["UpstreamServerIPs"], config.Proxy.UpstreamServerIPs, Upstream)
      BY <1>2, <2>1, <2>6 DEF Editing, KeptServers, Upstream
    <3> QED
      BY <1>2, <1>3, <2>3, <2>5, <3>1, LastGrows
  <2>7. Editing'
    BY <1>1, <1>2, <2>1, <2>3, <2>4, <2>6, ServersMove
  <2> QED
    BY <1>1, <2>7, InSession
<1>6. CASE RemoveServer(row) /\ ~UNCHANGED <<form, heap>>
  <2> DEFINE l == RemovedFrom(Upstream)
             q == Elements(Upstream)
             I == {i \in 1 .. Len(q) : q[i] = shown.UpstreamServerIPs[row]}
             i == SelectLastInSeq(q, LAMBDA x : x = shown.UpstreamServerIPs[row])
  <2>1. /\ i # 0
        /\ form' = [form EXCEPT !["Proxy"] = [form["Proxy"] EXCEPT !["UpstreamServerIPs"] = l]]
        /\ heap' = HeapRemove(Upstream, i, "")
        /\ "UpstreamServerIPs" \in loose'
    BY <1>6 DEF RemoveServer, Upstream
  <2>2. i \in 1 .. Upstream.len
    <3>1. Len(q) = Upstream.len /\ Len(q) \in Nat
      BY <1>2, <1>3, ElementsLength
    <3>2. i = IF I # {} THEN Max(I) ELSE 0
      BY DEF SelectLastInSeq
    <3> HIDE DEF q, i
    <3>3. I # {} /\ i = Max(I)
      BY <2>1, <3>2
    <3>4. I \subseteq 1 .. Len(q)
      OBVIOUS
    <3> HIDE DEF I
    <3> QED
      BY <3>1, <3>3, <3>4, LargestIndex
  <2> HIDE DEF i
  <2>3. Moves(heap, heap', Upstream, l, ServerCell, Cell, 0)
    BY <1>2, <1>3, <2>1, <2>2, Cells, RemoveMoves
  <2> HIDE DEF l
  <2>4. Editing'
    <3>1. 0 \in Nat
      OBVIOUS
    <3> QED
      BY <1>1, <1>2, <2>1, <2>3, <3>1, ServersMove
  <2> QED
    BY <1>1, <2>4, InSession
<1>7. AddServer(ip) /\ Listed(ip) => UNCHANGED <<form, heap>>
  BY DEF AddServer
<1> QED
  BY <1>4, <1>5, <1>6, <1>7

Typing ==
  \/ \E s \in DOMAIN Fields : Type(s)
  \/ Show("OperationMode", "OperationMode")
  \/ Show("Batch", "ServerIP")

(* No field of a form is one of its lists. *)
LEMMA TypingLeavesLists ==
  ASSUME HasParts(form), Typing
  PROVE  /\ HasParts(form') /\ form'.Batch.Routers = form.Batch.Routers
         /\ form'.Proxy.UpstreamServerIPs = form.Proxy.UpstreamServerIPs
<1> DEFINE Same == /\ HasParts(form') /\ form'.Batch.Routers = form.Batch.Routers
                   /\ form'.Proxy.UpstreamServerIPs = form.Proxy.UpstreamServerIPs
<1>1. ASSUME NEW s \in DOMAIN Fields, Type(s) PROVE Same
  <2>1. PICK f \in Fields[s] : \E v \in Input[s][f] : form' = [form EXCEPT ![s][f] = v]
    BY <1>1 DEF Type
  <2>2. PICK v \in Input[s][f] : form' = [form EXCEPT ![s] = [form[s] EXCEPT ![f] = v]]
    BY <2>1
  <2> DEFINE b == [form[s] EXCEPT ![f] = v]
  <2>3. s \in {"Sonar", "Batch", "Proxy", "Logging"}
    BY DEF Fields
  <2>4. f \notin {"Routers", "UpstreamServerIPs"}
    BY <2>3 DEF Fields
  <2>5. CASE s = "Batch"
    <3>1. "Routers" \in DOMAIN b /\ b["Routers"] = form["Batch"]["Routers"]
      BY <2>4, <2>5, OtherField DEF HasParts
    <3>2. form' = [form EXCEPT !["Batch"] = b]
      BY <2>2, <2>5
    <3> HIDE DEF b
    <3>3. HasParts(form') /\ form'.Batch = b /\ form'.Proxy = form.Proxy
      BY <3>1, <3>2, ChangeBatch DEF Alike
    <3> QED
      BY <3>1, <3>3
  <2>6. CASE s = "Proxy"
    <3>1. "UpstreamServerIPs" \in DOMAIN b /\ b["UpstreamServerIPs"] = form["Proxy"]["UpstreamServerIPs"]
      BY <2>4, <2>6, OtherField DEF HasParts
    <3>2. form' = [form EXCEPT !["Proxy"] = b]
      BY <2>2, <2>6
    <3> HIDE DEF b
    <3>3. HasParts(form') /\ form'.Proxy = b /\ form'.Batch = form.Batch
      BY <3>1, <3>2, ChangeProxy DEF Alike
    <3> QED
      BY <3>1, <3>3
  <2>7. CASE s \notin {"Batch", "Proxy"}
    <3>1. HasParts(form') /\ form'.Batch = form.Batch /\ form'.Proxy = form.Proxy
      BY ZenonT(60), <2>2, <2>7, ChangeOther
    <3> QED
      BY <3>1
  <2> QED
    BY <2>5, <2>6, <2>7
<1>2. ASSUME NEW s, NEW f, f \notin {"Batch", "Proxy"}, Show(s, f) PROVE Same
  <2>1. PICK v \in Input[s][f] : form' = [form EXCEPT ![f] = v]
    BY <1>2 DEF Show
  <2>2. HasParts(form') /\ form'.Batch = form.Batch /\ form'.Proxy = form.Proxy
    BY <1>2, <2>1, ChangeOther
  <2> QED
    BY <2>2
<1> QED
  BY <1>1, <1>2 DEF Typing

LEMMA TypingKeeps == ASSUME SaveInv, Typing PROVE SaveInv'
<1>1. /\ phase = "configurator"
      /\ UNCHANGED <<programVars, torn, config, tmpCfgRouters, heap, saved, loose>>
  BY DEF Typing, Type, Show, In, historyVars, programVars
<1>2. Editing
  BY <1>1 DEF SaveInv
<1>3. /\ HasParts(form') /\ form'.Batch.Routers = form.Batch.Routers
      /\ form'.Proxy.UpstreamServerIPs = form.Proxy.UpstreamServerIPs
  BY <1>2, TypingLeavesLists DEF Editing
<1>4. Editing'
  BY <1>1, <1>2, <1>3, SameCells
     DEF Editing, Arrays, Kept, KeptServers, KeptRouters, RouterLists, ServerLists
<1> QED
  BY <1>1, <1>4, InSession

(* SAVE remembers what config then holds of the sections in S.              *)
LEMMA Remembered ==
  ASSUME Editing, NEW S, Remember(S), UNCHANGED heap, HasParts(config'),
         \A s \in Sections \ S : Part(config', s) = Part(config, s)
  PROVE  /\ \A s \in Sections : Kept(s)'
         /\ "Routers" \in S => saved'["Routers"] = {View(heap, config'.Batch.Routers)}
         /\ "UpstreamServerIPs" \in S =>
              saved'["UpstreamServerIPs"] = {View(heap, config'.Proxy.UpstreamServerIPs)}
         /\ \A s \in {"Routers", "UpstreamServerIPs"} \ S : saved'[s] = saved[s]
<1> DEFINE w == Written(config')
<1>1. /\ Alike(w, config', Sections)
      /\ Part(w, "Routers") = View(heap, config'.Batch.Routers)
      /\ Part(w, "UpstreamServerIPs") = View(heap, config'.Proxy.UpstreamServerIPs)
  BY WrittenParts
<1>2. saved' = [s \in Section |-> IF s \in S THEN {Part(w, s)} ELSE saved[s]]
  BY DEF Remember
<1> HIDE DEF w
<1>3. Section = Sections \cup {"Routers", "UpstreamServerIPs"}
  BY DEF Section, Sections
<1>4. ASSUME NEW s \in Sections PROVE Kept(s)'
  <2>1. CASE s \in S
    <3>1. saved'[s] = {Part(w, s)}
      BY <1>2, <1>3, <2>1
    <3>2. Part(w, s) = Part(config', s)
      BY <1>1 DEF Alike
    <3>3. saved'[s] = {Part(config', s)}
      BY <3>1, <3>2
    <3>4. s' = s
      OBVIOUS
    <3> QED
      BY <3>3 DEF Kept, Part
  <2>2. CASE s \notin S
    <3>1. saved'[s] = saved[s] /\ Part(config', s) = Part(config, s)
      BY <1>2, <1>3, <2>2
    <3>2. Kept(s)
      BY DEF Editing
    <3> QED
      BY <3>1, <3>2 DEF Kept
  <2> QED
    BY <2>1, <2>2
<1> QED
  BY <1>1, <1>2, <1>3, <1>4

LEMMA SavingKeeps == ASSUME SaveInv, SaveSection PROVE SaveInv'
<1>1. phase = "configurator" /\ UNCHANGED <<programVars, torn, formVars>>
  BY DEF SaveSection, Save, SaveProxy, SaveBatch, SaveRouters, In, programVars
<1>2. UNCHANGED <<form, tmpCfgRouters, heap>>
  BY <1>1 DEF formVars
<1>3. Editing /\ HasParts(config) /\ HasParts(form)
  BY <1>1 DEF SaveInv, Editing
<1>4. heap \in Seq(Seq(Cell)) /\ TwoLists(heap, RouterLists, RouterCell, ServerLists, ServerCell)
  BY <1>3 DEF Editing, Arrays
<1>5. ASSUME RouterLists' \subseteq RouterLists, ServerLists' \subseteq ServerLists PROVE Arrays'
  <2>1. TwoLists(heap, RouterLists', RouterCell, ServerLists', ServerCell)
    BY <1>4, <1>5, TwoListsLess
  <2> QED
    BY <1>1, <1>2, <1>4, <2>1, SameCells DEF Arrays
<1>6. ASSUME HasParts(config'), Arrays', \A s \in Sections : Kept(s)', KeptRouters', KeptServers'
      PROVE  SaveInv'
  <2>1. Editing'
    BY <1>2, <1>3, <1>6 DEF Editing
  <2> QED
    BY <1>1, <2>1, InSession
<1>7. ASSUME NEW s \in {"OperationMode", "Sonar", "Logging"}, Save(s) PROVE SaveInv'
  <2>1. config' = [config EXCEPT ![s] = form[s]] /\ Remember({s}) /\ loose' = loose
    BY <1>7 DEF Save
  <2>2. Alike(config', config, Sections \ {s}) /\ config'.Batch = config.Batch /\ config'.Proxy = config.Proxy
    BY <1>3, <2>1, ChangeSimple
  <2>3. HasParts(config') /\ \A x \in Sections \ {s} : Part(config', x) = Part(config, x)
    BY <2>2 DEF Alike
  <2>4. /\ \A x \in Sections : Kept(x)'
        /\ \A x \in {"Routers", "UpstreamServerIPs"} \ {s} : saved'[x] = saved[x]
    BY <1>2, <1>3, <2>1, <2>3, Remembered
  <2>5. saved'["Routers"] = saved["Routers"] /\ saved'["UpstreamServerIPs"] = saved["UpstreamServerIPs"]
    BY <2>4
  <2>6. KeptRouters' /\ KeptServers'
    BY <1>2, <1>3, <2>1, <2>2, <2>5 DEF Editing, KeptRouters, KeptServers
  <2>7. Arrays'
    BY <1>2, <1>5, <2>2 DEF RouterLists, ServerLists
  <2> QED
    BY <1>6, <2>3, <2>4, <2>6, <2>7
<1>8. ASSUME SaveProxy PROVE SaveInv'
  <2> DEFINE S == {"Proxy", "UpstreamServerIPs"}
  <2>1. /\ config' = [config EXCEPT !["Proxy"] = form["Proxy"]] /\ Remember(S)
        /\ loose' = loose \ {"UpstreamServerIPs"}
    BY <1>8 DEF SaveProxy
  <2>2. /\ Alike(config', config, Sections \ {"Proxy"})
        /\ config'.Proxy = form["Proxy"] /\ config'.Batch = config.Batch
    <3> DEFINE b == form["Proxy"]
    <3>1. "UpstreamServerIPs" \in DOMAIN b /\ config' = [config EXCEPT !["Proxy"] = b]
      BY <1>3, <2>1 DEF HasParts
    <3> HIDE DEF b
    <3>2. Alike(config', config, Sections \ {"Proxy"}) /\ config'.Proxy = b /\ config'.Batch = config.Batch
      BY <1>3, <3>1, ChangeProxy
    <3> QED
      BY <3>2 DEF b
  <2>3. HasParts(config') /\ \A x \in Sections \ S : Part(config', x) = Part(config, x)
    BY <2>2 DEF Alike
  <2>4. /\ \A x \in Sections : Kept(x)'
        /\ saved'["UpstreamServerIPs"] = {View(heap, config'.Proxy.UpstreamServerIPs)}
        /\ \A x \in {"Routers", "UpstreamServerIPs"} \ S : saved'[x] = saved[x]
    BY <1>2, <1>3, <2>1, <2>3, Remembered
  <2>5. saved'["Routers"] = saved["Routers"]
    BY <2>4
  <2>6. KeptRouters'
    BY <1>2, <1>3, <2>1, <2>2, <2>5 DEF Editing, KeptRouters
  <2>7. KeptServers'
    <3> DEFINE l == form.Proxy.UpstreamServerIPs
    <3>1. l \in ServerLists /\ config'.Proxy.UpstreamServerIPs = l
      BY <2>2 DEF ServerLists
    <3>2. SliceOf(heap, l, ServerCell)
      BY <1>4, <3>1 DEF TwoLists
    <3>3. l.len \in Nat
      BY <1>4, <3>2, ViewIsSeq
    <3>4. LastSaved(heap, saved'["UpstreamServerIPs"], l, l)
      BY <2>4, <3>1, <3>3 DEF LastSaved
    <3> QED
      BY <1>2, <3>1, <3>4 DEF KeptServers
  <2>8. Arrays'
    BY <1>2, <1>5, <2>2 DEF RouterLists, ServerLists
  <2> QED
    BY <1>6, <2>3, <2>4, <2>6, <2>7, <2>8
<1>9. ASSUME SaveBatch PROVE SaveInv'
  <2>1. /\ config' = [config EXCEPT !["Batch"] = form["Batch"]] /\ Remember({"Batch"})
        /\ loose' = loose \cup {"Routers"}
    BY <1>9 DEF SaveBatch
  <2>2. /\ Alike(config', config, Sections \ {"Batch"})
        /\ config'.Batch = form["Batch"] /\ config'.Proxy = config.Proxy
    <3> DEFINE b == form["Batch"]
    <3>1. "Routers" \in DOMAIN b /\ config' = [config EXCEPT !["Batch"] = b]
      BY <1>3, <2>1 DEF HasParts
    <3> HIDE DEF b
    <3>2. Alike(config', config, Sections \ {"Batch"}) /\ config'.Batch = b /\ config'.Proxy = config.Proxy
      BY <1>3, <3>1, ChangeBatch
    <3> QED
      BY <3>2 DEF b
  <2>3. HasParts(config') /\ \A x \in Sections \ {"Batch"} : Part(config', x) = Part(config, x)
    BY <2>2 DEF Alike
  <2>4. /\ \A x \in Sections : Kept(x)'
        /\ \A x \in {"Routers", "UpstreamServerIPs"} \ {"Batch"} : saved'[x] = saved[x]
    BY <1>2, <1>3, <2>1, <2>3, Remembered
  <2>5. saved'["UpstreamServerIPs"] = saved["UpstreamServerIPs"]
    BY <2>4
  <2>6. KeptRouters'
    BY <2>1 DEF KeptRouters
  <2>7. KeptServers'
    BY <1>2, <1>3, <2>1, <2>2, <2>5 DEF Editing, KeptServers
  <2>8. Arrays'
    BY <1>2, <1>5, <2>2 DEF RouterLists, ServerLists
  <2> QED
    BY <1>6, <2>3, <2>4, <2>6, <2>7, <2>8
<1>10. ASSUME SaveRouters PROVE SaveInv'
  <2>1. /\ config' = [config EXCEPT !["Batch"] = [config["Batch"] EXCEPT !["Routers"] = tmpCfgRouters]]
        /\ Remember({"Routers"})
        /\ loose' = loose \ {"Routers"}
    BY <1>10 DEF SaveRouters
  <2>2. /\ Alike(config', config, Sections)
        /\ config'.Batch.Routers = tmpCfgRouters /\ config'.Proxy = config.Proxy
    BY <1>3, <2>1, ChangeRouters
  <2>3. HasParts(config') /\ \A x \in Sections \ {"Routers"} : Part(config', x) = Part(config, x)
    BY <2>2 DEF Alike
  <2>4. /\ \A x \in Sections : Kept(x)'
        /\ saved'["Routers"] = {View(heap, config'.Batch.Routers)}
        /\ \A x \in {"Routers", "UpstreamServerIPs"} \ {"Routers"} : saved'[x] = saved[x]
    BY <1>2, <1>3, <2>1, <2>3, Remembered
  <2>5. saved'["UpstreamServerIPs"] = saved["UpstreamServerIPs"]
    BY <2>4
  <2>6. KeptServers'
    BY <1>2, <1>3, <2>1, <2>2, <2>5 DEF Editing, KeptServers
  <2>7. KeptRouters'
    <3>1. SliceOf(heap, tmpCfgRouters, RouterCell)
      BY <1>4 DEF TwoLists, RouterLists
    <3>2. tmpCfgRouters.len \in Nat
      BY <1>4, <3>1, ViewIsSeq
    <3>3. LastSaved(heap, saved'["Routers"], tmpCfgRouters, tmpCfgRouters)
      BY <2>2, <2>4, <3>2 DEF LastSaved
    <3> QED
      BY <1>2, <2>2, <3>3 DEF KeptRouters
  <2>8. Arrays'
    BY <1>2, <1>5, <2>2 DEF RouterLists, ServerLists
  <2> QED
    BY <1>6, <2>3, <2>4, <2>6, <2>7, <2>8
<1> QED
  BY <1>7, <1>8, <1>9, <1>10 DEF SaveSection

------------------------------------------------------------------------------
LEMMA FormsLists ==
  ASSUME NEW o, NEW l, HasParts(o)
  PROVE  /\ HasParts(Forms(o, l))
         /\ Forms(o, l).Batch.Routers = l
         /\ Forms(o, l).Proxy.UpstreamServerIPs = Nil
<1> DEFINE tls == [o["Batch"] EXCEPT !["IsTLSEnabled"] = ~@]
           b == [tls EXCEPT !["Routers"] = l]
           p == Forms(o, l)
<1>1. "Routers" \in DOMAIN b /\ b["Routers"] = l
  BY DEF HasParts
<1>2. p["Batch"] = b
  BY DEF Forms
<1>3. Sections \subseteq DOMAIN p
  BY DEF Forms, Sections
<1>4. "UpstreamServerIPs" \in DOMAIN p["Proxy"] /\ p["Proxy"]["UpstreamServerIPs"] = Nil
  BY DEF Forms
<1> HIDE DEF b, p
<1>5. HasParts(p) /\ p.Batch.Routers = l /\ p.Proxy.UpstreamServerIPs = Nil
  BY <1>1, <1>2, <1>3, <1>4 DEF HasParts
<1> QED
  BY <1>5 DEF p

LEMMA ConfigureKeepsSaved ==
  ASSUME SaveInv, NEW load \in BOOLEAN, NEW forms, Configure(load, forms)
  PROVE  SaveInv'
<1> DEFINE R == Loaded.Batch.Routers
<1>1. /\ phase # "configurator" /\ phase' = "configurator"
      /\ loadYaml' = load
      /\ file # Unreadable
      /\ file' = file /\ config' = config /\ torn' = torn
      /\ heap' = IF load THEN <<R>> ELSE <<>>
      /\ tmpCfgRouters' = IF load THEN Slice(1, Len(R)) ELSE Nil
      /\ form' = Forms(Loaded, tmpCfgRouters')
      /\ saved' = NothingSaved
  BY DEF Configure, Idle, Forget
<1>2. config' = Empty
  BY <1>1 DEF SaveInv
<1>3. HasParts(Loaded) /\ R \in Seq(RouterCell)
  <2>1. Loaded = file \/ Loaded = programConfig
    BY DEF Loaded
  <2>2. <<>> \in Seq(RouterCell)
    BY EmptySeq
  <2> QED
    BY <1>1, <2>1, <2>2, NoOptions DEF SaveInv, FileOK
<1>4. HasParts(config') /\ config'.Batch.Routers = Nil /\ config'.Proxy.UpstreamServerIPs = Nil
  BY <1>2, NoOptions DEF Alike
<1>5. HasParts(form') /\ form'.Batch.Routers = tmpCfgRouters' /\ form'.Proxy.UpstreamServerIPs = Nil
  BY <1>1, <1>3, FormsLists
<1> HIDE DEF R
<1>6. heap' \in Seq(Seq(Cell))
  <2>1. R \in Seq(Cell)
    BY <1>3, Cells, SeqMonotonic
  <2>2. <<R>> \in Seq(Seq(Cell))
    BY <2>1
  <2>3. <<>> \in Seq(Seq(Cell))
    BY EmptySeq
  <2> QED
    BY <1>1, <2>2, <2>3
<1>7. SliceOf(heap', tmpCfgRouters', RouterCell)
  <2>1. CASE load
    <3>1. heap' = <<R>> /\ tmpCfgRouters' = Slice(1, Len(R))
      BY <1>1, <2>1
    <3>2. Len(heap') = 1 /\ heap'[1] = R
      BY <3>1
    <3>3. Len(R) \in Nat
      BY <1>3, LenProperties
    <3>4. 1 \in 1 .. Len(heap') /\ Len(R) <= Len(heap'[1]) /\ heap'[1] \in Seq(RouterCell)
      BY <1>3, <3>2, <3>3
    <3> QED
      BY <3>1, <3>3, <3>4 DEF SliceOf
  <2>2. CASE ~load
    BY <1>1, <2>2 DEF SliceOf
  <2> QED
    BY <2>1, <2>2
<1>8. Arrays'
  <2>1. RouterLists' = {tmpCfgRouters', Nil} /\ ServerLists' = {Nil}
    BY <1>4, <1>5 DEF RouterLists, ServerLists
  <2>2. SliceOf(heap', Nil, RouterCell) /\ SliceOf(heap', Nil, ServerCell) /\ Nil.array = 0
    BY DEF SliceOf, Nil
  <2>3. TwoLists(heap', RouterLists', RouterCell, ServerLists', ServerCell)
    BY <1>7, <2>1, <2>2 DEF TwoLists
  <2> QED
    BY <1>1, <1>6, <2>3, SameCells DEF Arrays
<1>9. ASSUME NEW s \in Section PROVE saved'[s] = {}
  BY <1>1 DEF NothingSaved
<1>10. \A s \in Sections : Kept(s)'
  <2>1. \A s \in Sections : Part(config', s) = Part(programConfig, s)
    BY <1>2, NoOptions DEF Alike
  <2>2. Sections \subseteq Section
    BY DEF Section, Sections
  <2> QED
    BY <1>9, <2>1, <2>2 DEF Kept
<1>11. KeptRouters' /\ KeptServers'
  <2>1. saved'["Routers"] = {} /\ saved'["UpstreamServerIPs"] = {}
    BY <1>9 DEF Section
  <2> QED
    BY <1>4, <2>1 DEF KeptRouters, KeptServers, LastSaved
<1>12. Editing'
  BY <1>4, <1>5, <1>8, <1>10, <1>11 DEF Editing
<1> QED
  BY <1>1, <1>12, SameCells DEF SaveInv, FileOK, WritesWhatWasSaved

(* A list that was left alone after its SAVE is written as it was then.     *)
LEMMA ListWritten ==
  ASSUME NEW v, NEW c, NEW f, NEW x, LastSaved(heap, v, c, f), x = View(heap, c)
  PROVE  (\A part \in v : x = part) /\ (v = {} => x = <<>>)
<1>1. CASE v = {} /\ c = Nil
  BY <1>1 DEF View
<1>2. CASE v = {View(heap, c)}
  BY <1>2
<1> QED
  BY <1>1, <1>2 DEF LastSaved

LEMMA WritingKeeps == ASSUME SaveInv, SaveAndQuit PROVE SaveInv'
<1>1. /\ phase = "configurator" /\ phase' = "written" /\ config' = Empty
      /\ file' = Written(config) /\ UNCHANGED <<torn, saved, loose>>
  BY DEF SaveAndQuit, Quit
<1>2. Editing /\ HasParts(config) /\ heap \in Seq(Seq(Cell))
  BY <1>1 DEF SaveInv, Editing, Arrays
<1>3. /\ Alike(file', config, Sections)
      /\ Part(file', "Routers") = View(heap, config.Batch.Routers)
      /\ Part(file', "UpstreamServerIPs") = View(heap, config.Proxy.UpstreamServerIPs)
  BY <1>1, <1>2, WrittenParts
<1>4. FileOK'
  <2>1. SliceOf(heap, config.Batch.Routers, RouterCell)
    BY <1>2 DEF Editing, Arrays, TwoLists, RouterLists
  <2>2. View(heap, config.Batch.Routers) \in Seq(RouterCell)
    BY <1>2, <2>1, ViewIsSeq
  <2>3. HasParts(file') /\ file'.Batch.Routers \in Seq(RouterCell)
    BY <1>3, <2>2, ListParts DEF Alike
  <2> QED
    BY <1>1, <2>3, SameCells DEF FileOK
<1>5. ASSUME NEW s \in Sections
      PROVE  (\A part \in saved[s] : Part(file', s) = part)
             /\ (saved[s] = {} => Part(file', s) = Part(programConfig, s))
  <2>1. Kept(s)
    BY <1>2 DEF Editing
  <2>2. Part(file', s) = Part(config, s)
    BY <1>3 DEF Alike
  <2> QED
    BY <2>1, <2>2 DEF Kept
<1>6. ASSUME NEW s \in {"Routers", "UpstreamServerIPs"}, s \notin loose
      PROVE  (\A part \in saved[s] : Part(file', s) = part)
             /\ (saved[s] = {} => Part(file', s) = Part(programConfig, s))
  <2>1. Part(programConfig, s) = <<>>
    BY NoOptions, ListParts
  <2>2. CASE s = "Routers"
    <3>1. LastSaved(heap, saved[s], config.Batch.Routers, tmpCfgRouters)
      BY <1>2, <1>6, <2>2 DEF Editing, KeptRouters
    <3>2. (\A part \in saved[s] : Part(file', s) = part) /\ (saved[s] = {} => Part(file', s) = <<>>)
      BY <1>3, <2>2, <3>1, ListWritten
    <3> QED
      BY <2>1, <3>2
  <2>3. CASE s = "UpstreamServerIPs"
    <3>1. LastSaved(heap, saved[s], config.Proxy.UpstreamServerIPs, form.Proxy.UpstreamServerIPs)
      BY <1>2, <1>6, <2>3 DEF Editing, KeptServers
    <3>2. (\A part \in saved[s] : Part(file', s) = part) /\ (saved[s] = {} => Part(file', s) = <<>>)
      BY <1>3, <2>3, <3>1, ListWritten
    <3> QED
      BY <2>1, <3>2
  <2> QED
    BY <2>2, <2>3
<1>7. WritesWhatWasSaved'
  <2>1. Section = Sections \cup {"Routers", "UpstreamServerIPs"}
    BY DEF Section, Sections
  <2>2. \A s \in Section \ loose :
          (\A part \in saved[s] : Part(file', s) = part)
          /\ (saved[s] = {} => Part(file', s) = Part(programConfig, s))
    BY <1>5, <1>6, <2>1
  <2> QED
    BY <1>1, <2>2 DEF WritesWhatWasSaved, WrittenAsSaved
<1> QED
  BY <1>1, <1>4, <1>7 DEF SaveInv

(* What is read of a list that breaks off is as good as the list, apart     *)
(* from its last element.                                                   *)
LEMMA CutListCells ==
  ASSUME NEW S, NEW l \in Seq(S), NEW cut, NEW x \in CutList(l, cut)
  PROVE  x \in Seq(S \cup {Last(x)})
<1>1. Len(l) \in Nat /\ DOMAIN l = 1 .. Len(l)
  BY LenProperties
<1>2. ASSUME NEW i \in 0 .. Len(l), x = SubSeq(l, 1, i) PROVE x \in Seq(S)
  BY <1>1, <1>2, SubSeqProperties
<1>3. ASSUME NEW i \in 1 .. Len(l), NEW y, x = Append(SubSeq(l, 1, i - 1), y)
      PROVE  x \in Seq(S \cup {Last(x)})
  <2> DEFINE w == SubSeq(l, 1, i - 1)
  <2>1. w \in Seq(S)
    BY <1>1, SubSeqProperties
  <2> HIDE DEF w
  <2>2. x = Append(w, y)
    BY <1>3 DEF w
  <2>3. w \in Seq(S \cup {y})
    BY <2>1, SeqMonotonic
  <2>4. x \in Seq(S \cup {y}) /\ Len(x) = Len(w) + 1 /\ x[Len(w) + 1] = y /\ Len(w) \in Nat
    BY <2>2, <2>3, AppendProperties, LenProperties
  <2> QED
    BY <2>4 DEF Last
<1>4. x \in Seq(S) => x \in Seq(S \cup {Last(x)})
  BY SeqMonotonic
<1> QED
  BY <1>1, <1>2, <1>3, <1>4 DEF CutList

(* A file that breaks off has all its parts, and a router of it that is not *)
(* whole is remembered.                                                     *)
LEMMA CutFileOK ==
  ASSUME NEW o, HasParts(o), o.Batch.Routers \in Seq(RouterCell), NEW p \in CutOff(o), p # Unreadable,
         torn' = torn \cup HalfAtTheEnd(p)
  PROVE  HasParts(p) /\ p.Batch.Routers \in Seq(RouterCell')
<1> DEFINE l == o["Batch"]["Routers"]
           x == p["Batch"]["Routers"]
<1>1. /\ DOMAIN p = DOMAIN o
      /\ \A s \in DOMAIN o : p[s] = o[s] \/ p[s] = programConfig[s] \/ p[s] \in CutSection(o, s)
  BY CutOffSections
<1>2. RouterCell \subseteq RouterCell'
  BY DEF RouterCell
<1>3. ASSUME NEW s \in {"Batch", "Proxy"}, NEW f \in DOMAIN o[s] \cap DOMAIN programConfig[s]
      PROVE  /\ f \in DOMAIN p[s]
             /\ p[s][f] = o[s][f] \/ p[s][f] = programConfig[s][f] \/ p[s][f] \in CutField(f, o[s][f])
  <2>1. s \in DOMAIN o /\ s # "OperationMode"
    BY DEF HasParts, Sections
  <2>2. CASE p[s] \in CutSection(o, s)
    BY <2>1, <2>2, CutSectionFields
  <2> QED
    BY <1>1, <2>1, <2>2
<1>4. "Routers" \in DOMAIN programConfig["Batch"] /\ "UpstreamServerIPs" \in DOMAIN programConfig["Proxy"]
  BY DEF programConfig
<1>5. HasParts(p)
  BY <1>1, <1>3, <1>4 DEF HasParts
<1>6. x = l \/ x = programConfig["Batch"]["Routers"] \/ x \in CutField("Routers", l)
  BY <1>3, <1>4 DEF HasParts
<1>7. CASE x \in CutField("Routers", l)
  <2>1. PICK cut : x \in CutList(l, cut)
    BY <1>7 DEF CutField
  <2> HIDE DEF x, l
  <2>2. x \in Seq(RouterCell \cup {Last(x)})
    BY <2>1, CutListCells DEF l
  <2>3. x # <<>> => Last(x) \in RouterCell'
    BY DEF HalfAtTheEnd, RouterCell, x
  <2>4. x = <<>> => x \in Seq(RouterCell')
    BY EmptySeq
  <2>5. x # <<>> => x \in Seq(RouterCell')
    BY <1>2, <2>2, <2>3, SeqMonotonic
  <2> QED
    BY <1>5, <2>4, <2>5 DEF x
<1>8. CASE x = l \/ x = programConfig["Batch"]["Routers"]
  <2>1. programConfig["Batch"]["Routers"] = <<>>
    BY NoOptions
  <2>2. l \in Seq(RouterCell') /\ <<>> \in Seq(RouterCell')
    BY <1>2, SeqMonotonic, EmptySeq
  <2> QED
    BY <1>5, <1>8, <2>1, <2>2
<1> QED
  BY <1>6, <1>7, <1>8

(* No session goes on and none has just written.                            *)
LEMMA OutsideKeeps ==
  ASSUME SaveInv, phase' \notin {"configurator", "written"}, config' = Empty, UNCHANGED <<file, torn>>
  PROVE  SaveInv'
BY SameCells DEF SaveInv, FileOK, WritesWhatWasSaved

LEMMA FailingKeeps == ASSUME SaveInv, SaveAndQuitFails PROVE SaveInv'
<1>1. phase = "configurator" /\ phase' = "exited" /\ config' = Empty
  BY DEF SaveAndQuitFails, Quit
<1>2. CASE UNCHANGED <<file, torn>>
  BY <1>1, <1>2, OutsideKeeps
<1>3. CASE file' \in CutOff(Written(config)) \cup {Unreadable} /\ torn' = torn \cup HalfAtTheEnd(file')
  <2> DEFINE o == Written(config)
  <2>1. Editing /\ HasParts(config) /\ heap \in Seq(Seq(Cell))
    BY <1>1 DEF SaveInv, Editing, Arrays
  <2>2. Alike(o, config, Sections) /\ Part(o, "Routers") = View(heap, config.Batch.Routers)
    BY <2>1, WrittenParts
  <2>3. HasParts(o) /\ o.Batch.Routers \in Seq(RouterCell)
    <3>1. SliceOf(heap, config.Batch.Routers, RouterCell)
      BY <2>1 DEF Editing, Arrays, TwoLists, RouterLists
    <3>2. View(heap, config.Batch.Routers) \in Seq(RouterCell)
      BY <2>1, <3>1, ViewIsSeq
    <3> QED
      BY <2>2, <3>2, ListParts DEF Alike
  <2> HIDE DEF o
  <2>4. FileOK'
    BY <1>3, <2>3, CutFileOK DEF FileOK, o
  <2> QED
    BY <1>1, <2>4 DEF SaveInv, WritesWhatWasSaved
<1> QED
  BY <1>2, <1>3 DEF SaveAndQuitFails

LEMMA SaveInvInit == Init => SaveInv
<1> SUFFICES ASSUME Init PROVE SaveInv
  OBVIOUS
<1>1. file \in Given /\ phase = "exited" /\ config = Empty
  BY DEF Init
<1>2. ASSUME file # Unreadable PROVE HasParts(file) /\ file.Batch.Routers \in Seq(RouterCell)
  <2>1. /\ DOMAIN file = DOMAIN programConfig
        /\ \A s \in {"Batch", "Proxy"} : DOMAIN file[s] = DOMAIN programConfig[s]
        /\ file.Batch.Routers \in Seq(WholeRouter)
    BY <1>1, <1>2, GivenOK
  <2>2. HasParts(file)
    BY <2>1, NoOptions DEF HasParts
  <2>3. file.Batch.Routers \in Seq(RouterCell)
    BY <2>1, SeqMonotonic DEF RouterCell
  <2> QED
    BY <2>2, <2>3
<1> QED
  BY <1>1, <1>2 DEF SaveInv, FileOK, WritesWhatWasSaved

LEMMA SaveInvStep == SaveInv /\ [Next]_vars => SaveInv'
<1> SUFFICES ASSUME SaveInv, [Next]_vars PROVE SaveInv'
  OBVIOUS
<1>1. ASSUME NEW load \in BOOLEAN, NEW forms, Configure(load, forms) PROVE SaveInv'
  BY <1>1, ConfigureKeepsSaved
<1>2. CASE Edit
  <2>1. ASSUME NEW r \in Router, AddRouter(r) PROVE SaveInv'
    BY <2>1, RouterFormKeeps
  <2>2. ASSUME NEW row, RemoveRouter(row) PROVE SaveInv'
    BY <2>2, RouterFormKeeps
  <2>3. ASSUME NEW ip \in Server, AddServer(ip) PROVE SaveInv'
    BY <2>3, ServerFormKeeps
  <2>4. ASSUME NEW row, RemoveServer(row) PROVE SaveInv'
    BY <2>4, ServerFormKeeps
  <2> QED
    BY <1>2, <2>1, <2>2, <2>3, <2>4, TypingKeeps DEF Edit, Typing
<1>3. CASE SaveSection
  BY <1>3, SavingKeeps
<1>4. CASE SaveAndQuit
  BY <1>4, WritingKeeps
<1>5. CASE QuitWithoutSaving \/ SaveAndQuitFails
  <2>1. QuitWithoutSaving => phase' = "exited" /\ config' = Empty /\ UNCHANGED <<file, torn>>
    BY DEF QuitWithoutSaving, Quit
  <2> QED
    BY <1>5, <2>1, OutsideKeeps, FailingKeeps
<1>6. ASSUME NEW flags, Start(flags) PROVE SaveInv'
  <2>1. /\ phase # "configurator" /\ UNCHANGED <<file, torn, config>>
        /\ phase' \in Outcomes(Overridden(file, flags))
    BY <1>6 DEF Start, Idle
  <2>2. phase' \notin {"configurator", "written"}
    BY <2>1 DEF Outcomes
  <2>3. config' = Empty
    BY <2>1 DEF SaveInv
  <2> QED
    BY <2>1, <2>2, <2>3, OutsideKeeps
<1>7. CASE CannotRead \/ Stop \/ DispatchPanics
  <2>1. /\ phase # "configurator" /\ UNCHANGED <<file, torn, config>>
        /\ phase' \in {"refused", "exited", "crashed"}
    BY <1>7 DEF CannotRead, Stop, DispatchPanics, Ended, Idle
  <2>2. config' = Empty
    BY <2>1 DEF SaveInv
  <2> QED
    BY <2>1, <2>2, OutsideKeeps
<1>8. CASE UNCHANGED vars
  <2>1. /\ UNCHANGED programVars /\ UNCHANGED config /\ UNCHANGED formVars /\ UNCHANGED historyVars
    BY <1>8 DEF vars
  <2>2. UNCHANGED <<file, phase, torn, config, form, tmpCfgRouters, heap, saved, loose>>
    BY <2>1 DEF programVars, formVars, historyVars
  <2>3. Editing => Editing'
    BY <2>2, SameCells DEF Editing, Arrays, Kept, KeptServers, KeptRouters, RouterLists, ServerLists
  <2> QED
    BY <2>2, <2>3, SameCells DEF SaveInv, FileOK, WritesWhatWasSaved, WrittenAsSaved
<1> QED
  BY <1>1, <1>2, <1>3, <1>4, <1>5, <1>6, <1>7, <1>8 DEF Next

LEMMA Saves == Spec => []SaveInv
BY SaveInvInit, SaveInvStep, PTL DEF Spec

(* SAVE keeps its word for whatever section is left alone after it: the     *)
(* file of a session that ends with SAVE AND QUIT has each section as it    *)
(* was when it was last saved, and unsaved ones stay blank                  *)
(* (configurator.go:23, 694-709).                                        *)
THEOREM WritesWhatWasSavedHolds == Spec => []WritesWhatWasSaved
<1>1. SaveInv => WritesWhatWasSaved
  BY DEF SaveInv
<1> QED
  BY <1>1, Saves, PTL

(* Sessions and removals leave whole routers and blank ones: the form takes *)
(* whole ones and erases whole ones (configurator.go:425-430, 479-484).     *)
(* Half a router comes of a write that breaks off (configurator.go:702),    *)
(* and whatever loads, edits and writes such files adds no other.           *)
THEOREM RoutersAreWholeHolds == Spec => []RoutersAreWhole
<1>1. SaveInv => RoutersAreWhole
  <2> SUFFICES ASSUME SaveInv, file # Unreadable, NEW r \in ToSet(file.Batch.Routers)
               PROVE  r \in RouterCell
    BY DEF RoutersAreWhole, RouterCell
  <2>1. file.Batch.Routers \in Seq(RouterCell)
    BY DEF SaveInv, FileOK
  <2>2. PICK i \in DOMAIN file.Batch.Routers : r = file.Batch.Routers[i]
    BY DEF ToSet
  <2> QED
    BY <2>1, <2>2
<1> QED
  BY <1>1, Saves, PTL

------------------------------------------------------------------------------
LEMMA SliceOfOK ==
  ASSUME NEW S, NEW C, heap \in Seq(Seq(C)), NEW s, SliceOf(heap, s, S) PROVE SliceOK(s)
<1>1. CASE s = Nil
  BY <1>1 DEF SliceOK
<1>2. CASE s # Nil
  <2>1. PICK a \in 1 .. Len(heap), n \in Nat : s = Slice(a, n) /\ n <= Len(heap[a]) /\ heap[a] \in Seq(S)
    BY <1>2 DEF SliceOf
  <2>2. s.array = a /\ s.len = n
    BY <2>1 DEF Slice
  <2>3. DOMAIN heap = 1 .. Len(heap) /\ Len(heap[a]) \in Nat
    BY <2>1, LenProperties
  <2> QED
    BY <2>1, <2>2, <2>3 DEF SliceOK
<1> QED
  BY <1>1, <1>2

AllSlicesOK ==
  \A s \in {tmpCfgRouters, config.Batch.Routers, form.Batch.Routers,
            config.Proxy.UpstreamServerIPs, form.Proxy.UpstreamServerIPs} : SliceOK(s)

LEMMA SlicesInSession == ASSUME Editing PROVE AllSlicesOK
<1>1. heap \in Seq(Seq(Cell)) /\ TwoLists(heap, RouterLists, RouterCell, ServerLists, ServerCell)
  BY DEF Editing, Arrays
<1>2. \A s \in RouterLists : SliceOK(s)
  BY <1>1, SliceOfOK DEF TwoLists
<1>3. \A s \in ServerLists : SliceOK(s)
  BY <1>1, SliceOfOK DEF TwoLists
<1> QED
  BY <1>2, <1>3 DEF AllSlicesOK, RouterLists, ServerLists

LEMMA SlicesOutside ==
  ASSUME config = Empty, form = Empty, tmpCfgRouters = Nil PROVE AllSlicesOK
<1>1. SliceOK(Nil)
  BY DEF SliceOK
<1> QED
  BY <1>1, NoOptions DEF AllSlicesOK

LEMMA SlicesFit ==
  ASSUME SaveInv, phase # "configurator" => form = Empty /\ tmpCfgRouters = Nil
  PROVE  AllSlicesOK
BY SlicesInSession, SlicesOutside DEF SaveInv

(* What the types of the other variables follow from. *)
RestOK ==
  /\ phase \in {"configurator", "written", "refused", "exited", "crashed", "batch", "proxy"}
  /\ phase \notin {"batch", "proxy"} => options = None
  /\ file # Unreadable => DOMAIN file = DOMAIN programConfig
  /\ DOMAIN saved = Section
  /\ loose \subseteq {"Routers", "UpstreamServerIPs"}
  /\ phase = "configurator" => DOMAIN config = DOMAIN programConfig
  /\ phase # "configurator" => form = Empty /\ tmpCfgRouters = Nil

LEMMA RestInSession ==
  ASSUME RestOK, phase = "configurator", UNCHANGED programVars, DOMAIN config' = DOMAIN config,
         DOMAIN saved' = Section, loose' \subseteq loose \cup {"Routers", "UpstreamServerIPs"}
  PROVE  RestOK'
BY DEF RestOK, programVars

LEMMA RestStep == ASSUME SaveInv, RestOK, [Next]_vars PROVE RestOK'
<1>1. ASSUME NEW load, NEW forms, Configure(load, forms) PROVE RestOK'
  <2>1. /\ phase # "configurator" /\ phase' = "configurator" /\ phase \notin {"batch", "proxy"}
        /\ UNCHANGED <<file, options, config>> /\ saved' = NothingSaved /\ loose' = {}
    BY <1>1 DEF Configure, Idle, Forget
  <2>2. DOMAIN config' = DOMAIN programConfig
    BY <2>1 DEF SaveInv, Empty
  <2> QED
    BY <2>1, <2>2 DEF RestOK, NothingSaved
<1>2. CASE Edit
  <2>1. /\ phase = "configurator" /\ UNCHANGED programVars /\ config' = config /\ saved' = saved
        /\ loose' \subseteq loose \cup {"Routers", "UpstreamServerIPs"}
    BY <1>2 DEF Edit, Type, Show, AddRouter, RemoveRouter, AddServer, RemoveServer, In, historyVars
  <2>2. DOMAIN saved' = Section
    BY <2>1 DEF RestOK
  <2> QED
    BY <2>1, <2>2, RestInSession
<1>3. CASE SaveSection
  <2>1. /\ phase = "configurator" /\ UNCHANGED programVars
        /\ loose' \subseteq loose \cup {"Routers", "UpstreamServerIPs"}
    BY <1>3 DEF SaveSection, Save, SaveProxy, SaveBatch, SaveRouters, In
  <2>2. \E S : Remember(S)
    BY <1>3 DEF SaveSection, Save, SaveProxy, SaveBatch, SaveRouters
  <2>3. DOMAIN saved' = Section
    BY <2>2 DEF Remember
  <2>4. DOMAIN config' = DOMAIN config
    BY <1>3 DEF SaveSection, Save, SaveProxy, SaveBatch, SaveRouters
  <2> QED
    BY <2>1, <2>3, <2>4, RestInSession
<1>4. CASE SaveAndQuit \/ SaveAndQuitFails \/ QuitWithoutSaving
  <2>1. /\ phase = "configurator" /\ phase' \in {"written", "exited"}
        /\ form' = Empty /\ tmpCfgRouters' = Nil /\ options' = options
        /\ UNCHANGED <<saved, loose>> \/ (saved' = NothingSaved /\ loose' = {})
    BY <1>4 DEF SaveAndQuit, SaveAndQuitFails, QuitWithoutSaving, Quit, Forget
  <2>2. file' \in {Written(config), file, Unreadable} \cup CutOff(Written(config))
    BY <1>4 DEF SaveAndQuit, SaveAndQuitFails, QuitWithoutSaving
  <2>3. DOMAIN Written(config) = DOMAIN config
    BY DEF Written
  <2>4. file' \in CutOff(Written(config)) => DOMAIN file' = DOMAIN Written(config)
    BY CutOffSections
  <2>5. file' # Unreadable => DOMAIN file' = DOMAIN programConfig
    BY <2>1, <2>2, <2>3, <2>4 DEF RestOK
  <2> QED
    BY <2>1, <2>5 DEF RestOK, NothingSaved
<1>5. ASSUME NEW flags, Start(flags) PROVE RestOK'
  <2> DEFINE o == Overridden(file, flags)
  <2>1. /\ phase # "configurator" /\ UNCHANGED <<file, form, tmpCfgRouters>>
        /\ phase' \in Outcomes(o) /\ (phase' \notin {"batch", "proxy"} => options' = None)
        /\ saved' = NothingSaved /\ loose' = {}
    BY <1>5 DEF Start, Idle, Forget, formVars
  <2>2. Outcomes(o) \subseteq {"refused", "exited", "crashed", "batch", "proxy"}
    BY DEF Outcomes
  <2> HIDE DEF o
  <2> QED
    BY <2>1, <2>2 DEF RestOK, NothingSaved
<1>6. CASE CannotRead \/ Stop \/ DispatchPanics
  <2>1. /\ phase # "configurator" /\ phase' \in {"refused", "exited", "crashed"}
        /\ UNCHANGED <<file, form, tmpCfgRouters, saved, loose>>
    BY <1>6 DEF CannotRead, Stop, DispatchPanics, Ended, Idle, formVars, historyVars
  <2>2. options' = None
    BY <1>6 DEF CannotRead, Stop, DispatchPanics, Ended, Idle, RestOK
  <2> QED
    BY <2>1, <2>2 DEF RestOK
<1>7. CASE UNCHANGED vars
  BY <1>7 DEF RestOK, vars, programVars, formVars, historyVars
<1> QED
  BY <1>1, <1>2, <1>3, <1>4, <1>5, <1>6, <1>7 DEF Next

LEMMA Rest == Spec => []RestOK
<1>1. ASSUME Init PROVE RestOK
  <2>1. file # Unreadable => DOMAIN file = DOMAIN programConfig
    BY <1>1, GivenOK DEF Init
  <2> QED
    BY <1>1, <2>1 DEF Init, RestOK, NothingSaved
<1> QED
  BY <1>1, Saves, RestStep, PTL DEF Spec

(* No form's list ever reaches beyond the array it is kept in, whichever    *)
(* lists of the session share it (configurator.go:430, 481-483, 563,        *)
(* 589-591).                                                                *)
THEOREM TypeCorrect == Spec => []TypeOK
<1>1. SaveInv /\ RestOK => TypeOK
  <2> SUFFICES ASSUME SaveInv, RestOK PROVE TypeOK
    OBVIOUS
  <2>1. AllSlicesOK
    BY SlicesFit DEF RestOK
  <2> QED
    BY <2>1 DEF RestOK, TypeOK, AllSlicesOK
<1> QED
  BY <1>1, Saves, Rest, PTL

------------------------------------------------------------------------------
(* How many rows of an address are left when one row is taken out.          *)
LEMMA CountRemoved ==
  ASSUME NEW S, NEW v \in Seq(S), NEW i \in 1 .. Len(v), NEW ip
  PROVE  /\ Rows(v, ip) \in Nat
         /\ Rows(RemoveAt(v, i), ip) = Rows(v, ip) - (IF v[i].RouterIP = ip THEN 1 ELSE 0)
<1> DEFINE w == RemoveAt(v, i)
           n == Len(v)
           I == {j \in 1 .. n : v[j].RouterIP = ip}
           J == {j \in 1 .. n - 1 : w[j].RouterIP = ip}
           f == [j \in J |-> IF j < i THEN j ELSE j + 1]
<1>1. /\ n \in Nat /\ DOMAIN v = 1 .. n
      /\ w \in Seq(S) /\ Len(w) = n - 1
      /\ \A j \in 1 .. n - 1 : w[j] = IF j < i THEN v[j] ELSE v[j + 1]
  BY LenProperties, RemovedSeq
<1>2. DOMAIN w = 1 .. n - 1
  BY <1>1, LenProperties
<1>3. Rows(v, ip) = Cardinality(I) /\ Rows(w, ip) = Cardinality(J)
  BY <1>1, <1>2 DEF Rows
<1> HIDE DEF w
<1>4. IsFiniteSet(I) /\ IsFiniteSet(J)
  <2>1. 1 \in Int /\ n \in Int /\ n - 1 \in Int
    BY <1>1
  <2>2. IsFiniteSet(1 .. n) /\ IsFiniteSet(1 .. n - 1)
    BY <2>1, FS_Interval
  <2>3. I \in SUBSET (1 .. n) /\ J \in SUBSET (1 .. n - 1)
    OBVIOUS
  <2> HIDE DEF I, J, n
  <2> QED
    BY <2>2, <2>3, FS_Subset
<1>5. i \in 1 .. n
  OBVIOUS
<1> HIDE DEF n
<1>6. ASSUME NEW j \in J PROVE f[j] \in I \ {i}
  <2>1. CASE j < i
    BY <1>1, <1>5, <2>1
  <2>2. CASE ~(j < i)
    BY <1>1, <1>5, <2>2
  <2> QED
    BY <2>1, <2>2
<1>7. ASSUME NEW j \in J, NEW k \in J, f[j] = f[k] PROVE j = k
  <2>1. j \in Int /\ k \in Int /\ i \in Int
    BY <1>1, <1>5
  <2>2. (IF j < i THEN j ELSE j + 1) = (IF k < i THEN k ELSE k + 1)
    BY <1>7
  <2> QED
    BY <2>1, <2>2
<1>8. ASSUME NEW x \in I \ {i} PROVE \E j \in J : f[j] = x
  <2>1. x \in 1 .. n /\ v[x].RouterIP = ip /\ x # i
    OBVIOUS
  <2>2. CASE x < i
    <3>1. x \in 1 .. n - 1 /\ w[x] = v[x]
      BY <1>1, <1>5, <2>1, <2>2
    <3>2. x \in J
      BY <2>1, <3>1
    <3> QED
      BY <2>2, <3>2
  <2>3. CASE ~(x < i)
    <3>1. x - 1 \in 1 .. n - 1 /\ ~(x - 1 < i) /\ x - 1 + 1 = x
      BY <1>1, <1>5, <2>1, <2>3
    <3>2. w[x - 1] = v[x]
      BY <1>1, <3>1
    <3>3. x - 1 \in J
      BY <2>1, <3>1, <3>2
    <3> QED
      BY <3>1, <3>3
  <2> QED
    BY <2>2, <2>3
<1>9. ExistsBijection(J, I \ {i})
  <2>1. f \in [J -> I \ {i}]
    BY <1>6
  <2>2. f \in Bijection(J, I \ {i})
    BY <1>7, <1>8, <2>1 DEF Bijection, Injection, Surjection, IsInjective
  <2> QED
    BY <2>2 DEF ExistsBijection
<1>10. i \in I <=> v[i].RouterIP = ip
  BY <1>5
<1> HIDE DEF I, J, f
<1>11. Cardinality(I) \in Nat
  BY <1>4, FS_CardinalityType
<1>12. Cardinality(I \ {i}) = Cardinality(J)
  BY <1>4, <1>9, FS_Bijection
<1>13. Cardinality(I \ {i}) = IF i \in I THEN Cardinality(I) - 1 ELSE Cardinality(I)
  BY <1>4, FS_RemoveElement
<1>14. CASE v[i].RouterIP = ip
  BY <1>3, <1>10, <1>11, <1>12, <1>13, <1>14 DEF w
<1>15. CASE v[i].RouterIP # ip
  BY <1>3, <1>10, <1>11, <1>12, <1>13, <1>15 DEF w
<1> QED
  BY <1>14, <1>15

LEMMA NoRows ==
  ASSUME NEW S, NEW v \in Seq(S), NEW ip
  PROVE  Rows(v, ip) = 0 <=> \A i \in 1 .. Len(v) : v[i].RouterIP # ip
<1> DEFINE I == {i \in 1 .. Len(v) : v[i].RouterIP = ip}
<1>1. DOMAIN v = 1 .. Len(v) /\ Len(v) \in Nat
  BY LenProperties
<1>2. Rows(v, ip) = Cardinality(I)
  BY <1>1 DEF Rows
<1>3. IsFiniteSet(1 .. Len(v))
  <2>1. 1 \in Int /\ Len(v) \in Int
    BY <1>1
  <2> QED
    BY <2>1, FS_Interval
<1>4. I \in SUBSET (1 .. Len(v))
  OBVIOUS
<1>5. I = {} <=> \A i \in 1 .. Len(v) : v[i].RouterIP # ip
  OBVIOUS
<1> HIDE DEF I
<1>6. IsFiniteSet(I)
  BY <1>3, <1>4, FS_Subset
<1>7. Cardinality(I) = 0 <=> I = {}
  BY <1>6, FS_EmptySet
<1> QED
  BY <1>2, <1>5, <1>7

------------------------------------------------------------------------------
(* The table of routers has as many rows of each address as the slice of    *)
(* its form; the other one is the form's list, in which nothing is twice,   *)
(* unless that has nothing and a file was loaded.                           *)
SameRows(v, w) == \A ip \in {r.RouterIP : r \in Router \cup RouterCell} : Rows(v, ip) = Rows(w, ip)

Tables ==
  /\ DOMAIN shown = {"Routers", "UpstreamServerIPs"}
  /\ shown.Routers \in Seq(RouterCell)
  /\ SameRows(shown.Routers, View(heap, tmpCfgRouters))
  /\ IsInjective(View(heap, Upstream))
  /\ View(heap, Upstream) # <<>> \/ ~loadYaml => shown.UpstreamServerIPs = View(heap, Upstream)

TablesInv == phase = "configurator" => Tables

LEMMA TablesNext ==
  ASSUME torn' = torn, DOMAIN shown' = {"Routers", "UpstreamServerIPs"}, shown'.Routers \in Seq(RouterCell),
         SameRows(shown'.Routers, View(heap', tmpCfgRouters')), IsInjective(View(heap', Upstream')),
         View(heap', Upstream') # <<>> \/ ~loadYaml' => shown'.UpstreamServerIPs = View(heap', Upstream')
  PROVE  Tables'
BY SameCells DEF Tables, SameRows, Rows

(* What the two lists are inside a session. *)
LEMMA ListsInSession ==
  ASSUME Editing
  PROVE  /\ heap \in Seq(Seq(Cell))
         /\ TwoLists(heap, RouterLists, RouterCell, ServerLists, ServerCell)
         /\ tmpCfgRouters \in RouterLists /\ Upstream \in ServerLists
         /\ SliceOf(heap, tmpCfgRouters, RouterCell)
         /\ SliceOf(heap, Upstream, ServerCell)
         /\ View(heap, tmpCfgRouters) \in Seq(RouterCell)
         /\ Len(View(heap, tmpCfgRouters)) = tmpCfgRouters.len /\ tmpCfgRouters.len \in Nat
         /\ View(heap, Upstream) \in Seq(ServerCell)
         /\ Len(View(heap, Upstream)) = Upstream.len /\ Upstream.len \in Nat
<1>1. heap \in Seq(Seq(Cell)) /\ TwoLists(heap, RouterLists, RouterCell, ServerLists, ServerCell)
  BY DEF Editing, Arrays
<1>2. tmpCfgRouters \in RouterLists /\ Upstream \in ServerLists
  BY DEF RouterLists, ServerLists, Upstream
<1>3. SliceOf(heap, tmpCfgRouters, RouterCell) /\ SliceOf(heap, Upstream, ServerCell)
  BY <1>1, <1>2 DEF TwoLists
<1>4. /\ View(heap, tmpCfgRouters) \in Seq(RouterCell)
      /\ Len(View(heap, tmpCfgRouters)) = tmpCfgRouters.len /\ tmpCfgRouters.len \in Nat
  BY <1>1, <1>3, ViewIsSeq
<1>5. /\ View(heap, Upstream) \in Seq(ServerCell)
      /\ Len(View(heap, Upstream)) = Upstream.len /\ Upstream.len \in Nat
  BY <1>1, <1>3, ViewIsSeq
<1> QED
  BY <1>1, <1>2, <1>3, <1>4, <1>5

(* The list of one form changes, and the other one stays as it is.          *)
LEMMA RoutersApart ==
  ASSUME Editing, NEW k \in Nat, Upstream' = Upstream,
         Moves(heap, heap', tmpCfgRouters, tmpCfgRouters', RouterCell, Cell, k)
  PROVE  View(heap', Upstream') = View(heap, Upstream)
BY ListsInSession, TwoListsApart

LEMMA ServersApart ==
  ASSUME Editing, NEW k \in Nat, NEW l, Moves(heap, heap', Upstream, l, ServerCell, Cell, k),
         tmpCfgRouters' = tmpCfgRouters
  PROVE  View(heap', tmpCfgRouters') = View(heap, tmpCfgRouters)
<1>1. TwoLists(heap, ServerLists, ServerCell, RouterLists, RouterCell)
  BY ListsInSession, TwoListsSwap
<1> QED
  BY <1>1, ListsInSession, TwoListsApart

LEMMA AddRouterShows ==
  ASSUME Editing, Tables, NEW r \in Router, AddRouter(r)
  PROVE  Tables'
<1> DEFINE v == View(heap, tmpCfgRouters)
<1>1. /\ tmpCfgRouters' = AppendedTo(tmpCfgRouters)
      /\ heap' = HeapAppend(tmpCfgRouters, r, batchRouterAuth)
      /\ shown' = [shown EXCEPT !.Routers = Append(Elements(tmpCfgRouters), r)]
      /\ form' = form /\ r \in RouterCell /\ UNCHANGED <<torn, loadYaml>>
  BY CompleteIsCell DEF AddRouter, programVars
<1>2. /\ heap \in Seq(Seq(Cell)) /\ SliceOf(heap, tmpCfgRouters, RouterCell)
      /\ v \in Seq(RouterCell) /\ tmpCfgRouters.len \in Nat
  BY ListsInSession
<1>3. Elements(tmpCfgRouters) = v
  BY DEF Elements, View
<1>4. View(heap', tmpCfgRouters') = Append(v, r)
  BY <1>1, <1>2, Cells, AppendView
<1>5. Moves(heap, heap', tmpCfgRouters, tmpCfgRouters', RouterCell, Cell, tmpCfgRouters.len)
  BY <1>1, <1>2, Cells, AppendMoves
<1>6. Upstream' = Upstream
  BY <1>1 DEF Upstream
<1>7. View(heap', Upstream') = View(heap, Upstream)
  BY <1>2, <1>5, <1>6, RoutersApart
<1>8. Append(v, r) \in Seq(RouterCell)
  BY <1>1, <1>2, AppendProperties
<1> HIDE DEF v
<1>9. /\ DOMAIN shown' = DOMAIN shown /\ shown'.Routers = Append(v, r)
      /\ shown'.UpstreamServerIPs = shown.UpstreamServerIPs
  BY <1>1, <1>3 DEF Tables
<1>10. SameRows(shown'.Routers, View(heap', tmpCfgRouters'))
  BY <1>4, <1>9 DEF SameRows
<1> QED
  BY <1>1, <1>7, <1>8, <1>9, <1>10, TablesNext DEF Tables

LEMMA RemoveRouterShows ==
  ASSUME Editing, Tables, NEW row, RemoveRouter(row)
  PROVE  Tables'
<1> DEFINE v == View(heap, tmpCfgRouters)
           w == shown.Routers
           m == Match(row)
           ip == w[row].RouterIP
           I == {i \in 1 .. Len(v) : v[i].RouterIP = ip}
<1>1. /\ row \in DOMAIN w
      /\ m # 0 => /\ tmpCfgRouters' = RemovedFrom(tmpCfgRouters)
                  /\ heap' = HeapRemove(tmpCfgRouters, m, batchRouterAuth)
      /\ shown' = [shown EXCEPT !.Routers = RemoveAt(@, row)]
      /\ form' = form /\ UNCHANGED <<torn, loadYaml>>
  BY DEF RemoveRouter, programVars
<1>2. /\ heap \in Seq(Seq(Cell)) /\ SliceOf(heap, tmpCfgRouters, RouterCell)
      /\ v \in Seq(RouterCell) /\ Len(v) = tmpCfgRouters.len /\ tmpCfgRouters.len \in Nat
      /\ w \in Seq(RouterCell) /\ SameRows(w, v)
  BY ListsInSession DEF Tables
<1>3. row \in 1 .. Len(w) /\ w[row] \in RouterCell
  BY <1>1, <1>2, LenProperties, ElementOfSeq
<1>4. m = IF I # {} THEN Max(I) ELSE 0
  <2>1. Elements(tmpCfgRouters) = v
    BY DEF Elements, View
  <2> QED
    BY <2>1 DEF Match, SelectLastInSeq
<1> HIDE DEF v, w, m
<1>5. Rows(w, ip) = Rows(v, ip)
  BY <1>2, <1>3 DEF SameRows
<1>6. I # {}
  <2>1. Rows(w, ip) # 0
    BY <1>2, <1>3, NoRows
  <2>2. Rows(v, ip) # 0
    BY <1>5, <2>1
  <2>3. ~\A i \in 1 .. Len(v) : v[i].RouterIP # ip
    BY <1>2, <2>2, NoRows
  <2> QED
    BY <2>3
<1>7. m \in 1 .. Len(v) /\ v[m].RouterIP = ip
  <2>1. I \subseteq 1 .. Len(v) /\ Len(v) \in Nat
    BY <1>2
  <2>2. m = Max(I)
    BY <1>4, <1>6
  <2>3. Max(I) \in I
    <3> HIDE DEF I
    <3> QED
      BY <1>6, <2>1, LargestIndex
  <2> QED
    BY <2>2, <2>3
<1>8. /\ m \in 1 .. tmpCfgRouters.len
      /\ tmpCfgRouters' = RemovedFrom(tmpCfgRouters)
      /\ heap' = HeapRemove(tmpCfgRouters, m, batchRouterAuth)
  <2>1. m # 0
    BY <1>2, <1>7
  <2> QED
    BY <1>1, <1>2, <1>7, <2>1
<1>9. View(heap', tmpCfgRouters') = RemoveAt(v, m)
  BY <1>2, <1>8, Cells, RemoveView DEF v
<1>10. View(heap', Upstream') = View(heap, Upstream)
  <2>1. Moves(heap, heap', tmpCfgRouters, tmpCfgRouters', RouterCell, Cell, 0)
    BY <1>2, <1>8, Cells, RemoveMoves
  <2>2. Upstream' = Upstream /\ 0 \in Nat
    BY <1>1 DEF Upstream
  <2> QED
    BY <2>1, <2>2, RoutersApart
<1>11. /\ DOMAIN shown' = DOMAIN shown /\ shown'.Routers = RemoveAt(w, row)
       /\ shown'.UpstreamServerIPs = shown.UpstreamServerIPs
  BY <1>1 DEF Tables, w
<1>12. RemoveAt(w, row) \in Seq(RouterCell)
  BY <1>2, <1>3, RemovedSeq
<1>13. SameRows(RemoveAt(w, row), RemoveAt(v, m))
  <2> SUFFICES ASSUME NEW x \in {r.RouterIP : r \in Router \cup RouterCell}
               PROVE  Rows(RemoveAt(w, row), x) = Rows(RemoveAt(v, m), x)
    BY DEF SameRows
  <2>1. Rows(w, x) = Rows(v, x)
    BY <1>2 DEF SameRows
  <2>2. Rows(RemoveAt(w, row), x) = Rows(w, x) - (IF ip = x THEN 1 ELSE 0)
    BY <1>2, <1>3, CountRemoved
  <2>3. Rows(RemoveAt(v, m), x) = Rows(v, x) - (IF v[m].RouterIP = x THEN 1 ELSE 0)
    BY <1>2, <1>7, CountRemoved
  <2> QED
    BY <1>7, <2>1, <2>2, <2>3
<1>14. SameRows(shown'.Routers, View(heap', tmpCfgRouters'))
  BY <1>9, <1>11, <1>13
<1> QED
  BY <1>1, <1>10, <1>11, <1>12, <1>14, TablesNext DEF Tables

(* A list in which nothing is twice stays so, with one more or one less.    *)
LEMMA InjectiveAppend ==
  ASSUME NEW S, NEW v \in Seq(S), NEW x \in S, IsInjective(v), x \notin ToSet(v)
  PROVE  IsInjective(Append(v, x))
<1> DEFINE n == Len(v)
           w == Append(v, x)
<1>1. n \in Nat /\ DOMAIN v = 1 .. n
  BY LenProperties
<1>2. /\ DOMAIN w = 1 .. n + 1 /\ w[n + 1] = x
      /\ \A i \in 1 .. n : w[i] = v[i] /\ v[i] # x
  <2>1. w \in Seq(S) /\ Len(w) = n + 1 /\ w[n + 1] = x /\ \A i \in 1 .. n : w[i] = v[i]
    BY AppendProperties
  <2>2. DOMAIN w = 1 .. n + 1
    BY <2>1, LenProperties
  <2>3. \A i \in 1 .. n : v[i] # x
    BY <1>1 DEF ToSet
  <2> QED
    BY <2>1, <2>2, <2>3
<1> HIDE DEF w, n
<1>3. ASSUME NEW i \in 1 .. n + 1, NEW j \in 1 .. n + 1, w[i] = w[j] PROVE i = j
  <2>1. (i \in 1 .. n \/ i = n + 1) /\ (j \in 1 .. n \/ j = n + 1)
    BY <1>1
  <2>2. i \in 1 .. n /\ j \in 1 .. n => i = j
    BY <1>1, <1>2, <1>3 DEF IsInjective
  <2> QED
    BY <1>2, <1>3, <2>1, <2>2
<1>4. IsInjective(w)
  BY <1>2, <1>3 DEF IsInjective
<1> QED
  BY <1>4 DEF w

LEMMA InjectiveRemove ==
  ASSUME NEW S, NEW v \in Seq(S), NEW k \in 1 .. Len(v), IsInjective(v)
  PROVE  IsInjective(RemoveAt(v, k))
<1> DEFINE n == Len(v)
           w == RemoveAt(v, k)
<1>1. n \in Nat /\ DOMAIN v = 1 .. n /\ k \in 1 .. n
  BY LenProperties
<1>2. DOMAIN w = 1 .. n - 1 /\ \A i \in 1 .. n - 1 : w[i] = IF i < k THEN v[i] ELSE v[i + 1]
  <2>1. /\ w \in Seq(S) /\ Len(w) = n - 1
        /\ \A i \in 1 .. n - 1 : w[i] = IF i < k THEN v[i] ELSE v[i + 1]
    BY RemovedSeq
  <2> QED
    BY <2>1, LenProperties
<1> HIDE DEF w, n
<1>3. ASSUME NEW i \in 1 .. n - 1, NEW j \in 1 .. n - 1, w[i] = w[j] PROVE i = j
  <2> DEFINE a == IF i < k THEN i ELSE i + 1
             b == IF j < k THEN j ELSE j + 1
  <2>1. w[i] = v[a] /\ w[j] = v[b] /\ a \in 1 .. n /\ b \in 1 .. n
    BY <1>1, <1>2
  <2>2. a = b
    BY <1>1, <1>3, <2>1 DEF IsInjective
  <2> QED
    BY <1>1, <2>2
<1>4. IsInjective(w)
  BY <1>2, <1>3 DEF IsInjective
<1> QED
  BY <1>4 DEF w

LEMMA AddServerShows ==
  ASSUME Editing, Tables, NEW ip \in Server, AddServer(ip)
  PROVE  Tables'
<1> DEFINE v == View(heap, Upstream)
           l == AppendedTo(Upstream)
<1>1. /\ UNCHANGED <<torn, loadYaml, tmpCfgRouters>>
      /\ shown' = [shown EXCEPT !.UpstreamServerIPs = RowsAfter(ip)]
      /\ Listed(ip) => UNCHANGED <<form, heap>>
      /\ ~Listed(ip) =>
           /\ form' = [form EXCEPT !["Proxy"] = [form["Proxy"] EXCEPT !["UpstreamServerIPs"] = l]]
           /\ heap' = HeapAppend(Upstream, ip, "")
  BY DEF AddServer, Upstream, programVars
<1>2. /\ heap \in Seq(Seq(Cell)) /\ SliceOf(heap, Upstream, ServerCell)
      /\ v \in Seq(ServerCell) /\ Upstream.len \in Nat
  BY ListsInSession
<1>3. ip \in ServerCell /\ "" \in ServerCell /\ ServerCell \subseteq Cell
  BY Cells DEF ServerCell
<1>4. Elements(Upstream) = v
  BY DEF Elements, View
<1>5. /\ DOMAIN shown' = DOMAIN shown /\ shown'.Routers = shown.Routers
      /\ shown'.UpstreamServerIPs = RowsAfter(ip)
  BY <1>1 DEF Tables
<1>6. CASE Listed(ip)
  <2>1. RowsAfter(ip) = v
    BY <1>4, <1>6 DEF RowsAfter
  <2>2. UNCHANGED <<form, heap>> /\ Upstream' = Upstream
    BY <1>1, <1>6 DEF Upstream
  <2>3. View(heap', Upstream') = v /\ View(heap', tmpCfgRouters') = View(heap, tmpCfgRouters)
    BY <1>1, <2>2
  <2> HIDE DEF v
  <2>4. SameRows(shown'.Routers, View(heap', tmpCfgRouters'))
    BY <1>5, <2>3 DEF Tables
  <2>5. IsInjective(v)
    BY DEF Tables, v
  <2> QED
    BY <1>1, <1>5, <2>1, <2>3, <2>4, <2>5, TablesNext DEF Tables
<1>7. CASE ~Listed(ip)
  <2>1. RowsAfter(ip) = Append(v, ip)
    BY <1>4, <1>7 DEF RowsAfter
  <2>2. Upstream' = l
    <3>1. HasParts(form)
      BY DEF Editing
    <3> HIDE DEF l
    <3>2. form'.Proxy.UpstreamServerIPs = l
      BY <1>1, <1>7, <3>1, ChangeServers
    <3> QED
      BY <3>2 DEF Upstream
  <2>3. heap' = HeapAppend(Upstream, ip, "")
    BY <1>1, <1>7
  <2>4. View(heap', l) = Append(v, ip)
    BY <1>2, <1>3, <2>3, AppendView
  <2>5. View(heap', tmpCfgRouters') = View(heap, tmpCfgRouters)
    <3>1. Moves(heap, heap', Upstream, l, ServerCell, Cell, Upstream.len)
      BY <1>2, <1>3, <2>3, AppendMoves
    <3> QED
      BY <1>1, <1>2, <3>1, ServersApart
  <2> HIDE DEF l
  <2>6. IsInjective(Append(v, ip))
    <3>1. IsInjective(v)
      BY DEF Tables
    <3>2. ip \notin ToSet(v)
      BY <1>4, <1>7 DEF Listed
    <3> QED
      BY <1>2, <1>3, <3>1, <3>2, InjectiveAppend
  <2> HIDE DEF v
  <2>7. SameRows(shown'.Routers, View(heap', tmpCfgRouters'))
    BY <1>5, <2>5 DEF Tables
  <2> QED
    BY <1>1, <1>5, <2>1, <2>2, <2>4, <2>6, <2>7, TablesNext DEF Tables
<1> QED
  BY <1>6, <1>7

LEMMA RemoveServerShows ==
  ASSUME Editing, Tables, NEW row, RemoveServer(row)
  PROVE  Tables'
<1> DEFINE v == View(heap, Upstream)
           w == shown.UpstreamServerIPs
           l == RemovedFrom(Upstream)
           I == {i \in 1 .. Len(v) : v[i] = w[row]}
           m == SelectLastInSeq(v, LAMBDA x : x = w[row])
<1>1. /\ UNCHANGED <<torn, loadYaml, tmpCfgRouters>>
      /\ row \in DOMAIN w
      /\ shown' = [shown EXCEPT !.UpstreamServerIPs = RemoveAt(@, row)]
      /\ m = 0 => UNCHANGED <<form, heap>>
      /\ m # 0 =>
           /\ form' = [form EXCEPT !["Proxy"] = [form["Proxy"] EXCEPT !["UpstreamServerIPs"] = l]]
           /\ heap' = HeapRemove(Upstream, m, "")
  <2>1. Elements(Upstream) = v
    BY DEF Elements, View
  <2> QED
    BY <2>1 DEF RemoveServer, Upstream, programVars
<1>2. /\ heap \in Seq(Seq(Cell)) /\ SliceOf(heap, Upstream, ServerCell)
      /\ v \in Seq(ServerCell) /\ Len(v) = Upstream.len /\ Upstream.len \in Nat
  BY ListsInSession
<1>3. "" \in ServerCell /\ ServerCell \subseteq Cell
  BY Cells
<1>4. m = IF I # {} THEN Max(I) ELSE 0
  BY DEF SelectLastInSeq
<1>5. /\ DOMAIN shown' = DOMAIN shown /\ shown'.Routers = shown.Routers
      /\ shown'.UpstreamServerIPs = RemoveAt(w, row)
  BY <1>1 DEF Tables
<1>6. IsInjective(v) /\ (v # <<>> \/ ~loadYaml => w = v)
  BY DEF Tables
<1>7. I \subseteq 1 .. Len(v)
  OBVIOUS
<1> HIDE DEF v, w, m
<1>8. CASE v = <<>>
  <2>1. I = {}
    BY <1>8
  <2>2. UNCHANGED <<form, heap>> /\ Upstream' = Upstream
    BY <1>1, <1>4, <2>1 DEF Upstream
  <2>3. View(heap', Upstream') = v /\ View(heap', tmpCfgRouters') = View(heap, tmpCfgRouters)
    BY <1>1, <2>2 DEF v
  <2>4. SameRows(shown'.Routers, View(heap', tmpCfgRouters'))
    BY <1>5, <2>3 DEF Tables
  <2>5. loadYaml
    <3>1. row \in DOMAIN w
      BY <1>1
    <3>2. w # <<>>
      BY <3>1
    <3> QED
      BY <1>6, <1>8, <3>2
  <2> QED
    BY <1>1, <1>5, <1>6, <1>8, <2>3, <2>4, <2>5, TablesNext DEF Tables
<1>9. CASE v # <<>>
  <2>1. w = v /\ row \in 1 .. Len(v)
    BY <1>1, <1>2, <1>6, <1>9, LenProperties
  <2>2. m = row
    <3>1. row \in I
      BY <2>1
    <3>2. I \subseteq {row}
      <4> SUFFICES ASSUME NEW i \in I PROVE i = row
        OBVIOUS
      <4>1. i \in DOMAIN v /\ row \in DOMAIN v
        BY <1>2, <2>1, LenProperties
      <4> QED
        BY <1>6, <2>1, <4>1 DEF IsInjective
    <3> HIDE DEF I
    <3>3. Max(I) \in I
      BY <1>2, <1>7, <3>1, LargestIndex
    <3> QED
      BY <1>4, <3>1, <3>2, <3>3
  <2>3. m # 0 /\ m \in 1 .. Upstream.len
    BY <1>2, <2>1, <2>2
  <2>4. Upstream' = l
    <3>1. HasParts(form)
      BY DEF Editing
    <3> HIDE DEF l
    <3>2. form'.Proxy.UpstreamServerIPs = l
      BY <1>1, <2>3, <3>1, ChangeServers
    <3> QED
      BY <3>2 DEF Upstream
  <2>5. heap' = HeapRemove(Upstream, m, "")
    BY <1>1, <2>3
  <2>6. View(heap', l) = RemoveAt(v, m)
    BY <1>2, <1>3, <2>3, <2>5, RemoveView DEF v
  <2>7. View(heap', tmpCfgRouters') = View(heap, tmpCfgRouters)
    <3>1. Moves(heap, heap', Upstream, l, ServerCell, Cell, 0)
      BY <1>2, <1>3, <2>3, <2>5, RemoveMoves
    <3>2. 0 \in Nat
      OBVIOUS
    <3> QED
      BY <1>1, <3>1, <3>2, ServersApart
  <2> HIDE DEF l
  <2>8. IsInjective(RemoveAt(v, m))
    BY <1>2, <1>6, <2>1, <2>2, InjectiveRemove
  <2>9. SameRows(shown'.Routers, View(heap', tmpCfgRouters'))
    BY <1>5, <2>7 DEF Tables
  <2>10. shown'.UpstreamServerIPs = RemoveAt(v, m)
    BY <1>5, <2>1, <2>2
  <2> QED
    BY <1>1, <1>5, <2>4, <2>6, <2>8, <2>9, <2>10, TablesNext DEF Tables
<1> QED
  BY <1>8, <1>9

(* A step that leaves both lists alone leaves the tables alone.             *)
LEMMA TablesStay ==
  ASSUME Tables, UNCHANGED <<torn, loadYaml, tmpCfgRouters, heap, shown>>, Upstream' = Upstream
  PROVE  Tables'
<1>1. View(heap', tmpCfgRouters') = View(heap, tmpCfgRouters) /\ View(heap', Upstream') = View(heap, Upstream)
  OBVIOUS
<1>2. SameRows(shown'.Routers, View(heap', tmpCfgRouters'))
  BY <1>1 DEF Tables
<1> QED
  BY <1>1, <1>2, TablesNext DEF Tables

(* The table of routers starts with the slice, and the other one before     *)
(* there is a list.                                                         *)
LEMMA ConfigureShows ==
  ASSUME SaveInv, NEW load \in BOOLEAN, NEW forms, Configure(load, forms)
  PROVE  Tables'
<1> DEFINE R == Loaded.Batch.Routers
<1>1. /\ file # Unreadable /\ loadYaml' = load /\ torn' = torn
      /\ heap' = IF load THEN <<R>> ELSE <<>>
      /\ tmpCfgRouters' = IF load THEN Slice(1, Len(R)) ELSE Nil
      /\ form' = Forms(Loaded, tmpCfgRouters')
      /\ shown' = [Routers |-> R,
                   UpstreamServerIPs |->
                     IF load THEN SelectSeq(Loaded.Proxy.UpstreamServerIPs, IsAddress) ELSE <<>>]
  BY DEF Configure
<1>2. HasParts(Loaded) /\ R \in Seq(RouterCell) /\ (~load => R = <<>>)
  <2>1. (load => Loaded = file) /\ (~load => Loaded = programConfig)
    BY <1>1 DEF Loaded
  <2>2. <<>> \in Seq(RouterCell)
    BY EmptySeq
  <2>3. HasParts(programConfig) /\ programConfig.Batch.Routers = <<>>
    BY NoOptions
  <2> QED
    BY <1>1, <2>1, <2>2, <2>3 DEF SaveInv, FileOK
<1>3. Upstream' = Nil
  BY <1>1, <1>2, FormsLists DEF Upstream
<1>4. /\ DOMAIN shown' = {"Routers", "UpstreamServerIPs"} /\ shown'.Routers = R
      /\ ~load => shown'.UpstreamServerIPs = <<>>
  BY <1>1
<1> HIDE DEF R
<1>5. View(heap', tmpCfgRouters') = R
  <2>1. CASE load
    <3>1. heap'[1] = R /\ tmpCfgRouters'.array = 1 /\ tmpCfgRouters'.len = Len(R) /\ tmpCfgRouters' # Nil
      BY <1>1, <2>1 DEF Slice, Nil
    <3>2. View(heap', tmpCfgRouters') = SubSeq(R, 1, Len(R))
      BY <3>1 DEF View
    <3> QED
      BY <1>2, <3>2, SubSeqFull
  <2>2. CASE ~load
    BY <1>1, <1>2, <2>2 DEF View
  <2> QED
    BY <2>1, <2>2
<1>6. SameRows(shown'.Routers, View(heap', tmpCfgRouters'))
  BY <1>4, <1>5 DEF SameRows
<1>7. View(heap', Upstream') = <<>>
  BY <1>3 DEF View
<1>8. IsInjective(<<>>)
  BY DEF IsInjective
<1> QED
  BY <1>1, <1>2, <1>4, <1>6, <1>7, <1>8, TablesNext

LEMMA TablesStep == ASSUME SaveInv, TablesInv, [Next]_vars PROVE TablesInv'
<1>1. CASE phase # "configurator"
  <2>1. CASE \E load \in BOOLEAN, forms \in Usage : Configure(load, forms)
    BY <2>1, ConfigureShows DEF TablesInv
  <2>2. ASSUME NEW flags, Start(flags) PROVE phase' # "configurator"
    BY <2>2 DEF Start, Outcomes
  <2>3. CannotRead \/ Stop \/ DispatchPanics => phase' # "configurator"
    BY DEF CannotRead, Stop, DispatchPanics, Ended
  <2>4. UNCHANGED vars => phase' # "configurator"
    BY <1>1 DEF vars, programVars
  <2>5. ~(Edit \/ SaveSection \/ QuitWithoutSaving \/ SaveAndQuit \/ SaveAndQuitFails)
    BY <1>1 DEF Edit, Type, Show, AddRouter, RemoveRouter, AddServer, RemoveServer, SaveSection, Save,
                SaveProxy, SaveBatch, SaveRouters, In, QuitWithoutSaving, SaveAndQuit, SaveAndQuitFails, Quit
  <2> QED
    BY <2>1, <2>2, <2>3, <2>4, <2>5 DEF Next, TablesInv
<1>2. CASE phase = "configurator"
  <2>1. Editing /\ Tables
    BY <1>2 DEF SaveInv, TablesInv
  <2>2. CASE Edit
    <3>1. CASE Typing
      <4>1. Upstream' = Upstream
        BY <2>1, <3>1, TypingLeavesLists DEF Editing, Upstream
      <4>2. UNCHANGED <<torn, loadYaml, tmpCfgRouters, heap, shown>>
        BY <3>1 DEF Typing, Type, Show, programVars
      <4> QED
        BY <2>1, <4>1, <4>2, TablesStay DEF TablesInv
    <3>2. ASSUME NEW r \in Router, AddRouter(r) PROVE Tables'
      BY <2>1, <3>2, AddRouterShows
    <3>3. ASSUME NEW row, RemoveRouter(row) PROVE Tables'
      BY <2>1, <3>3, RemoveRouterShows
    <3>4. ASSUME NEW ip \in Server, AddServer(ip) PROVE Tables'
      BY <2>1, <3>4, AddServerShows
    <3>5. ASSUME NEW row, RemoveServer(row) PROVE Tables'
      BY <2>1, <3>5, RemoveServerShows
    <3> QED
      BY <2>2, <3>1, <3>2, <3>3, <3>4, <3>5 DEF Edit, Typing, TablesInv
  <2>3. CASE SaveSection \/ UNCHANGED vars
    <3>1. UNCHANGED <<programVars, formVars>>
      BY <2>3 DEF SaveSection, Save, SaveProxy, SaveBatch, SaveRouters, vars
    <3>2. UNCHANGED <<torn, loadYaml, tmpCfgRouters, heap, shown>> /\ Upstream' = Upstream
      BY <3>1 DEF programVars, formVars, Upstream
    <3> QED
      BY <2>1, <3>2, TablesStay DEF TablesInv
  <2>4. CASE QuitWithoutSaving \/ SaveAndQuit \/ SaveAndQuitFails
    BY <2>4 DEF QuitWithoutSaving, SaveAndQuit, SaveAndQuitFails, Quit, TablesInv
  <2>5. ASSUME NEW load, NEW forms, Configure(load, forms) PROVE FALSE
    BY <1>2, <2>5 DEF Configure, Idle
  <2>6. ASSUME NEW flags, Start(flags) PROVE FALSE
    BY <1>2, <2>6 DEF Start, Idle
  <2>7. ~CannotRead /\ ~Stop /\ ~DispatchPanics
    BY <1>2 DEF CannotRead, Stop, DispatchPanics, Ended, Idle
  <2> QED
    BY <2>2, <2>3, <2>4, <2>5, <2>6, <2>7 DEF Next
<1> QED
  BY <1>1, <1>2

LEMMA TablesHold == Spec => []TablesInv
<1>1. Init => TablesInv
  BY DEF Init, TablesInv
<1> QED
  BY <1>1, Saves, TablesStep, PTL DEF Spec

(* Whoever removes a router by looking at the table removes one with the    *)
(* address of the row: the table and the slice have as many of each, though *)
(* they are not in the same order, whatever the session does to the arrays  *)
(* they share (configurator.go:430-438, 463-484).                           *)
THEOREM TableShowsRoutersHolds == Spec => []TableShowsRouters
<1>1. TablesInv => TableShowsRouters
  <2> SUFFICES ASSUME Tables, NEW ip \in {r.RouterIP : r \in Router}
               PROVE  Rows(shown.Routers, ip) = Rows(Elements(tmpCfgRouters), ip)
    BY DEF TablesInv, TableShowsRouters
  <2>1. Elements(tmpCfgRouters) = View(heap, tmpCfgRouters)
    BY DEF Elements, View
  <2> QED
    BY <2>1 DEF Tables, SameRows
<1> QED
  BY <1>1, TablesHold, PTL

(* And whoever removes a DHCP server removes the one of the row, in every   *)
(* session that loads nothing, and in the others once a server was added:   *)
(* the rows from a file are on no list (configurator.go:506-541, 558-571,   *)
(* 580-591).                                                                *)
THEOREM TableShowsServersHolds == Spec => []TableShowsServers
<1>1. TablesInv => TableShowsServers
  BY DEF TablesInv, Tables, TableShowsServers, Elements, View
<1> QED
  BY <1>1, TablesHold, PTL
=============================================================================
