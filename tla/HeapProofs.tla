----------------------------- MODULE HeapProofs -----------------------------
(***************************************************************************)
(* Proofs about the kernel's heap, for any header, page and request sizes. *)
(***************************************************************************)
EXTENDS Heap, SequenceTheorems, TLAPS

Blocks == [addr : Nat, size : Nat, available : BOOLEAN]

(* What the two sequence operators of the model do. *)

\* What inserting an element does to the elements of a sequence.
LEMMA InsertAtElements ==
    ASSUME NEW S, NEW s \in Seq(S), NEW i \in 1 .. Len(s) + 1, NEW e \in S
    PROVE  /\ InsertAt(s, i, e) \in Seq(S)
           /\ Len(InsertAt(s, i, e)) = Len(s) + 1
           /\ \A j \in 1 .. Len(s) + 1 :
                InsertAt(s, i, e)[j] = IF j < i THEN s[j] ELSE IF j = i THEN e ELSE s[j - 1]
<1> DEFINE a == SubSeq(s, 1, i - 1)
           z == SubSeq(s, i, Len(s))
<1>1. Len(s) \in Nat /\ \A j \in 1 .. Len(s) : s[j] \in S
  BY LenProperties, ElementOfSeq
<1>2. a \in Seq(S) /\ Len(a) = i - 1 /\ \A j \in 1 .. i - 1 : a[j] = s[j]
  BY <1>1, SubSeqProperties
<1>3. z \in Seq(S) /\ Len(z) = Len(s) - i + 1 /\ \A j \in 1 .. Len(s) - i + 1 : z[j] = s[i + j - 1]
  BY <1>1, SubSeqProperties
<1>4. <<e>> \in Seq(S) /\ Len(<<e>>) = 1 /\ <<e>>[1] = e
  OBVIOUS
<1> HIDE DEF a, z
<1> DEFINE b == a \o <<e>>
<1>5. b \in Seq(S) /\ Len(b) = i
      /\ \A j \in 1 .. i : b[j] = IF j < i THEN s[j] ELSE e
  BY <1>1, <1>2, <1>4, ConcatProperties
<1> HIDE DEF b
<1>6. /\ b \o z \in Seq(S)
      /\ Len(b \o z) = Len(b) + Len(z)
      /\ \A j \in 1 .. Len(b) + Len(z) : (b \o z)[j] = IF j <= Len(b) THEN b[j] ELSE z[j - Len(b)]
  BY <1>3, <1>5, ConcatProperties
<1>7. InsertAt(s, i, e) = b \o z
  BY DEF InsertAt, a, b, z
<1> QED BY <1>1, <1>3, <1>5, <1>6, <1>7

\* What removing an element does to the elements of a sequence.
LEMMA RemoveAtElements ==
    ASSUME NEW S, NEW s \in Seq(S), NEW i \in 1 .. Len(s)
    PROVE  /\ RemoveAt(s, i) \in Seq(S)
           /\ Len(RemoveAt(s, i)) = Len(s) - 1
           /\ \A j \in 1 .. Len(s) - 1 :
                RemoveAt(s, i)[j] = IF j < i THEN s[j] ELSE s[j + 1]
<1> DEFINE a == SubSeq(s, 1, i - 1)
           z == SubSeq(s, i + 1, Len(s))
<1>1. Len(s) \in Nat /\ \A j \in 1 .. Len(s) : s[j] \in S
  BY LenProperties, ElementOfSeq
<1>2. a \in Seq(S) /\ Len(a) = i - 1 /\ \A j \in 1 .. i - 1 : a[j] = s[j]
  BY <1>1, SubSeqProperties
<1>3. z \in Seq(S) /\ Len(z) = Len(s) - i /\ \A j \in 1 .. Len(s) - i : z[j] = s[i + j]
  BY <1>1, SubSeqProperties
<1> HIDE DEF a, z
<1> DEFINE c == a \o z
<1>4. /\ c \in Seq(S) /\ Len(c) = Len(a) + Len(z)
      /\ \A j \in 1 .. Len(a) + Len(z) : c[j] = IF j <= Len(a) THEN a[j] ELSE z[j - Len(a)]
  BY <1>2, <1>3, ConcatProperties
<1>5. RemoveAt(s, i) = c
  BY DEF RemoveAt, a, c, z
<1> HIDE DEF c
<1>6. ASSUME NEW j \in 1 .. Len(s) - 1
      PROVE  c[j] = IF j < i THEN s[j] ELSE s[j + 1]
  <2>1. j \in 1 .. Len(a) + Len(z) /\ Len(a) = i - 1
    BY <1>1, <1>2, <1>3
  <2>2. c[j] = IF j <= i - 1 THEN a[j] ELSE z[j - (i - 1)]
    BY <1>4, <2>1
  <2>3. CASE j < i
    BY <1>1, <1>2, <2>2, <2>3
  <2>4. CASE ~(j < i)
    <3> DEFINE k == j - (i - 1)
    <3>1. k \in 1 .. Len(s) - i /\ i + k = j + 1 /\ ~(j <= i - 1)
      BY <1>1, <2>4
    <3>2. z[k] = s[j + 1]
      BY <1>3, <3>1
    <3>3. c[j] = z[k]
      BY <2>2, <3>1
    <3> HIDE DEF k
    <3> QED BY <2>4, <3>2, <3>3
  <2> QED BY <2>3, <2>4
<1>7. c \in Seq(S) /\ Len(c) = Len(s) - 1
  BY <1>1, <1>2, <1>3, <1>4
<1>8. \A j \in 1 .. Len(s) - 1 : c[j] = IF j < i THEN s[j] ELSE s[j + 1]
  BY <1>6
<1> QED BY <1>5, <1>7, <1>8

-----------------------------------------------------------------------------
(* The shape of the chain c of a heap of h bytes.                          *)

Ends(c, i) == c[i].addr + c[i].size

Ordered(c) == \A i, j \in 1 .. Len(c) : i < j => Ends(c, i) <= c[j].addr

ChainOK(c, h) == /\ c \in Seq(Blocks) /\ c # << >>
                 /\ c[1].addr = 0
                 /\ \A i \in 1 .. Len(c) - 1 : Ends(c, i) = c[i + 1].addr
                 /\ Ends(c, Len(c)) = h
                 /\ \A i \in 1 .. Len(c) : c[i].size >= HEADER
                 /\ Ordered(c)

\* Every block of a well-formed chain is a record with an address and a size.
LEMMA ChainTypes ==
    ASSUME NEW c, NEW h, ChainOK(c, h)
    PROVE  /\ Len(c) \in Nat \ {0} /\ DOMAIN c = 1 .. Len(c)
           /\ \A i \in 1 .. Len(c) : /\ c[i] \in Blocks
                                     /\ c[i].addr \in Nat /\ c[i].size \in Nat
                                     /\ c[i].available \in BOOLEAN
                                     /\ c[i] = Block(c[i].addr, c[i].size, c[i].available)
           /\ h \in Nat
<1>1. c \in Seq(Blocks) /\ c # << >> /\ Ends(c, Len(c)) = h
  BY DEF ChainOK
<1>2. Len(c) \in Nat \ {0} /\ DOMAIN c = 1 .. Len(c)
  BY <1>1, LenProperties, EmptySeq
<1>3. \A i \in 1 .. Len(c) : c[i] \in Blocks
  BY <1>1, <1>2, ElementOfSeq
<1>4. \A i \in 1 .. Len(c) : /\ c[i].addr \in Nat /\ c[i].size \in Nat
                             /\ c[i].available \in BOOLEAN
                             /\ c[i] = Block(c[i].addr, c[i].size, c[i].available)
  BY <1>3 DEF Blocks, Block
<1>5. h \in Nat
  BY <1>1, <1>2, <1>4 DEF Ends
<1> QED BY <1>2, <1>3, <1>4, <1>5

\* No block reaches beyond the end of the heap.
LEMMA WithinHeap ==
    ASSUME NEW c, NEW h, ChainOK(c, h), NEW i \in 1 .. Len(c)
    PROVE  Ends(c, i) <= h
<1>1. /\ Len(c) \in Nat \ {0} /\ h \in Nat
      /\ \A j \in 1 .. Len(c) : c[j].addr \in Nat /\ c[j].size \in Nat
  BY ChainTypes
<1>2. CASE i = Len(c)
  BY <1>1, <1>2 DEF ChainOK
<1>3. CASE i # Len(c)
  <2>1. Ends(c, i) <= c[Len(c)].addr /\ Ends(c, Len(c)) = h
    BY <1>1, <1>3 DEF ChainOK, Ordered
  <2> QED BY SMTT(30), <1>1, <2>1 DEF Ends
<1> QED BY <1>2, <1>3

\* A block is given another flag and, the last one, another size.
LEMMA ChangeBlock ==
    ASSUME NEW c, NEW h, ChainOK(c, h), NEW i \in 1 .. Len(c),
           NEW n \in Nat, n >= HEADER, i # Len(c) => n = c[i].size,
           NEW av \in BOOLEAN
    PROVE  LET d == [c EXCEPT ![i] = Block(c[i].addr, n, av)]
           IN  /\ ChainOK(d, IF i = Len(c) THEN c[i].addr + n ELSE h)
               /\ Len(d) = Len(c)
               /\ \A j \in 1 .. Len(c) : d[j] = IF j = i THEN Block(c[i].addr, n, av) ELSE c[j]
<1> DEFINE b == Block(c[i].addr, n, av)
           d == [c EXCEPT ![i] = b]
           k == IF i = Len(c) THEN c[i].addr + n ELSE h
<1>1. /\ Len(c) \in Nat \ {0} /\ h \in Nat
      /\ \A j \in 1 .. Len(c) : c[j].addr \in Nat /\ c[j].size \in Nat
  BY ChainTypes
<1>2. b \in Blocks /\ b.addr = c[i].addr /\ b.size = n /\ b.available = av
  BY <1>1 DEF Block, Blocks
<1>3. c \in Seq(Blocks)
  BY DEF ChainOK
<1> HIDE DEF b
<1>4. /\ d \in Seq(Blocks) /\ Len(d) = Len(c)
      /\ \A j \in 1 .. Len(c) : d[j] = IF j = i THEN b ELSE c[j]
  BY <1>2, <1>3, ExceptSeq
<1>5. d # << >>
  BY <1>1, <1>4, EmptySeq
<1> HIDE DEF d
<1>6. \A j \in 1 .. Len(c) : /\ d[j].addr = c[j].addr /\ d[j].size >= HEADER
                             /\ j # Len(c) => Ends(d, j) = Ends(c, j)
                             /\ j = Len(c) => Ends(d, j) = k
  BY <1>1, <1>2, <1>4 DEF ChainOK, Ends
<1>7. Ordered(d)
  BY <1>1, <1>4, <1>6 DEF ChainOK, Ordered
<1>8. ChainOK(d, k)
  BY <1>1, <1>4, <1>5, <1>6, <1>7 DEF ChainOK
<1> QED BY <1>4, <1>8 DEF b, d

\* The chain c after block i is cut at n bytes and the second part given rest.
Cut(c, i, n, rest) == InsertAt([c EXCEPT ![i] = Block(c[i].addr, n, FALSE)], i + 1,
                               Block(c[i].addr + n, rest, TRUE))

IsCut(e, c, i, n, rest) == /\ Len(e) = Len(c) + 1
                           /\ \A j \in 1 .. i - 1 : e[j] = c[j]
                           /\ e[i] = Block(c[i].addr, n, FALSE)
                           /\ e[i + 1] = Block(c[i].addr + n, rest, TRUE)
                           /\ \A j \in i + 2 .. Len(c) + 1 : e[j] = c[j - 1]

\* A block is cut in two; of the last block the second part may end further on.
LEMMA CutBlock ==
    ASSUME NEW c, NEW h, ChainOK(c, h), NEW i \in 1 .. Len(c),
           NEW n \in Nat, NEW rest \in Nat, n >= HEADER, rest >= HEADER, NEW k \in Nat,
           i = Len(c) => c[i].addr + n + rest = k,
           i # Len(c) => n + rest = c[i].size /\ k = h
    PROVE  ChainOK(Cut(c, i, n, rest), k) /\ IsCut(Cut(c, i, n, rest), c, i, n, rest)
<1> DEFINE b == Block(c[i].addr, n, FALSE)
           r == Block(c[i].addr + n, rest, TRUE)
           d == [c EXCEPT ![i] = b]
           m == i + 1
           e == InsertAt(d, m, r)
           L == Len(c)
<1>1. /\ L \in Nat \ {0} /\ h \in Nat /\ HEADER \in Nat
      /\ \A j \in 1 .. L : c[j].addr \in Nat /\ c[j].size \in Nat /\ c[j].size >= HEADER
  BY ChainTypes, HeapAssumption DEF ChainOK
<1>2. /\ b \in Blocks /\ b.addr = c[i].addr /\ b.size = n
      /\ r \in Blocks /\ r.addr = c[i].addr + n /\ r.size = rest
  BY <1>1 DEF Block, Blocks
<1> HIDE DEF b, r
<1>3. c \in Seq(Blocks)
  BY DEF ChainOK
<1>4. /\ d \in Seq(Blocks) /\ Len(d) = L
      /\ \A j \in 1 .. L : d[j] = IF j = i THEN b ELSE c[j]
  BY <1>2, <1>3, ExceptSeq
<1> HIDE DEF d
<1>5. m \in 1 .. Len(d) + 1 /\ Len(d) + 1 = L + 1 /\ m = i + 1
  BY <1>1, <1>4
<1> HIDE DEF m
<1>6. /\ e \in Seq(Blocks) /\ Len(e) = Len(d) + 1
      /\ \A j \in 1 .. Len(d) + 1 :
            e[j] = IF j < m THEN d[j] ELSE IF j = m THEN r ELSE d[j - 1]
  <2>1. d \in Seq(Blocks)
    BY <1>4
  <2>2. r \in Blocks
    BY <1>2
  <2>3. m \in 1 .. Len(d) + 1
    BY <1>5
  <2> QED BY <2>1, <2>2, <2>3, InsertAtElements
<1> HIDE DEF e
<1>7. /\ e \in Seq(Blocks) /\ Len(e) = L + 1
      /\ \A j \in 1 .. L + 1 : e[j] = IF j < m THEN d[j] ELSE IF j = m THEN r ELSE d[j - 1]
  BY <1>5, <1>6
<1>8. /\ \A j \in 1 .. i - 1 : e[j] = c[j]
      /\ e[i] = b /\ e[i + 1] = r
      /\ \A j \in i + 2 .. L + 1 : e[j] = c[j - 1]
  <2>1. \A j \in 1 .. i - 1 : j \in 1 .. L + 1 /\ j \in 1 .. L /\ j < m /\ j # i
    BY <1>1, <1>5
  <2>2. i \in 1 .. L + 1 /\ i < m /\ m \in 1 .. L + 1 /\ ~(m < m)
    BY <1>1, <1>5
  <2>3. ASSUME NEW j \in i + 2 .. L + 1
        PROVE  e[j] = c[j - 1]
    <3>1. j \in 1 .. L + 1 /\ ~(j < m) /\ j # m /\ j - 1 \in 1 .. L /\ j - 1 # i
      BY <1>1, <1>5
    <3> QED BY <1>4, <1>7, <3>1
  <2> QED BY <1>4, <1>5, <1>7, <2>1, <2>2, <2>3
<1>8b. /\ e[i].addr = c[i].addr /\ e[i].size = n
       /\ e[i + 1].addr = c[i].addr + n /\ e[i + 1].size = rest
  BY <1>2, <1>8
<1> DEFINE MovedUp == \A j \in i + 1 .. L : e[j + 1] = c[j]
<1>8a. MovedUp
  <2> SUFFICES ASSUME NEW j \in i + 1 .. L
               PROVE  e[j + 1] = c[j]
    OBVIOUS
  <2> DEFINE x == j + 1
  <2>1. x \in i + 2 .. L + 1 /\ x - 1 = j
    BY <1>1
  <2> HIDE DEF x
  <2>2. e[x] = c[j]
    BY <1>8, <2>1
  <2> QED BY <2>2 DEF x
<1>9. e # << >>
  BY <1>1, <1>7, EmptySeq
<1>10. /\ Ends(e, i) = e[i + 1].addr
       /\ Ends(e, i + 1) = IF i = L THEN k ELSE Ends(c, i)
       /\ e[i].addr = c[i].addr
  BY <1>1, <1>2, <1>8 DEF Ends
<1>11. e[1].addr = 0
  <2>1. c[1].addr = 0
    BY DEF ChainOK
  <2> QED BY SMTT(30), <1>1, <1>8, <1>10, <2>1
<1>12. ASSUME NEW j \in 1 .. Len(e) - 1
       PROVE  Ends(e, j) = e[j + 1].addr
  <2>1. \A l \in 1 .. L - 1 : Ends(c, l) = c[l + 1].addr
    BY DEF ChainOK
  <2>2. CASE j < i - 1
    <3>1. j \in 1 .. i - 1 /\ j + 1 \in 1 .. i - 1 /\ j \in 1 .. L - 1
      BY <1>1, <2>2
    <3> QED BY <1>8, <2>1, <3>1 DEF Ends
  <2>3. CASE j = i - 1
    <3>1. j \in 1 .. i - 1 /\ j + 1 = i /\ j \in 1 .. L - 1
      BY <1>1, <2>3
    <3> QED BY <1>8, <1>10, <2>1, <3>1 DEF Ends
  <2>4. CASE j = i
    BY <1>10, <2>4
  <2>5. CASE j = i + 1
    <3>1. j + 1 \in i + 2 .. L + 1 /\ i \in 1 .. L - 1 /\ i # L /\ j + 1 - 1 = i + 1
      BY <1>1, <1>7, <2>5
    <3> QED BY SMTT(60), <1>8, <1>10, <2>1, <2>5, <3>1
  <2>6. CASE j > i + 1
    <3>1. /\ j \in i + 2 .. L + 1 /\ j + 1 \in i + 2 .. L + 1 /\ j - 1 \in 1 .. L - 1
          /\ j + 1 - 1 = j /\ (j - 1) + 1 = j
      BY <1>1, <1>7, <2>6
    <3>2. e[j] = c[j - 1] /\ e[j + 1] = c[j]
      BY <1>1, <1>8, <1>8a, <2>6, <3>1
    <3>3. Ends(c, j - 1) = c[j].addr
      BY <1>1, <2>1, <3>1
    <3> QED BY <3>2, <3>3 DEF Ends
  <2> QED BY <1>1, <1>7, <2>2, <2>3, <2>4, <2>5, <2>6
<1>13. Ends(e, Len(e)) = k
  <2>1. CASE i = L
    BY <1>7, <1>10, <2>1
  <2>2. CASE i # L
    <3>1. L \in i + 1 .. L /\ Len(e) = L + 1
      BY <1>1, <1>7, <2>2
    <3>2. e[L + 1] = c[L]
      BY <1>8a, <3>1
    <3>3. Ends(c, L) = k
      BY <2>2 DEF ChainOK
    <3> QED BY <3>1, <3>2, <3>3 DEF Ends
  <2> QED BY <2>1, <2>2
<1>14. ASSUME NEW j \in 1 .. Len(e)
       PROVE  e[j].size >= HEADER
  <2>1. CASE j < i
    <3>1. j \in 1 .. i - 1 /\ j \in 1 .. L
      BY <1>1, <2>1
    <3> QED BY <1>1, <1>8, <3>1
  <2>2. CASE j \in {i, i + 1}
    BY <1>8b, <2>2
  <2>3. CASE j > i + 1
    <3>1. j \in i + 2 .. L + 1 /\ j - 1 \in 1 .. L
      BY <1>1, <1>7, <2>3
    <3>2. e[j] = c[j - 1]
      BY <1>8, <3>1
    <3> QED BY <1>1, <3>1, <3>2
  <2> QED BY <1>1, <1>7, <2>1, <2>2, <2>3
<1>15. ASSUME NEW j \in 1 .. Len(e), NEW q \in 1 .. Len(e), j < q
       PROVE  Ends(e, j) <= e[q].addr
  <2>0. Len(e) = L + 1 /\ e[i].addr = c[i].addr /\ e[i + 1].addr = c[i].addr + n
    BY <1>7, <1>8b
  <2>1. ASSUME NEW x \in 1 .. L, NEW y \in 1 .. L, x < y
        PROVE  Ends(c, x) <= c[y].addr /\ Ends(c, x) \in Nat /\ c[y].addr \in Nat
    <3>1. Ends(c, x) <= c[y].addr
      BY <2>1 DEF ChainOK, Ordered
    <3>2. Ends(c, x) \in Nat /\ c[y].addr \in Nat
      BY SMTT(60), <1>1 DEF Ends
    <3> QED BY <3>1, <3>2
  <2>2. CASE q < i
    <3>1. j \in 1 .. i - 1 /\ q \in 1 .. i - 1 /\ j \in 1 .. L /\ q \in 1 .. L
      BY SMTT(30), <1>1, <1>15, <2>0, <2>2
    <3> QED BY <1>8, <1>15, <2>1, <3>1 DEF Ends
  <2>3. CASE j < i /\ q \in {i, i + 1}
    <3>1. j \in 1 .. i - 1 /\ j \in 1 .. L
      BY <1>1, <2>3
    <3>2. Ends(c, j) <= c[i].addr /\ Ends(c, j) \in Nat /\ c[i].addr \in Nat
      BY <2>1, <2>3, <3>1
    <3>3. Ends(e, j) = Ends(c, j)
      BY <1>8, <3>1 DEF Ends
    <3>4. Ends(e, j) <= e[i].addr /\ Ends(e, j) <= e[i + 1].addr
      BY <2>0, <3>2, <3>3
    <3> QED BY <2>3, <3>4
  <2>4. CASE j = i /\ q = i + 1
    <3>1. e[i + 1].addr \in Nat /\ Ends(e, i) = e[i + 1].addr
      BY SMTT(30), <1>1, <1>8b, <1>10
    <3> QED BY <2>4, <3>1
  <2>5. CASE q > i + 1
    <3>1. q \in i + 2 .. L + 1 /\ q - 1 \in 1 .. L
      BY SMTT(30), <1>1, <2>0, <2>5
    <3>2. e[q] = c[q - 1]
      BY <1>8, <3>1
    <3>3. CASE j < i
      <4>1. j \in 1 .. i - 1 /\ j \in 1 .. L /\ j < q - 1
        BY <1>1, <2>5, <3>3
      <4> QED BY <1>8, <2>1, <3>1, <3>2, <4>1 DEF Ends
    <3>4. CASE j \in {i, i + 1}
      <4>1. i < q - 1 /\ i # L
        BY <1>1, <2>5, <3>1
      <4>2. Ends(c, i) <= c[q - 1].addr /\ Ends(c, i) \in Nat /\ c[q - 1].addr \in Nat
        BY <2>1, <3>1, <4>1
      <4>3. Ends(e, i + 1) = Ends(c, i) /\ Ends(e, i) <= Ends(c, i)
        BY <1>1, <1>2, <1>8, <1>10, <4>1 DEF Ends
      <4>4. Ends(e, i) \in Nat /\ Ends(e, i) <= Ends(c, i)
        BY SMTT(30), <1>1, <1>2, <1>10, <2>0, <4>3
      <4> QED BY SMTT(60), <3>2, <3>4, <4>2, <4>3, <4>4
    <3>5. CASE j > i + 1
      <4>1. j \in i + 2 .. L + 1 /\ j - 1 \in 1 .. L /\ j - 1 < q - 1
        BY <1>1, <1>15, <2>0, <3>5
      <4>2. e[j] = c[j - 1]
        BY <1>8, <4>1
      <4>3. Ends(c, j - 1) <= c[q - 1].addr
        BY <2>1, <3>1, <4>1
      <4> QED BY <3>2, <4>2, <4>3 DEF Ends
    <3> QED BY SMTT(30), <1>1, <2>0, <3>3, <3>4, <3>5
  <2> QED BY <1>1, <1>15, <2>0, <2>2, <2>3, <2>4, <2>5
<1>16. ChainOK(e, k)
  BY <1>7, <1>9, <1>11, <1>12, <1>13, <1>14, <1>15 DEF ChainOK, Ordered
<1> QED BY <1>7, <1>8, <1>16 DEF b, r, d, m, e, Cut, IsCut

\* A block swallows the next one.
LEMMA JoinBlocks ==
    ASSUME NEW c, NEW h, ChainOK(c, h), NEW i \in 1 .. Len(c) - 1
    PROVE  LET e == RemoveAt([c EXCEPT ![i] = Block(c[i].addr, c[i].size + c[i + 1].size, TRUE)],
                             i + 1)
           IN  /\ ChainOK(e, h)
               /\ Len(e) = Len(c) - 1
               /\ \A j \in 1 .. i - 1 : e[j] = c[j]
               /\ e[i] = Block(c[i].addr, c[i].size + c[i + 1].size, TRUE)
               /\ \A j \in i + 1 .. Len(c) - 1 : e[j] = c[j + 1]
<1> DEFINE b == Block(c[i].addr, c[i].size + c[i + 1].size, TRUE)
           d == [c EXCEPT ![i] = b]
           m == i + 1
           e == RemoveAt(d, m)
           L == Len(c)
<1>1. /\ L \in Nat \ {0} /\ h \in Nat /\ HEADER \in Nat
      /\ \A j \in 1 .. L : c[j].addr \in Nat /\ c[j].size \in Nat /\ c[j].size >= HEADER
  BY ChainTypes, HeapAssumption DEF ChainOK
<1>2. /\ b \in Blocks /\ b.addr = c[i].addr /\ b.size = c[i].size + c[i + 1].size
      /\ i \in 1 .. L /\ i + 1 \in 1 .. L
  BY <1>1 DEF Block, Blocks
<1> HIDE DEF b
<1>3. c \in Seq(Blocks)
  BY DEF ChainOK
<1>4. /\ d \in Seq(Blocks) /\ Len(d) = L
      /\ \A j \in 1 .. L : d[j] = IF j = i THEN b ELSE c[j]
  BY <1>2, <1>3, ExceptSeq
<1> HIDE DEF d
<1>5. m \in 1 .. Len(d) /\ m = i + 1
  BY <1>1, <1>4
<1> HIDE DEF m
<1>6. /\ e \in Seq(Blocks) /\ Len(e) = Len(d) - 1
      /\ \A j \in 1 .. Len(d) - 1 : e[j] = IF j < m THEN d[j] ELSE d[j + 1]
  <2>1. d \in Seq(Blocks)
    BY <1>4
  <2>2. m \in 1 .. Len(d)
    BY <1>5
  <2> QED BY <2>1, <2>2, RemoveAtElements
<1> HIDE DEF e
<1>7. /\ e \in Seq(Blocks) /\ Len(e) = L - 1
      /\ \A j \in 1 .. L - 1 : e[j] = IF j < m THEN d[j] ELSE d[j + 1]
  BY <1>4, <1>6
<1>8. /\ \A j \in 1 .. i - 1 : e[j] = c[j]
      /\ e[i] = b
      /\ \A j \in i + 1 .. L - 1 : e[j] = c[j + 1]
  <2>1. \A j \in 1 .. i - 1 : j \in 1 .. L - 1 /\ j \in 1 .. L /\ j < m /\ j # i
    BY <1>1, <1>5
  <2>2. i \in 1 .. L - 1 /\ i < m /\ i \in 1 .. L
    BY <1>1, <1>5
  <2>3. ASSUME NEW j \in i + 1 .. L - 1
        PROVE  e[j] = c[j + 1]
    <3>1. j \in 1 .. L - 1 /\ ~(j < m) /\ j + 1 \in 1 .. L /\ j + 1 # i
      BY <1>1, <1>5
    <3> QED BY <1>4, <1>7, <3>1
  <2> QED BY <1>4, <1>7, <2>1, <2>2, <2>3
<1>9. e # << >>
  BY <1>1, <1>7, EmptySeq
<1>10. /\ e[i].addr = c[i].addr /\ e[i].size = c[i].size + c[i + 1].size
       /\ Ends(e, i) = Ends(c, i + 1)
       /\ Ends(c, i) = c[i + 1].addr
  <2>1. Ends(c, i) = c[i + 1].addr
    BY DEF ChainOK
  <2> QED BY <1>1, <1>2, <1>8, <2>1 DEF Ends
\* Each block of e begins where one of c begins and ends where one of c ends.
<1> DEFINE begins(j) == IF j <= i THEN j ELSE j + 1
           ends(j) == IF j < i THEN j ELSE j + 1
<1>11. ASSUME NEW j \in 1 .. L - 1
       PROVE  /\ begins(j) \in 1 .. L /\ ends(j) \in 1 .. L
              /\ e[j].addr = c[begins(j)].addr /\ Ends(e, j) = Ends(c, ends(j))
              /\ e[j].size >= HEADER
  <2>1. CASE j < i
    <3>1. j \in 1 .. i - 1 /\ j \in 1 .. L /\ begins(j) = j /\ ends(j) = j
      BY <1>1, <2>1
    <3>2. e[j] = c[j]
      BY <1>8, <3>1
    <3> HIDE DEF begins, ends
    <3> QED BY <1>1, <3>1, <3>2 DEF Ends
  <2>2. CASE j = i
    <3>1. begins(j) = i /\ ends(j) = i + 1
      BY <1>1, <2>2
    <3> HIDE DEF begins, ends
    <3> QED BY <1>1, <1>2, <1>10, <2>2, <3>1
  <2>3. CASE j > i
    <3>1. j \in i + 1 .. L - 1 /\ begins(j) = j + 1 /\ ends(j) = j + 1 /\ j + 1 \in 1 .. L
      BY <1>1, <2>3
    <3>2. e[j] = c[j + 1]
      BY <1>8, <3>1
    <3> HIDE DEF begins, ends
    <3> QED BY <1>1, <3>1, <3>2 DEF Ends
  <2> QED BY <1>1, <2>1, <2>2, <2>3
<1>12. /\ begins(1) = 1 /\ ends(L - 1) = L /\ 1 \in 1 .. L - 1 /\ L - 1 \in 1 .. L - 1
       /\ \A j \in 1 .. L - 2 : begins(j + 1) = ends(j) + 1 /\ j \in 1 .. L - 1
                               /\ j + 1 \in 1 .. L - 1 /\ ends(j) \in 1 .. L - 1
       /\ \A j, q \in 1 .. L - 1 : j < q => ends(j) < begins(q)
  BY <1>1
<1> HIDE DEF begins, ends
<1>13. /\ c[1].addr = 0 /\ Ends(c, L) = h
       /\ \A j \in 1 .. L - 1 : Ends(c, j) = c[j + 1].addr
       /\ Ordered(c)
  BY DEF ChainOK
<1>14. e[1].addr = 0 /\ Ends(e, L - 1) = h
  BY <1>11, <1>12, <1>13
<1>15. ASSUME NEW j \in 1 .. L - 2
       PROVE  Ends(e, j) = e[j + 1].addr
  <2>1. Ends(e, j) = Ends(c, ends(j)) /\ e[j + 1].addr = c[begins(j + 1)].addr
    BY <1>11, <1>12
  <2>2. Ends(c, ends(j)) = c[ends(j) + 1].addr
    BY <1>12, <1>13
  <2> QED BY <1>12, <2>1, <2>2
<1>16. Ordered(e)
  <2> SUFFICES ASSUME NEW j \in 1 .. L - 1, NEW q \in 1 .. L - 1, j < q
               PROVE  Ends(e, j) <= e[q].addr
    BY <1>7 DEF Ordered
  <2>1. Ends(c, ends(j)) <= c[begins(q)].addr
    BY <1>11, <1>12, <1>13 DEF Ordered
  <2> QED BY <1>11, <2>1
<1>17. Len(e) - 1 = L - 2 /\ Len(e) = L - 1
  BY <1>1, <1>7
<1>18. ChainOK(e, h)
  BY <1>7, <1>9, <1>11, <1>14, <1>15, <1>16, <1>17 DEF ChainOK
<1> QED BY <1>7, <1>8, <1>18 DEF b, d, m, e

-----------------------------------------------------------------------------
(* The inductive invariant.                                                *)

\* Block i is the one that was handed out as p.
Holds(i, p) == /\ ~chain[i].available /\ p = chain[i].addr + HEADER
               /\ chain[i].size >= live[p] + HEADER

Places == /\ \A p \in DOMAIN live : \E i \in 1 .. Len(chain) : Holds(i, p)
          /\ \A i \in 1 .. Len(chain) :
                ~chain[i].available => chain[i].addr + HEADER \in DOMAIN live

IInv == /\ ChainOK(chain, heap_size)
        /\ request \in Sizes \cup {0}
        /\ \A p \in DOMAIN live : live[p] \in Sizes
        /\ Places

\* Two blocks never begin at the same address.
LEMMA DistinctBlocks ==
    ASSUME NEW c, NEW h, ChainOK(c, h), NEW i \in 1 .. Len(c), NEW j \in 1 .. Len(c),
           c[i].addr = c[j].addr
    PROVE  i = j
<1>1. /\ Len(c) \in Nat /\ HEADER \in Nat \ {0}
      /\ \A m \in 1 .. Len(c) : c[m].addr \in Nat /\ c[m].size \in Nat /\ c[m].size >= HEADER
  BY ChainTypes, HeapAssumption DEF ChainOK
<1>2. ASSUME NEW x \in 1 .. Len(c), NEW y \in 1 .. Len(c), x < y
      PROVE  c[x].addr < c[y].addr
  <2>1. Ends(c, x) <= c[y].addr
    BY <1>2 DEF ChainOK, Ordered
  <2>2. Ends(c, x) > c[x].addr /\ Ends(c, x) \in Nat
    BY SMTT(30), <1>1 DEF Ends
  <2> QED BY <1>1, <2>1, <2>2
<1>3. ~(i < j) /\ ~(j < i)
  BY <1>1, <1>2
<1> QED BY <1>1, <1>3

\* init_alloc leaves one free block over the first page.
LEMMA InitIInv == Init => IInv
<1> SUFFICES ASSUME Init PROVE IInv
  OBVIOUS
<1>1. chain = <<Block(0, PAGE, TRUE)>> /\ heap_size = PAGE /\ request = 0
  BY DEF Init
<1>2. PAGE \in Nat /\ HEADER \in Nat /\ PAGE >= HEADER
  BY HeapAssumption
<1>3. /\ chain \in Seq(Blocks) /\ Len(chain) = 1 /\ chain # << >>
      /\ chain[1].addr = 0 /\ chain[1].size = PAGE /\ chain[1].available
  BY <1>1, <1>2 DEF Block, Blocks
<1>4. ChainOK(chain, heap_size)
  <2>1. Ends(chain, 1) = PAGE /\ 1 .. Len(chain) = {1} /\ 1 .. Len(chain) - 1 = {}
    BY <1>2, <1>3 DEF Ends
  <2>2. Ordered(chain)
    BY <2>1 DEF Ordered
  <2> QED BY <1>1, <1>2, <1>3, <2>1, <2>2 DEF ChainOK
<1>5. DOMAIN live = {}
  BY DEF Init
<1>6. \A i \in 1 .. Len(chain) : chain[i].available
  BY <1>3
<1> QED BY <1>1, <1>4, <1>5, <1>6 DEF IInv, Places

\* What holds in every state of the invariant.
LEMMA Facts ==
    ASSUME IInv
    PROVE  /\ Len(chain) \in Nat \ {0} /\ DOMAIN chain = 1 .. Len(chain)
           /\ heap_size \in Nat /\ HEADER \in Nat \ {0} /\ PAGE \in Nat /\ PAGE > HEADER
           /\ \A i \in 1 .. Len(chain) : /\ chain[i].addr \in Nat /\ chain[i].size \in Nat
                                         /\ chain[i].available \in BOOLEAN
                                         /\ chain[i].size >= HEADER
           /\ request \in Nat /\ \A p \in DOMAIN live : live[p] \in Nat \ {0}
<1>1. ChainOK(chain, heap_size) /\ request \in Sizes \cup {0}
      /\ \A p \in DOMAIN live : live[p] \in Sizes
  BY DEF IInv
<1>2. \A i \in 1 .. Len(chain) : chain[i].size >= HEADER
  BY <1>1 DEF ChainOK
<1>3. /\ Len(chain) \in Nat \ {0} /\ DOMAIN chain = 1 .. Len(chain) /\ heap_size \in Nat
      /\ \A i \in 1 .. Len(chain) : /\ chain[i].addr \in Nat /\ chain[i].size \in Nat
                                    /\ chain[i].available \in BOOLEAN
  BY <1>1, ChainTypes
<1>4. HEADER \in Nat \ {0} /\ PAGE \in Nat /\ PAGE > HEADER /\ Sizes \subseteq Nat \ {0}
  BY HeapAssumption
<1>5. request \in Nat
  BY <1>1, <1>4
<1>6. \A p \in DOMAIN live : live[p] \in Nat \ {0}
  BY <1>1, <1>4
<1> QED BY <1>2, <1>3, <1>4, <1>5, <1>6

\* The two field updates of a header, as whole blocks.
LEMMA BlockExcept ==
    ASSUME NEW b \in Blocks, NEW n \in Nat
    PROVE  /\ [b EXCEPT !.available = FALSE] = Block(b.addr, b.size, FALSE)
           /\ [b EXCEPT !.size = @ + n] = Block(b.addr, b.size + n, b.available)
<1>1. \A v \in BOOLEAN : [b EXCEPT !.available = v] = Block(b.addr, b.size, v)
  <2> TAKE v \in BOOLEAN
  <2> DEFINE r == [b EXCEPT !.available = v]
  <2>1. r \in Blocks /\ r.addr = b.addr /\ r.size = b.size /\ r.available = v
    BY DEF Blocks
  <2>2. r = [addr |-> r.addr, size |-> r.size, available |-> r.available]
    <3> HIDE DEF r
    <3> QED BY <2>1 DEF Blocks
  <2> HIDE DEF r
  <2>3. r = [addr |-> b.addr, size |-> b.size, available |-> v]
    BY <2>1, <2>2
  <2> QED BY <2>3 DEF Block, r
<1>2. [b EXCEPT !.size = @ + n] = Block(b.addr, b.size + n, b.available)
  BY DEF Blocks, Block
<1>3. FALSE \in BOOLEAN
  OBVIOUS
<1> QED BY <1>1, <1>2, <1>3

\* A call only notes the request.
LEMMA CallStep ==
    ASSUME IInv, NEW n \in Sizes, Call(n)
    PROVE  IInv'
BY DEF IInv, Call, Places, Holds

\* new_alloc gives out a free block as it is.
LEMMA TakeWholeStep ==
    ASSUME IInv, request # 0, TakeWhole
    PROVE  IInv' /\ chain'[Len(chain')].size = chain[Len(chain)].size
<1>1. PICK i \in Fits : /\ chain' = [chain EXCEPT ![i].available = FALSE]
                        /\ Return(chain[i].addr) /\ heap_size' = heap_size
  BY DEF TakeWhole
<1>2. /\ i \in 1 .. Len(chain) /\ chain[i].available /\ chain[i].size >= request + HEADER
  BY <1>1, Facts DEF Fits, Need
<1>3. chain[i] \in Blocks
  BY <1>2, ChainTypes DEF IInv
<1>4. [chain[i] EXCEPT !.available = FALSE] = Block(chain[i].addr, chain[i].size, FALSE)
  BY <1>3, BlockExcept
<1>5. chain' = [chain EXCEPT ![i] = Block(chain[i].addr, chain[i].size, FALSE)]
  BY <1>1, <1>4
<1>6. /\ ChainOK(chain', IF i = Len(chain) THEN chain[i].addr + chain[i].size ELSE heap_size)
      /\ Len(chain') = Len(chain)
      /\ \A j \in 1 .. Len(chain) : chain'[j] = IF j = i THEN Block(chain[i].addr, chain[i].size, FALSE)
                                                  ELSE chain[j]
  BY ZenonT(30), <1>2, <1>5, Facts, ChangeBlock DEF IInv
<1>7. i = Len(chain) => chain[i].addr + chain[i].size = heap_size
  BY DEF IInv, ChainOK, Ends
<1>8. ChainOK(chain', heap_size')
  BY <1>1, <1>6, <1>7
<1> DEFINE a == chain[i].addr + HEADER
<1>9. /\ request' = 0 /\ DOMAIN live' = DOMAIN live \cup {a}
      /\ \A p \in DOMAIN live \cup {a} : live'[p] = IF p = a THEN request ELSE live[p]
  BY <1>1 DEF Return
<1>10. /\ chain'[i].addr = chain[i].addr /\ chain'[i].size = chain[i].size /\ ~chain'[i].available
       /\ \A j \in 1 .. Len(chain) : j # i => chain'[j] = chain[j]
  BY <1>2, <1>6 DEF Block
<1>11. \A p \in DOMAIN live' : live'[p] \in Sizes
  BY <1>9 DEF IInv
<1>12. ASSUME NEW p \in DOMAIN live'
       PROVE  \E j \in 1 .. Len(chain') : Holds(j, p)'
  <2>1. CASE p = a
    BY <1>2, <1>6, <1>9, <1>10, <2>1 DEF Holds
  <2>2. CASE p # a
    <3>1. PICK j \in 1 .. Len(chain) : Holds(j, p)
      BY <1>9, <2>2 DEF IInv, Places
    <3>2. j # i
      BY <1>2, <3>1 DEF Holds
    <3> QED BY <1>6, <1>9, <1>10, <2>2, <3>1, <3>2 DEF Holds
  <2> QED BY <2>1, <2>2
<1>13. ASSUME NEW j \in 1 .. Len(chain'), ~chain'[j].available
       PROVE  chain'[j].addr + HEADER \in DOMAIN live'
  BY <1>6, <1>9, <1>10, <1>13 DEF IInv, Places
<1>14. IInv'
  BY <1>8, <1>9, <1>11, <1>12, <1>13 DEF IInv, Places
<1>15. chain'[Len(chain')].size = chain[Len(chain)].size
  BY <1>6, <1>10, Facts
<1> QED BY <1>14, <1>15

\* new_alloc maps one more page behind the heap.
LEMMA GrowStep ==
    ASSUME IInv, Grow
    PROVE  IInv' /\ chain'[Len(chain')].size >= chain[Len(chain)].size
<1> DEFINE i == Len(chain)
           n == chain[i].size + PAGE
<1>1. /\ i \in 1 .. Len(chain) /\ n \in Nat /\ n >= HEADER
      /\ chain[i] \in Blocks /\ chain[i].available \in BOOLEAN
  BY Facts, ChainTypes DEF IInv
<1>2. [chain[i] EXCEPT !.size = @ + PAGE] = Block(chain[i].addr, n, chain[i].available)
  BY <1>1, Facts, BlockExcept
<1>3. chain' = [chain EXCEPT ![i] = Block(chain[i].addr, n, chain[i].available)]
  BY <1>2 DEF Grow
<1>4. /\ ChainOK(chain', chain[i].addr + n) /\ Len(chain') = Len(chain)
      /\ \A j \in 1 .. Len(chain) : chain'[j] = IF j = i THEN Block(chain[i].addr, n, chain[i].available)
                                                  ELSE chain[j]
  <2> DEFINE b == Block(chain[i].addr, n, chain[i].available)
  <2>1. ChainOK(chain, heap_size)
    BY DEF IInv
  <2>2. /\ ChainOK([chain EXCEPT ![i] = b], chain[i].addr + n)
        /\ Len([chain EXCEPT ![i] = b]) = Len(chain)
        /\ \A j \in 1 .. Len(chain) : [chain EXCEPT ![i] = b][j] = IF j = i THEN b ELSE chain[j]
    BY <1>1, <2>1, ChangeBlock
  <2> QED BY <1>3, <2>2
<1>5. chain[i].addr + n = heap_size'
  <2>1. chain[i].addr + chain[i].size = heap_size
    BY DEF IInv, ChainOK, Ends
  <2> QED BY SMTT(30), <2>1, Facts DEF Grow
<1>6. \A j \in 1 .. Len(chain) : /\ chain'[j].addr = chain[j].addr
                                 /\ chain'[j].available = chain[j].available
                                 /\ chain'[j].size >= chain[j].size /\ chain'[j].size \in Nat
  BY SMTT(30), <1>1, <1>4, Facts DEF Block
<1>7. request' = request /\ live' = live
  BY DEF Grow
<1>8. ASSUME NEW p \in DOMAIN live
      PROVE  \E j \in 1 .. Len(chain') : Holds(j, p)'
  <2>1. PICK j \in 1 .. Len(chain) : Holds(j, p)
    BY DEF IInv, Places
  <2>2. /\ chain'[j].addr = chain[j].addr /\ chain'[j].available = chain[j].available
        /\ chain'[j].size >= chain[j].size /\ chain'[j].size \in Nat /\ chain[j].size \in Nat
        /\ live[p] \in Nat /\ HEADER \in Nat
    BY <1>6, Facts
  <2>3. chain'[j].size >= live[p] + HEADER
    BY <2>1, <2>2 DEF Holds
  <2> QED BY <1>4, <1>7, <2>1, <2>2, <2>3 DEF Holds
<1>9. IInv'
  BY <1>4, <1>5, <1>6, <1>7, <1>8 DEF IInv, Places
<1>10. chain'[Len(chain')].size >= chain[Len(chain)].size
  BY <1>1, <1>4, <1>6
<1> QED BY <1>9, <1>10

\* What Split does to the chain, as CutBlock describes it.
LEMMA SplitChain ==
    ASSUME IInv, CutsFitHeap, request # 0, NEW i \in Fits, FirstFit(i),
           chain[i].size >= Need + HEADER,
           NEW rest, NEW end,
           end = IF heap_size < chain[i].addr + Need + Need THEN heap_size + PAGE ELSE heap_size,
           rest = IF heap_size < chain[i].addr + Need + Need
                  THEN end - (chain[i].addr + Need) ELSE chain[i].size - Need
    PROVE  /\ i \in 1 .. Len(chain) /\ Need \in Nat /\ Need >= HEADER
           /\ rest \in Nat /\ rest >= HEADER /\ end \in Nat
           /\ i = Len(chain) => chain[i].addr + Need + rest = end
           /\ i # Len(chain) => Need + rest = chain[i].size /\ end = heap_size
           /\ i = Len(chain) => rest >= IF Need <= PAGE THEN Need ELSE PAGE
<1>1. i \in 1 .. Len(chain) /\ Need \in Nat /\ Need >= HEADER
  BY SMTT(30), Facts DEF Fits, Need
<1>2. i = Len(chain) => chain[i].addr + chain[i].size = heap_size
  BY DEF IInv, ChainOK, Ends
<1>3. /\ chain[i].addr \in Nat /\ chain[i].size \in Nat /\ heap_size \in Nat
      /\ HEADER \in Nat \ {0} /\ PAGE \in Nat /\ PAGE > HEADER
  BY <1>1, Facts
<1> DEFINE out == heap_size < chain[i].addr + Need + Need
<1>4. ASSUME i # Len(chain)
      PROVE  ~out
  <2>1. i \in 1 .. Len(chain) - 1
    <3>1. Len(chain) \in Nat
      BY Facts
    <3> QED BY <1>1, <1>4, <3>1
  <2>2. chain[i].addr + Need + Need <= heap_size
    BY <2>1 DEF CutsFitHeap
  <2> QED BY SMTT(30), <1>1, <1>3, <2>2
<1>5. CASE out
  <2>1. i = Len(chain) /\ end = heap_size + PAGE /\ rest = end - (chain[i].addr + Need)
    BY <1>4, <1>5
  <2>2. chain[i].addr + Need <= heap_size
    BY SMTT(30), <1>1, <1>2, <1>3, <2>1
  <2> QED BY SMTT(30), <1>1, <1>3, <2>1, <2>2
<1>6. CASE ~out
  <2>1. end = heap_size /\ rest = chain[i].size - Need
    BY <1>6
  <2>2. i = Len(chain) => rest >= Need
    BY SMTT(30), <1>1, <1>2, <1>3, <1>6, <2>1
  <2> HIDE DEF out
  <2> QED BY SMTT(30), <1>1, <1>2, <1>3, <2>1, <2>2
<1> QED BY <1>5, <1>6

\* new_alloc cuts a block; the rest has room for its header.
LEMMA SplitStep ==
    ASSUME IInv, CutsFitHeap, request # 0, Split
    PROVE  /\ IInv'
           /\ \A m \in Nat : request + HEADER <= PAGE /\ m <= request + HEADER
                              /\ chain[Len(chain)].size >= m
                    => chain'[Len(chain')].size >= m
<1>1. PICK i \in Fits :
        LET b    == chain[i]
            new  == b.addr + Need
            out  == heap_size < new + Need
            end  == IF out THEN heap_size + PAGE ELSE heap_size
            rest == IF out THEN end - new ELSE b.size - Need
        IN  /\ FirstFit(i)
            /\ b.size >= Need + HEADER
            /\ heap_size' = end
            /\ chain' = InsertAt([chain EXCEPT ![i] = Block(b.addr, Need, FALSE)], i + 1,
                                 Block(new, rest, TRUE))
            /\ Return(b.addr)
  BY DEF Split
<1> DEFINE out == heap_size < chain[i].addr + Need + Need
           rest == IF out THEN heap_size' - (chain[i].addr + Need) ELSE chain[i].size - Need
<1>2. /\ FirstFit(i) /\ chain[i].size >= Need + HEADER
      /\ heap_size' = (IF out THEN heap_size + PAGE ELSE heap_size)
      /\ chain' = InsertAt([chain EXCEPT ![i] = Block(chain[i].addr, Need, FALSE)], i + 1,
                           Block(chain[i].addr + Need, rest, TRUE))
      /\ Return(chain[i].addr)
  BY <1>1
<1>3. /\ i \in 1 .. Len(chain) /\ Need \in Nat /\ Need >= HEADER
      /\ rest \in Nat /\ rest >= HEADER /\ heap_size' \in Nat
      /\ i = Len(chain) => chain[i].addr + Need + rest = heap_size'
      /\ i # Len(chain) => Need + rest = chain[i].size /\ heap_size' = heap_size
      /\ i = Len(chain) => rest >= IF Need <= PAGE THEN Need ELSE PAGE
  BY <1>2, SplitChain
<1> HIDE DEF rest, out
<1>4. ChainOK(chain, heap_size)
  BY DEF IInv
<1>5. /\ ChainOK(chain', heap_size')
      /\ Len(chain') = Len(chain) + 1
      /\ \A j \in 1 .. i - 1 : chain'[j] = chain[j]
      /\ chain'[i] = Block(chain[i].addr, Need, FALSE)
      /\ chain'[i + 1] = Block(chain[i].addr + Need, rest, TRUE)
      /\ \A j \in i + 2 .. Len(chain) + 1 : chain'[j] = chain[j - 1]
  <2>1. chain' = Cut(chain, i, Need, rest)
    BY <1>2 DEF Cut
  <2>2. ChainOK(Cut(chain, i, Need, rest), heap_size')
        /\ IsCut(Cut(chain, i, Need, rest), chain, i, Need, rest)
    <3>1. /\ i \in 1 .. Len(chain) /\ Need \in Nat /\ rest \in Nat
          /\ Need >= HEADER /\ rest >= HEADER /\ heap_size' \in Nat
      BY <1>3
    <3>2. i = Len(chain) => chain[i].addr + Need + rest = heap_size'
      BY <1>3
    <3>3. i # Len(chain) => Need + rest = chain[i].size /\ heap_size' = heap_size
      BY <1>3
    <3> QED BY <1>4, <3>1, <3>2, <3>3, CutBlock
  <2> QED BY <2>1, <2>2 DEF IsCut
<1> DEFINE a == chain[i].addr + HEADER
<1>6. /\ request' = 0 /\ DOMAIN live' = DOMAIN live \cup {a}
      /\ \A p \in DOMAIN live \cup {a} : live'[p] = IF p = a THEN request ELSE live[p]
  BY <1>2 DEF Return
<1>7. /\ chain'[i].addr = chain[i].addr /\ chain'[i].size = Need /\ ~chain'[i].available
      /\ chain'[i + 1].size = rest /\ chain'[i + 1].available
  BY <1>5 DEF Block
<1>8. chain[i].available
  BY <1>2 DEF Fits
<1>9. Len(chain) \in Nat /\ Len(chain') \in Nat
  BY <1>5, Facts
<1>10. \A p \in DOMAIN live' : live'[p] \in Sizes
  BY <1>6, Facts DEF IInv
<1>11. ASSUME NEW p \in DOMAIN live'
       PROVE  \E j \in 1 .. Len(chain') : Holds(j, p)'
  <2>1. CASE p = a
    <3>1. Holds(i, p)'
      BY <1>3, <1>6, <1>7, <2>1, Facts DEF Holds, Need
    <3> QED BY <1>3, <1>5, <1>9, <3>1
  <2>2. CASE p # a
    <3>1. PICK j \in 1 .. Len(chain) : Holds(j, p)
      BY <1>6, <2>2 DEF IInv, Places
    <3>2. live'[p] = live[p] /\ j # i
      BY <1>6, <1>8, <2>2, <3>1 DEF Holds
    <3>3. CASE j < i
      <4>1. j \in 1 .. i - 1 /\ j \in 1 .. Len(chain')
        BY <1>3, <1>5, <1>9, <3>3
      <4> QED BY <1>5, <3>1, <3>2, <4>1 DEF Holds
    <3>4. CASE j > i
      <4> DEFINE q == j + 1
      <4>1. q \in i + 2 .. Len(chain) + 1 /\ q \in 1 .. Len(chain') /\ q - 1 = j
        BY <1>3, <1>5, <1>9, <3>4
      <4> HIDE DEF q
      <4>2. chain'[q] = chain[j]
        BY <1>5, <4>1
      <4> QED BY <3>1, <3>2, <4>1, <4>2 DEF Holds
    <3> QED BY <1>3, <1>9, <3>2, <3>3, <3>4
  <2> QED BY <2>1, <2>2
<1>12. ASSUME NEW j \in 1 .. Len(chain'), ~chain'[j].available
       PROVE  chain'[j].addr + HEADER \in DOMAIN live'
  <2>1. CASE j < i
    <3>1. j \in 1 .. i - 1 /\ j \in 1 .. Len(chain)
      BY <1>3, <1>9, <2>1
    <3>2. chain'[j] = chain[j]
      BY <1>5, <3>1
    <3> QED BY <1>6, <1>12, <3>1, <3>2 DEF IInv, Places
  <2>2. CASE j = i
    BY <1>6, <1>7, <2>2
  <2>3. CASE j = i + 1
    BY <1>7, <1>12, <2>3
  <2>4. CASE j > i + 1
    <3>1. j \in i + 2 .. Len(chain) + 1 /\ j - 1 \in 1 .. Len(chain)
      BY <1>3, <1>5, <1>9, <2>4
    <3>2. chain'[j] = chain[j - 1]
      BY <1>5, <3>1
    <3> QED BY <1>6, <1>12, <3>1, <3>2 DEF IInv, Places
  <2> QED BY <1>3, <1>9, <2>1, <2>2, <2>3, <2>4
<1>13. IInv'
  BY <1>5, <1>6, <1>10, <1>11, <1>12 DEF IInv, Places
<1>14. ASSUME NEW m \in Nat, request + HEADER <= PAGE, m <= request + HEADER,
              chain[Len(chain)].size >= m
       PROVE  chain'[Len(chain')].size >= m
  <2>1. CASE i = Len(chain)
    <3>1. Len(chain') = i + 1
      BY <1>5, <2>1
    <3>2. chain'[Len(chain')].size = rest /\ Need = request + HEADER
      BY <1>7, <3>1 DEF Need
    <3>3. rest >= Need
      BY <1>3, <1>14, <2>1, <3>2
    <3>4. m <= Need /\ Need \in Nat /\ rest \in Nat
      BY <1>3, <1>14, <3>2
    <3> QED BY <3>2, <3>3, <3>4
  <2>2. CASE i # Len(chain)
    <3> DEFINE q == Len(chain')
    <3>1. q \in i + 2 .. Len(chain) + 1 /\ q - 1 = Len(chain)
      BY <1>3, <1>5, <1>9, <2>2
    <3> HIDE DEF q
    <3>2. chain'[q] = chain[Len(chain)]
      BY <1>5, <3>1
    <3> QED BY <1>14, <3>2 DEF q
  <2> QED BY <2>1, <2>2
<1> QED BY <1>13, <1>14

\* free_alloc, with the blocks it joins.
LEMMA FreeStep ==
    ASSUME IInv, NEW p \in DOMAIN live, free_alloc(p)
    PROVE  /\ IInv'
           /\ \A m \in Nat : chain[Len(chain)].size >= m => chain'[Len(chain')].size >= m
<1>1. PICK i \in 1 .. Len(chain) :
        LET joins == i < Len(chain) /\ chain[i + 1].available
            size  == chain[i].size + (IF joins THEN chain[i + 1].size ELSE 0)
            freed == [chain EXCEPT ![i] = Block(@.addr, size, TRUE)]
        IN  /\ chain[i].addr = p - HEADER
            /\ chain' = IF joins THEN RemoveAt(freed, i + 1) ELSE freed
            /\ live' = [q \in DOMAIN live \ {p} |-> live[q]]
            /\ UNCHANGED <<heap_size, request>>
  BY Facts DEF free_alloc
<1>2. /\ chain[i].addr = p - HEADER /\ heap_size' = heap_size /\ request' = request
      /\ DOMAIN live' = DOMAIN live \ {p}
      /\ \A q \in DOMAIN live \ {p} : live'[q] = live[q]
  BY <1>1
<1>3. ChainOK(chain, heap_size)
  BY DEF IInv
<1>4. PICK k \in 1 .. Len(chain) : Holds(k, p)
  BY DEF IInv, Places
<1>5. p = chain[i].addr + HEADER /\ k = i
  <2>1. chain[k].addr = p - HEADER /\ p = chain[k].addr + HEADER
    BY <1>4, Facts DEF Holds
  <2>2. chain[i].addr = chain[k].addr
    BY <1>2, <2>1
  <2>3. k = i
    BY <1>3, <2>2, DistinctBlocks
  <2> QED BY <2>1, <2>3
<1>6. ~chain[i].available
  BY <1>4, <1>5 DEF Holds
<1>7. \A q \in DOMAIN live' : live'[q] \in Sizes
  BY <1>2 DEF IInv
<1>8. \A q \in DOMAIN live' : \E j \in 1 .. Len(chain) : j # i /\ Holds(j, q) /\ live'[q] = live[q]
  BY <1>2, <1>5 DEF IInv, Places, Holds
<1>9. ASSUME NEW j \in 1 .. Len(chain), j # i, ~chain[j].available
      PROVE  chain[j].addr + HEADER \in DOMAIN live'
  <2>1. chain[j].addr # chain[i].addr
    BY <1>3, <1>9, DistinctBlocks
  <2>2. chain[j].addr + HEADER # p
    BY SMTT(30), <1>5, <2>1, Facts
  <2> QED BY <1>2, <1>9, <2>2 DEF IInv, Places
<1>10. CASE ~(i < Len(chain) /\ chain[i + 1].available)
  <2> DEFINE b == Block(chain[i].addr, chain[i].size, TRUE)
  <2>1. chain' = [chain EXCEPT ![i] = b]
    <3>1. chain[i].size + 0 = chain[i].size
      BY Facts
    <3>2. chain' = [chain EXCEPT ![i] = Block(chain[i].addr, chain[i].size + 0, TRUE)]
      BY <1>1, <1>10
    <3> QED BY <3>1, <3>2
  <2>2. chain[i].size \in Nat /\ chain[i].size >= HEADER /\ TRUE \in BOOLEAN
    BY Facts
  <2>3. i = Len(chain) => chain[i].addr + chain[i].size = heap_size
    BY <1>3 DEF ChainOK, Ends
  <2>4. /\ ChainOK(chain', IF i = Len(chain) THEN chain[i].addr + chain[i].size ELSE heap_size)
        /\ Len(chain') = Len(chain)
        /\ \A j \in 1 .. Len(chain) : chain'[j] = IF j = i THEN b ELSE chain[j]
    <3> DEFINE d == [chain EXCEPT ![i] = b]
    <3>1. /\ ChainOK(d, IF i = Len(chain) THEN chain[i].addr + chain[i].size ELSE heap_size)
          /\ Len(d) = Len(chain)
          /\ \A j \in 1 .. Len(chain) : d[j] = IF j = i THEN b ELSE chain[j]
      <4>1. \A v \in BOOLEAN :
              LET x == [chain EXCEPT ![i] = Block(chain[i].addr, chain[i].size, v)]
              IN  /\ ChainOK(x, IF i = Len(chain) THEN chain[i].addr + chain[i].size ELSE heap_size)
                  /\ Len(x) = Len(chain)
                  /\ \A j \in 1 .. Len(chain) :
                        x[j] = IF j = i THEN Block(chain[i].addr, chain[i].size, v) ELSE chain[j]
        BY <1>3, <2>2, ChangeBlock
      <4> QED BY <4>1
    <3> HIDE DEF d
    <3> QED BY <2>1, <3>1 DEF d
  <2>5. ChainOK(chain', heap_size')
    BY <1>2, <2>3, <2>4
  <2>6. /\ chain'[i].available /\ chain'[i].size = chain[i].size
        /\ \A j \in 1 .. Len(chain) : j # i => chain'[j] = chain[j]
    BY <2>4 DEF Block
  <2>7. \A q \in DOMAIN live' : \E j \in 1 .. Len(chain') : Holds(j, q)'
    BY <1>8, <2>4, <2>6 DEF Holds
  <2>8. \A j \in 1 .. Len(chain') : ~chain'[j].available => chain'[j].addr + HEADER \in DOMAIN live'
    BY <1>9, <2>4, <2>6
  <2>9. chain'[Len(chain')].size = chain[Len(chain)].size
    BY SMTT(30), <2>4, <2>6, Facts
  <2> QED BY <1>2, <1>7, <2>5, <2>7, <2>8, <2>9 DEF IInv, Places
<1>11. CASE i < Len(chain) /\ chain[i + 1].available
  <2> DEFINE b == Block(chain[i].addr, chain[i].size + chain[i + 1].size, TRUE)
  <2>1. chain' = RemoveAt([chain EXCEPT ![i] = b], i + 1)
    BY <1>1, <1>11
  <2>2. i \in 1 .. Len(chain) - 1 /\ Len(chain) \in Nat
    BY <1>11, Facts
  <2>3. /\ ChainOK(chain', heap_size)
        /\ Len(chain') = Len(chain) - 1
        /\ \A j \in 1 .. i - 1 : chain'[j] = chain[j]
        /\ chain'[i] = b
        /\ \A j \in i + 1 .. Len(chain) - 1 : chain'[j] = chain[j + 1]
    BY <1>3, <2>1, <2>2, JoinBlocks
  <2>4. chain'[i].available /\ chain'[i].size = chain[i].size + chain[i + 1].size
    BY <2>3 DEF Block
  <2>5. ASSUME NEW q \in DOMAIN live'
        PROVE  \E j \in 1 .. Len(chain') : Holds(j, q)'
    <3>1. PICK j \in 1 .. Len(chain) : j # i /\ Holds(j, q) /\ live'[q] = live[q]
      BY <1>8
    <3>2. j # i + 1
      BY <1>11, <3>1 DEF Holds
    <3>3. CASE j < i
      <4>1. j \in 1 .. i - 1 /\ j \in 1 .. Len(chain')
        BY <2>2, <2>3, <3>3
      <4> QED BY <2>3, <3>1, <4>1 DEF Holds
    <3>4. CASE j > i + 1
      <4> DEFINE x == j - 1
      <4>1. x \in i + 1 .. Len(chain) - 1 /\ x \in 1 .. Len(chain') /\ x + 1 = j
        BY <2>2, <2>3, <3>4
      <4> HIDE DEF x
      <4>2. chain'[x] = chain[j]
        BY <2>3, <4>1
      <4> QED BY <3>1, <4>1, <4>2 DEF Holds
    <3> QED BY <2>2, <3>1, <3>2, <3>3, <3>4
  <2>6. ASSUME NEW j \in 1 .. Len(chain'), ~chain'[j].available
        PROVE  chain'[j].addr + HEADER \in DOMAIN live'
    <3>1. CASE j < i
      <4>1. j \in 1 .. i - 1 /\ j \in 1 .. Len(chain) /\ j # i
        BY <2>2, <3>1
      <4>2. chain'[j] = chain[j]
        BY <2>3, <4>1
      <4> QED BY <1>9, <2>6, <4>1, <4>2
    <3>2. CASE j = i
      BY <2>4, <2>6, <3>2
    <3>3. CASE j > i
      <4>1. j \in i + 1 .. Len(chain) - 1 /\ j + 1 \in 1 .. Len(chain) /\ j + 1 # i
        BY <2>2, <2>3, <3>3
      <4>2. chain'[j] = chain[j + 1]
        BY <2>3, <4>1
      <4> QED BY <1>9, <2>6, <4>1, <4>2
    <3> QED BY <2>2, <2>3, <3>1, <3>2, <3>3
  <2>7. chain'[Len(chain')].size >= chain[Len(chain)].size
    <3>1. CASE i = Len(chain) - 1
      <4>1. Len(chain') = i /\ i + 1 = Len(chain)
        BY <2>2, <2>3, <3>1
      <4>2. chain[i].size \in Nat /\ chain[i + 1].size \in Nat
        BY <2>2, <4>1, Facts
      <4> QED BY <2>4, <4>1, <4>2
    <3>2. CASE i # Len(chain) - 1
      <4> DEFINE x == Len(chain')
      <4>1. x \in i + 1 .. Len(chain) - 1 /\ x + 1 = Len(chain)
        BY <2>2, <2>3, <3>2
      <4> HIDE DEF x
      <4>2. chain'[x] = chain[Len(chain)]
        BY <2>3, <4>1
      <4> QED BY <4>2, Facts DEF x
    <3> QED BY <3>1, <3>2
  <2>8. IInv'
    BY <1>2, <1>7, <2>3, <2>5, <2>6 DEF IInv, Places
  <2>9. chain'[Len(chain')].size \in Nat /\ chain[Len(chain)].size \in Nat
    <3>1. Len(chain') \in 1 .. Len(chain')
      BY <2>2, <2>3
    <3> QED BY SMTT(30), <2>3, <3>1, ChainTypes, Facts
  <2> QED BY <2>7, <2>8, <2>9
<1> QED BY <1>10, <1>11

\* One step keeps the invariant as long as only the last block is cut near the end
\* of the heap; with requests that fit a page the last block never gets shorter
\* than the one it is cut for.
LEMMA NextStep ==
    ASSUME IInv, CutsFitHeap, [Next]_vars
    PROVE  IInv'
<1>1. CASE \E n \in Sizes : Call(n)
  BY <1>1, CallStep
<1>2. CASE request # 0 /\ TakeWhole
  BY <1>2, TakeWholeStep
<1>3. CASE request # 0 /\ Split
  BY <1>3, SplitStep
<1>4. CASE Grow
  BY <1>4, GrowStep
<1>5. CASE \E p \in DOMAIN live : free_alloc(p)
  BY <1>5, FreeStep
<1>6. CASE UNCHANGED vars
  BY <1>6 DEF IInv, Places, Holds, vars
<1> QED BY <1>1, <1>2, <1>3, <1>4, <1>5, <1>6 DEF Next, new_alloc

-----------------------------------------------------------------------------
(* What the invariant says of the clients.                                 *)

\* The invariant gives the properties of the chain that the run checks.
LEMMA Shape == IInv => TypeOK /\ Tiling /\ LiveIsInUse
<1> SUFFICES ASSUME IInv PROVE TypeOK /\ Tiling /\ LiveIsInUse
  OBVIOUS
<1>1. ChainOK(chain, heap_size)
  BY DEF IInv
<1>2. TypeOK
  BY <1>1, Facts DEF TypeOK, IInv, ChainOK, Blocks
<1>3. Tiling
  BY <1>1 DEF Tiling, ChainOK, Ends
<1>4. ASSUME NEW p \in DOMAIN live
      PROVE  \E i \in DOMAIN chain : /\ chain[i].addr = p - HEADER
                                     /\ ~chain[i].available
                                     /\ chain[i].size >= live[p] + HEADER
  <2>1. PICK i \in 1 .. Len(chain) : Holds(i, p)
    BY DEF IInv, Places
  <2>2. chain[i].addr = p - HEADER /\ i \in DOMAIN chain
    BY <2>1, Facts DEF Holds
  <2> QED BY <2>1, <2>2 DEF Holds
<1>5. LiveIsInUse
  BY <1>4, Facts DEF LiveIsInUse, IInv, Places
<1> QED BY <1>2, <1>3, <1>5

\* Two ranges of addresses, one behind the other, have no address in common.
LEMMA Apart ==
    ASSUME NEW a \in Nat, NEW m \in Nat, NEW b \in Nat, NEW n \in Nat,
           a + m <= b \/ b + n <= a
    PROVE  (a .. a + m - 1) \cap (b .. b + n - 1) = {}
OBVIOUS

\* The invariant gives that no two clients share a byte.
LEMMA Disjoint == IInv => NoSharedBytes
<1> SUFFICES ASSUME IInv PROVE NoSharedBytes
  OBVIOUS
<1>1. ChainOK(chain, heap_size)
  BY DEF IInv
<1>2. \A i, j \in 1 .. Len(chain) : i < j => Ends(chain, i) <= chain[j].addr
  BY <1>1 DEF ChainOK, Ordered
<1>3. ASSUME NEW p \in DOMAIN live, NEW i \in 1 .. Len(chain), Holds(i, p)
      PROVE  /\ p = chain[i].addr + HEADER /\ p + live[p] <= Ends(chain, i)
             /\ p \in Nat /\ live[p] \in Nat /\ Ends(chain, i) \in Nat
  BY SMTT(30), <1>3, Facts DEF Holds, Ends
<1>4. ASSUME NEW p \in DOMAIN live, NEW q \in DOMAIN live, p # q
      PROVE  Payload(p) \cap Payload(q) = {}
  <2>1. PICK i \in 1 .. Len(chain) : Holds(i, p)
    BY DEF IInv, Places
  <2>2. PICK j \in 1 .. Len(chain) : Holds(j, q)
    BY DEF IInv, Places
  <2>3. /\ p = chain[i].addr + HEADER /\ p + live[p] <= Ends(chain, i)
        /\ q = chain[j].addr + HEADER /\ q + live[q] <= Ends(chain, j)
        /\ p \in Nat /\ live[p] \in Nat /\ Ends(chain, i) \in Nat
        /\ q \in Nat /\ live[q] \in Nat /\ Ends(chain, j) \in Nat
    BY <1>3, <2>1, <2>2
  <2>4. i < j \/ j < i
    BY <1>4, <2>3, Facts
  <2>5. chain[i].addr \in Nat /\ chain[j].addr \in Nat /\ HEADER \in Nat
    BY Facts
  <2>6. i < j => Ends(chain, i) <= chain[j].addr
    BY <1>2
  <2>7. j < i => Ends(chain, j) <= chain[i].addr
    BY <1>2
  <2>8. /\ p \in Nat /\ live[p] \in Nat /\ Ends(chain, i) \in Nat /\ p + live[p] <= Ends(chain, i)
        /\ q \in Nat /\ live[q] \in Nat /\ Ends(chain, j) \in Nat /\ q + live[q] <= Ends(chain, j)
    BY <2>3
  <2>9. chain[i].addr <= p /\ chain[j].addr <= q
    <3>1. p = chain[i].addr + HEADER /\ q = chain[j].addr + HEADER
      BY <2>3
    <3> QED BY <2>5, <3>1
  <2>10. CASE i < j
    <3>1. Ends(chain, i) <= chain[j].addr
      BY <2>6, <2>10
    <3>2. p + live[p] <= q
      BY <2>5, <2>8, <2>9, <3>1
    <3> QED BY <2>8, <3>2, Apart DEF Payload
  <2>11. CASE j < i
    <3>1. Ends(chain, j) <= chain[i].addr
      BY <2>7, <2>11
    <3>2. q + live[q] <= p
      BY <2>5, <2>8, <2>9, <3>1
    <3> QED BY <2>8, <3>2, Apart DEF Payload
  <2> QED BY <2>4, <2>10, <2>11
<1>5. ASSUME NEW p \in DOMAIN live, NEW k \in DOMAIN chain
      PROVE  Payload(p) \cap (chain[k].addr .. chain[k].addr + HEADER - 1) = {}
  <2>1. PICK i \in 1 .. Len(chain) : Holds(i, p)
    BY DEF IInv, Places
  <2>2. /\ p = chain[i].addr + HEADER /\ p + live[p] <= Ends(chain, i)
        /\ p \in Nat /\ live[p] \in Nat /\ Ends(chain, i) \in Nat
    BY <1>3, <2>1
  <2>3. /\ k \in 1 .. Len(chain) /\ chain[k].addr \in Nat /\ chain[i].addr \in Nat
        /\ HEADER \in Nat /\ chain[k].size \in Nat /\ chain[k].size >= HEADER
    BY Facts
  <2>4. chain[k].addr + HEADER <= p \/ p + live[p] <= chain[k].addr
    <3>1. CASE k = i
      BY <2>2, <2>3, <3>1
    <3>2. CASE k < i
      <4>1. Ends(chain, k) <= chain[i].addr
        BY <1>2, <2>3, <3>2
      <4> QED BY SMTT(60), <2>2, <2>3, <4>1 DEF Ends
    <3>3. CASE i < k
      <4>1. Ends(chain, i) <= chain[k].addr
        BY <1>2, <2>3, <3>3
      <4> QED BY SMTT(30), <2>2, <2>3, <4>1
    <3> QED BY <2>3, <3>1, <3>2, <3>3
  <2> QED BY ZenonT(60), <2>2, <2>3, <2>4, Apart DEF Payload
<1> QED BY <1>4, <1>5 DEF NoSharedBytes

\* As long as no block but the last is cut near the end of the heap (alloc.c:58),
\* the headers tile the heap and agree with the clients about what is handed out.
THEOREM HeapShape == Spec /\ []CutsFitHeap => [](TypeOK /\ Tiling /\ LiveIsInUse)
<1>1. Spec /\ []CutsFitHeap => []IInv
  BY InitIInv, NextStep, PTL DEF Spec
<1> QED BY <1>1, Shape, PTL

\* Under the same condition no two clients share a byte, and none holds a byte of
\* a header, in any order of requests, cuts, joins and growths (alloc.c:29-143).
THEOREM HeapDisjoint == Spec /\ []CutsFitHeap => []NoSharedBytes
<1>1. Spec /\ []CutsFitHeap => []IInv
  BY InitIInv, NextStep, PTL DEF Spec
<1> QED BY <1>1, Disjoint, PTL

-----------------------------------------------------------------------------
(* The heap implements the allocator.                                      *)

\* A return of new_alloc grants a region that is new and apart from the others.
LEMMA ReturnGrants ==
    ASSUME IInv, IInv', request # 0, NEW i \in 1 .. Len(chain), chain[i].available,
           Return(chain[i].addr)
    PROVE  A!Next
<1>0. PICK a : a = chain[i].addr + HEADER
  OBVIOUS
<1>1. /\ DOMAIN live' = DOMAIN live \cup {a}
      /\ live' = [p \in DOMAIN live \cup {a} |-> IF p = a THEN request ELSE live[p]]
  BY <1>0 DEF Return
<1>2. a \notin DOMAIN live
  <2> SUFFICES ASSUME a \in DOMAIN live PROVE FALSE
    OBVIOUS
  <2>1. PICK j \in 1 .. Len(chain) : Holds(j, a)
    BY DEF IInv, Places
  <2>2. chain[j].addr = chain[i].addr
    BY SMTT(30), <1>0, <2>1, Facts DEF Holds
  <2>3. i = j
    BY <2>2, DistinctBlocks DEF IInv
  <2> QED BY <2>1, <2>3 DEF Holds
<1>3. request \in Sizes /\ a \in DOMAIN live' \ DOMAIN live
  BY <1>1, <1>2 DEF IInv
<1>4. live'[a] = request /\ \A b \in DOMAIN live : live'[b] = live[b]
  BY <1>1, <1>2
<1>5. NoSharedBytes'
  <2>1. (IInv => NoSharedBytes)'
    BY Disjoint, PTL
  <2> QED BY <2>1
<1>6. \A b \in DOMAIN live : A!Region(b) \cap (a .. a + request - 1) = {}
  <2> TAKE b \in DOMAIN live
  <2>1. Payload(b)' \cap Payload(a)' = {}
    <3>1. \A p, q \in DOMAIN live' : p # q => Payload(p)' \cap Payload(q)' = {}
      BY <1>5 DEF NoSharedBytes
    <3>2. b \in DOMAIN live' /\ a \in DOMAIN live' /\ a # b
      BY <1>1, <1>2
    <3> QED BY <3>1, <3>2
  <2>2. Payload(b)' = b .. b + live[b] - 1 /\ Payload(a)' = a .. a + request - 1
    BY <1>4 DEF Payload
  <2> QED BY <2>1, <2>2 DEF A!Region
<1>7. A!Grant(a, request)
  BY <1>1, <1>2, <1>6 DEF A!Grant
<1> QED BY <1>3, <1>7 DEF A!Next

\* Each step grants, releases or leaves alone what clients hold.
LEMMA StepImplements ==
    ASSUME IInv, IInv', [Next]_vars
    PROVE  [A!Next]_live
<1>1. CASE \E n \in Sizes : Call(n)
  BY <1>1 DEF Call
<1>2. CASE request # 0 /\ (TakeWhole \/ Split)
  <2>1. PICK i \in Fits : Return(chain[i].addr)
    BY <1>2 DEF TakeWhole, Split
  <2>2. i \in 1 .. Len(chain) /\ chain[i].available
    BY Facts DEF Fits
  <2> QED BY <1>2, <2>1, <2>2, ReturnGrants
<1>3. CASE Grow
  BY <1>3 DEF Grow
<1>4. CASE \E p \in DOMAIN live : free_alloc(p)
  <2>1. PICK p \in DOMAIN live : live' = [q \in DOMAIN live \ {p} |-> live[q]]
    BY <1>4 DEF free_alloc
  <2> QED BY <2>1 DEF A!Next, A!Release
<1>5. CASE UNCHANGED vars
  BY <1>5 DEF vars
<1> QED BY <1>1, <1>2, <1>3, <1>4, <1>5 DEF Next, new_alloc

\* Under that condition every run of new_alloc and free_alloc is a run of the
\* allocator: each return grants a region of its own, each free releases one.
THEOREM HeapImplements == Spec /\ []CutsFitHeap => ImplementsAllocator
<1>1. Spec /\ []CutsFitHeap => []IInv
  BY InitIInv, NextStep, PTL DEF Spec
<1>2. Init => A!Init
  BY DEF Init, A!Init
<1> QED BY <1>1, <1>2, StepImplements, PTL DEF Spec, ImplementsAllocator, A!Spec
=============================================================================
