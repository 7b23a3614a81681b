---------------------------- MODULE SearchProofs ----------------------------
(***************************************************************************)
(* Proofs about the heaps of DistHeap and the two searches built on them.  *)
(*                                                                         *)
(* The heaps, of every size and in either order: the loops of upMin,       *)
(* upMax, downMin and downMax end within as many rounds as there are       *)
(* items, restore the heap order and lose no item.                         *)
(*                                                                         *)
(* AnnIndex, for every sequence of calls, degree, candidate list size and  *)
(* width of the visit epoch: degrees stay bounded and no node is left      *)
(* without a neighbour, the candidates are the nearest of the nodes seen,  *)
(* no deleted vector is returned, and an answer is exact when the list of  *)
(* candidates is as long as what the search can reach.                     *)
(*                                                                         *)
(* BatchSearch, for every batch, number of processors, block width and set *)
(* of vectors: the counters balance, a batch in ANN mode has each answer   *)
(* in its place, and a batch in exact mode has the k nearest vectors for   *)
(* each query.                                                             *)
(***************************************************************************)
EXTENDS AnnIndex, BatchSearch, SequenceTheorems, FiniteSetTheorems, WellFoundedInduction, TLAPS


----------------------------------------------------------------------------
(* Induction over the rounds of a loop.                                    *)

\* What holds before the first round and is kept by every round always holds.
LEMMA Rounds ==
  ASSUME NEW m \in Nat, NEW G, 0 \in G, \A i \in 1 .. m : i - 1 \in G => i \in G
  PROVE  \A i \in 0 .. m : i \in G
<1> DEFINE Bad == {i \in 0 .. m : i \notin G}
<1> SUFFICES ASSUME Bad # {} PROVE FALSE
  OBVIOUS
<1>1. Bad \subseteq Nat
  OBVIOUS
<1>2. PICK b \in Bad : \A i \in Bad : ~ (<<i, b>> \in OpToRel(<, Nat))
  <2> HIDE DEF Bad
  <2> QED BY <1>1, NatLessThanWellFounded, WFMin
<1>3. b \in 1 .. m /\ b - 1 \in 0 .. m /\ b - 1 \in Nat
  OBVIOUS
<1>4. <<b - 1, b>> \in OpToRel(<, Nat)
  BY <1>3 DEF OpToRel
<1>5. b - 1 \notin Bad
  BY <1>2, <1>4
<1> QED BY <1>3, <1>5

\* A loop of m rounds, each a function of the round and of the state before it,
\* has a run.
IsRun(m, D, x, F, g) == g \in [0 .. m -> D] /\ g[0] = x /\ \A i \in 1 .. m : g[i] = F[i][g[i - 1]]

LEMMA Iteration ==
  ASSUME NEW m \in Nat, NEW D, NEW x \in D, NEW F \in [1 .. m -> [D -> D]]
  PROVE  \E g : IsRun(m, D, x, F, g)
<1> DEFINE Run(j, g) == g \in [0 .. j -> D] /\ g[0] = x /\ \A i \in 1 .. j : g[i] = F[i][g[i - 1]]
           G == {j \in 0 .. m : \E g : Run(j, g)}
<1>1. 0 \in G
  <2> DEFINE z == [i \in 0 .. 0 |-> x]
  <2>1. z \in [0 .. 0 -> D] /\ z[0] = x /\ 1 .. 0 = {}
    OBVIOUS
  <2> HIDE DEF z
  <2>2. Run(0, z)
    BY <2>1
  <2> QED BY <2>2
<1>2. ASSUME NEW j \in 1 .. m, j - 1 \in G PROVE j \in G
  <2>1. PICK g : Run(j - 1, g)
    BY <1>2
  <2> DEFINE h == [i \in 0 .. j |-> IF i = j THEN F[j][g[j - 1]] ELSE g[i]]
  <2>2. g[j - 1] \in D
    BY <2>1
  <2>3. F[j][g[j - 1]] \in D
    BY <2>2
  <2>4. h \in [0 .. j -> D]
    BY <2>1, <2>3
  <2>5. h[0] = x
    BY <2>1
  <2>6. ASSUME NEW i \in 1 .. j PROVE h[i] = F[i][h[i - 1]]
    <3>1. h[i - 1] = g[i - 1]
      OBVIOUS
    <3>2. CASE i = j
      BY <3>1, <3>2
    <3>3. CASE i # j
      BY <3>1, <3>3, <2>1
    <3> QED BY <3>2, <3>3
  <2> HIDE DEF h
  <2>7. Run(j, h)
    BY <2>4, <2>5, <2>6
  <2> QED BY <2>7
<1>3. m \in G
  <2> HIDE DEF G
  <2>1. \A i \in 1 .. m : i - 1 \in G => i \in G
    BY <1>2
  <2>2. \A i \in 0 .. m : i \in G
    BY <1>1, <2>1, Rounds
  <2> QED BY <2>2
<1> QED BY <1>3 DEF IsRun

----------------------------------------------------------------------------
(* The order of a heap.                                                    *)

\* Items that can be compared.
Comparable(R) == \A x \in R : x.distance \in Int

LEMMA AboveIs ==
  ASSUME NEW R, Comparable(R), NEW x \in R, NEW y \in R
  PROVE  /\ Above(1, x, y) <=> x.distance < y.distance
         /\ Above(-1, x, y) <=> y.distance < x.distance
BY DEF Above, Comparable

LEMMA AboveOrder ==
  ASSUME NEW R, Comparable(R), NEW sign \in {1, -1}
  PROVE  /\ \A x, y \in R : Above(sign, x, y) => ~Above(sign, y, x)
         /\ \A x, y, z \in R : ~Above(sign, x, y) /\ ~Above(sign, y, z) => ~Above(sign, x, z)
<1>1. CASE sign = 1
  BY <1>1 DEF Above, Comparable
<1>2. CASE sign = -1
  BY <1>2 DEF Above, Comparable
<1> QED BY <1>1, <1>2

\* Every item is below its parent.
IsHeap(sign, h) == \A c \in 2 .. Len(h) : ~Above(sign, h[c], h[c \div 2])

\* The items have distinct ids.
Distinct(h) == \A i, j \in 1 .. Len(h) : h[i].id = h[j].id => i = j

LEMMA Parents ==
  ASSUME NEW c \in Nat, c >= 2
  PROVE  /\ c \div 2 \in Nat /\ c \div 2 >= 1 /\ c \div 2 < c
         /\ \A p \in Nat : c \div 2 = p <=> c = 2 * p \/ c = 2 * p + 1
OBVIOUS

\* The top of a heap is above or beside every item.
LEMMA TopOfHeap ==
  ASSUME NEW R, Comparable(R), NEW sign \in {1, -1}, NEW h \in Seq(R), IsHeap(sign, h)
  PROVE  \A i \in 1 .. Len(h) : ~Above(sign, h[i], h[1])
<1> DEFINE Bad == {i \in 1 .. Len(h) : Above(sign, h[i], h[1])}
<1> SUFFICES ASSUME Bad # {} PROVE FALSE
  OBVIOUS
<1>1. Bad \subseteq Nat
  OBVIOUS
<1>2. PICK b \in Bad : \A i \in Bad : ~ (<<i, b>> \in OpToRel(<, Nat))
  <2> HIDE DEF Bad
  <2> QED BY <1>1, NatLessThanWellFounded, WFMin
<1>3. h[1] \in R /\ h[b] \in R
  OBVIOUS
<1>4. b # 1
  BY <1>3, AboveOrder
<1>5. PICK p : p = b \div 2
  OBVIOUS
<1>6. p \in 1 .. Len(h) /\ p < b /\ p \in Nat /\ b \in Nat
  BY <1>4, <1>5, Parents
<1>7. <<p, b>> \in OpToRel(<, Nat)
  BY <1>6 DEF OpToRel
<1>8. ~Above(sign, h[p], h[1])
  BY <1>2, <1>6, <1>7
<1>9. ~Above(sign, h[b], h[p])
  BY <1>4, <1>5 DEF IsHeap
<1> QED BY <1>3, <1>6, <1>8, <1>9, AboveOrder

----------------------------------------------------------------------------
(* Swap moves two items and changes nothing else.                          *)

Swapped(R, h, i, j, g) ==
  /\ g \in Seq(R) /\ Len(g) = Len(h)
  /\ g[i] = h[j] /\ g[j] = h[i]
  /\ \A c \in 1 .. Len(h) : c # i /\ c # j => g[c] = h[c]
  /\ Range(g) = Range(h)
  /\ Distinct(h) => Distinct(g)

LEMMA SwapIs ==
  ASSUME NEW R, NEW h \in Seq(R), NEW i \in 1 .. Len(h), NEW j \in 1 .. Len(h)
  PROVE  Swapped(R, h, i, j, Swap(h, i, j))
<1> DEFINE g == Swap(h, i, j)
<1>1. DOMAIN h = 1 .. Len(h) /\ Len(h) \in Nat /\ \A c \in 1 .. Len(h) : h[c] \in R
  OBVIOUS
<1>2. g = [c \in 1 .. Len(h) |-> IF c = j THEN h[i] ELSE IF c = i THEN h[j] ELSE h[c]]
  BY <1>1 DEF Swap
<1> HIDE DEF g
<1>3. g \in [1 .. Len(h) -> R]
  BY <1>1, <1>2
<1>4. g \in Seq(R) /\ Len(g) = Len(h) /\ DOMAIN g = 1 .. Len(h)
  BY <1>1, <1>3
<1>5. g[i] = h[j] /\ g[j] = h[i] /\ \A c \in 1 .. Len(h) : c # i /\ c # j => g[c] = h[c]
  BY <1>2
<1>6. Range(g) = Range(h)
  <2>1. \A c \in 1 .. Len(h) : \E e \in 1 .. Len(h) : g[c] = h[e]
    BY <1>5
  <2>2. \A c \in 1 .. Len(h) : \E e \in 1 .. Len(h) : h[c] = g[e]
    BY <1>5
  <2>3. Range(g) = {g[c] : c \in 1 .. Len(h)} /\ Range(h) = {h[c] : c \in 1 .. Len(h)}
    BY <1>1, <1>4 DEF Range
  <2>4. \A x \in Range(g) : x \in Range(h)
    BY <2>1, <2>3
  <2>5. \A x \in Range(h) : x \in Range(g)
    BY <2>2, <2>3
  <2> QED BY <2>3, <2>4, <2>5
<1>7. Distinct(h) => Distinct(g)
  BY <1>4, <1>5 DEF Distinct
<1>8. Swapped(R, h, i, j, g)
  BY <1>4, <1>5, <1>6, <1>7 DEF Swapped
<1> QED BY <1>8 DEF g

----------------------------------------------------------------------------
(* upMin and upMax.                                                        *)

\* While the item at j moves up: the order holds everywhere but between j and
\* its parent, and the children of j are in order with the parent too.
Rising(sign, h, j) ==
  /\ \A c \in 2 .. Len(h) : c # j => ~Above(sign, h[c], h[c \div 2])
  /\ j > 1 => \A c \in 2 .. Len(h) : c \div 2 = j => ~Above(sign, h[c], h[j \div 2])

LEMMA UpStepIs ==
  ASSUME NEW R, Comparable(R), NEW sign \in {1, -1},
         NEW h \in Seq(R), NEW j \in 1 .. Len(h), Rising(sign, h, j)
  PROVE  \/ UpStep(sign, <<h, j>>) = <<h, j>> /\ IsHeap(sign, h)
         \/ \E p \in 1 .. Len(h) :
              /\ p < j /\ UpStep(sign, <<h, j>>) = <<Swap(h, j, p), p>>
              /\ Rising(sign, Swap(h, j, p), p) /\ ~IsHeap(sign, h)
<1>1. PICK p : p = j \div 2
  OBVIOUS
<1>2. CASE j = 1 \/ ~Above(sign, h[j], h[p])
  <2>1. UpStep(sign, <<h, j>>) = <<h, j>>
    BY <1>1, <1>2 DEF UpStep
  <2>2. IsHeap(sign, h)
    BY <1>1, <1>2 DEF Rising, IsHeap
  <2> QED BY <2>1, <2>2
<1>3. CASE j # 1 /\ Above(sign, h[j], h[p])
  <2>1. p \in 1 .. Len(h) /\ p < j /\ p \in Nat /\ j \in Nat
    BY <1>1, <1>3
  <2>2. PICK g : g = Swap(h, j, p)
    OBVIOUS
  <2>3. UpStep(sign, <<h, j>>) = <<g, p>>
    BY <1>1, <1>3, <2>2 DEF UpStep
  <2>4. /\ g \in Seq(R) /\ Len(g) = Len(h) /\ g[j] = h[p] /\ g[p] = h[j]
        /\ \A c \in 1 .. Len(h) : c # j /\ c # p => g[c] = h[c]
    <3>1. Swapped(R, h, j, p, Swap(h, j, p))
      BY <2>1, SwapIs
    <3> QED BY <2>2, <3>1 DEF Swapped
  <2>5. \A c \in 1 .. Len(h) : h[c] \in R
    OBVIOUS
  <2>6. /\ Above(sign, h[j], h[p]) => ~Above(sign, h[p], h[j])
        /\ \A x, y, z \in R : ~Above(sign, x, y) /\ ~Above(sign, y, z) => ~Above(sign, x, z)
    BY <2>1, <2>5, AboveOrder
  <2>7. \A c \in 2 .. Len(h) : c # j => ~Above(sign, h[c], h[c \div 2])
    BY DEF Rising
  <2>8. \A c \in 2 .. Len(h) : c \div 2 = j => ~Above(sign, h[c], h[p])
    BY <1>1, <1>3 DEF Rising
  <2>9. ASSUME NEW c \in 2 .. Len(h), c \div 2 = p PROVE ~Above(sign, g[c], h[p]) /\ g[c] \in R
    <3>1. c # p /\ c \in 1 .. Len(h)
      BY <2>1, <2>9
    <3>2. CASE c = j
      BY <2>4, <2>5, <3>2, <2>1, AboveOrder
    <3>3. CASE c # j
      BY <2>4, <2>5, <2>7, <2>9, <3>1, <3>3
    <3> QED BY <3>2, <3>3
  <2>10. ASSUME NEW c \in 2 .. Len(h), c # p PROVE ~Above(sign, g[c], g[c \div 2])
    <3>1. PICK d : d = c \div 2
      OBVIOUS
    <3>2. d \in 1 .. Len(h) /\ d < c /\ c \in 1 .. Len(h)
      BY <3>1
    <3>3. CASE d = p
      <4>1. ~Above(sign, g[c], h[p]) /\ g[c] \in R
        BY <2>9, <3>1, <3>3
      <4>2. ~Above(sign, h[p], h[j])
        BY <1>3, <2>6
      <4> QED BY <2>1, <2>4, <2>5, <2>6, <3>1, <3>3, <4>1, <4>2
    <3>4. CASE d = j
      BY <2>1, <2>4, <2>8, <3>1, <3>2, <3>4, <2>10
    <3>5. CASE d # p /\ d # j
      <4>1. c # j
        BY <1>1, <3>1, <3>5
      <4> QED BY <2>4, <2>7, <2>10, <3>1, <3>2, <3>5, <4>1
    <3> QED BY <3>3, <3>4, <3>5
  <2>11. ASSUME p > 1, NEW c \in 2 .. Len(h), c \div 2 = p PROVE ~Above(sign, g[c], g[p \div 2])
    <3>1. PICK d : d = p \div 2
      OBVIOUS
    <3>2. d \in 1 .. Len(h) /\ d # p /\ d # j
      BY <2>1, <2>11, <3>1
    <3>3. g[d] = h[d]
      BY <2>4, <3>2
    <3>4. ~Above(sign, h[p], h[d])
      BY <2>1, <2>7, <2>11, <3>1
    <3>5. ~Above(sign, g[c], h[p]) /\ g[c] \in R
      BY <2>9, <2>11
    <3> QED BY <2>1, <2>5, <2>6, <3>1, <3>2, <3>3, <3>4, <3>5
  <2>12. Rising(sign, g, p)
    BY <2>4, <2>10, <2>11 DEF Rising
  <2>13. ~IsHeap(sign, h)
    BY <1>1, <1>3 DEF IsHeap
  <2> QED BY <2>1, <2>2, <2>3, <2>12, <2>13
<1> QED BY <1>2, <1>3

UpRun(sign, h) ==
  CHOOSE up : up = [r \in 0 .. Len(h) |-> IF r = 0 THEN <<h, Len(h)>> ELSE UpStep(sign, up[r - 1])]

LEMMA UpIs == ASSUME NEW sign, NEW h PROVE Up(sign, h) = UpRun(sign, h)[Len(h)][1]
BY DEF Up, UpRun

\* The loop of upMin / upMax puts the last item in its place and keeps the items.
LEMMA UpSorts ==
  ASSUME NEW R, Comparable(R), NEW sign \in {1, -1},
         NEW h \in Seq(R), h # <<>>, Distinct(h), Rising(sign, h, Len(h))
  PROVE  /\ Up(sign, h) \in Seq(R) /\ Len(Up(sign, h)) = Len(h)
         /\ IsHeap(sign, Up(sign, h)) /\ Distinct(Up(sign, h))
         /\ Range(Up(sign, h)) = Range(h)
<1>1. PICK m : m = Len(h)
  OBVIOUS
<1>2. m \in Nat /\ m >= 1
  BY <1>1
<1> DEFINE D == {s \in Seq(R) \X (1 .. m) :
                  /\ Len(s[1]) = m /\ Distinct(s[1]) /\ Range(s[1]) = Range(h)
                  /\ Rising(sign, s[1], s[2])}
           F == [i \in 1 .. m |-> [s \in D |-> UpStep(sign, s)]]
<1>3. <<h, m>> \in D
  BY <1>1, <1>2
<1>4. ASSUME NEW s \in D
      PROVE  /\ UpStep(sign, s) \in D
             /\ \/ UpStep(sign, s) = s /\ IsHeap(sign, s[1])
                \/ UpStep(sign, s)[2] < s[2] /\ ~IsHeap(sign, s[1])
  <2>1. PICK a, j : s = <<a, j>> /\ a \in Seq(R) /\ j \in 1 .. m
    OBVIOUS
  <2>2. Len(a) = m /\ Distinct(a) /\ Range(a) = Range(h) /\ Rising(sign, a, j)
    BY <2>1
  <2>3. CASE UpStep(sign, <<a, j>>) = <<a, j>> /\ IsHeap(sign, a)
    BY <2>1, <2>3
  <2>4. CASE \E p \in 1 .. Len(a) : /\ p < j /\ UpStep(sign, <<a, j>>) = <<Swap(a, j, p), p>>
                                    /\ Rising(sign, Swap(a, j, p), p) /\ ~IsHeap(sign, a)
    <3>1. PICK p \in 1 .. Len(a) : /\ p < j /\ UpStep(sign, <<a, j>>) = <<Swap(a, j, p), p>>
                                   /\ Rising(sign, Swap(a, j, p), p) /\ ~IsHeap(sign, a)
      BY <2>4
    <3>2. PICK b : b = Swap(a, j, p)
      OBVIOUS
    <3>3. b \in Seq(R) /\ Len(b) = m /\ Range(b) = Range(h) /\ Distinct(b)
      <4>1. Swapped(R, a, j, p, Swap(a, j, p))
        BY <2>1, <2>2, SwapIs
      <4> QED BY <2>1, <2>2, <3>2, <4>1 DEF Swapped
    <3>4. <<b, p>> \in D
      BY <2>2, <3>1, <3>2, <3>3
    <3> QED BY <2>1, <3>1, <3>2, <3>4
  <2> QED BY <2>1, <2>2, <2>3, <2>4, UpStepIs
<1>5. ASSUME NEW s \in D
      PROVE  /\ s[1] \in Seq(R) /\ s[2] \in 1 .. m
             /\ Len(s[1]) = m /\ Distinct(s[1]) /\ Range(s[1]) = Range(h)
  OBVIOUS
<1> HIDE DEF D
<1>6. F \in [1 .. m -> [D -> D]]
  BY <1>4
<1>7. \A i \in 1 .. m : \A s \in D : F[i][s] = UpStep(sign, s)
  OBVIOUS
<1>8. PICK f \in [0 .. m -> D] : f[0] = <<h, m>> /\ \A i \in 1 .. m : f[i] = F[i][f[i - 1]]
  <2> HIDE DEF F
  <2>1. PICK x \in D : x = <<h, m>>
    BY <1>3
  <2>2. \E g : IsRun(m, D, x, F, g)
    BY <1>2, <1>6, Iteration
  <2> QED BY <2>1, <2>2 DEF IsRun
<1> HIDE DEF F
<1>9. ASSUME NEW i \in 1 .. m PROVE f[i] = UpStep(sign, f[i - 1])
  <2>1. i - 1 \in 0 .. m
    BY <1>2
  <2> QED BY <1>7, <1>8, <2>1
<1>10. f = [r \in 0 .. m |-> IF r = 0 THEN <<h, m>> ELSE UpStep(sign, f[r - 1])]
  <2>1. ASSUME NEW r \in 0 .. m PROVE f[r] = IF r = 0 THEN <<h, m>> ELSE UpStep(sign, f[r - 1])
    <3>1. CASE r = 0
      BY <1>8, <3>1
    <3>2. CASE r # 0
      <4>1. r \in 1 .. m
        BY <1>2, <3>2
      <4> QED BY <1>9, <3>2, <4>1
    <3> QED BY <3>1, <3>2
  <2> QED BY <2>1
<1>11. PICK up : up = UpRun(sign, h)
  OBVIOUS
<1>12. up = [r \in 0 .. m |-> IF r = 0 THEN <<h, m>> ELSE UpStep(sign, up[r - 1])]
  BY <1>1, <1>10, <1>11 DEF UpRun
<1>13. up[0] = <<h, m>>
  BY <1>2, <1>12
<1>14. ASSUME NEW i \in 1 .. m PROVE up[i] = UpStep(sign, up[i - 1])
  <2>1. i \in 0 .. m /\ i # 0
    BY <1>2
  <2> QED BY <1>12, <2>1
<1> DEFINE G == {i \in 0 .. m : up[i] \in D /\ (IsHeap(sign, up[i][1]) \/ up[i][2] <= m - i)}
<1>15. 0 \in G
  BY <1>2, <1>3, <1>13
<1>16. ASSUME NEW i \in 1 .. m, i - 1 \in G PROVE i \in G
  <2>1. PICK s : s = up[i - 1]
    OBVIOUS
  <2>2. s \in D /\ (IsHeap(sign, s[1]) \/ s[2] <= m - (i - 1)) /\ up[i] = UpStep(sign, s)
    <3>1. up[i - 1] \in D /\ (IsHeap(sign, up[i - 1][1]) \/ up[i - 1][2] <= m - (i - 1))
      BY <1>16
    <3> QED BY <1>14, <2>1, <3>1
  <2>3. PICK t : t = UpStep(sign, s)
    OBVIOUS
  <2>4. t \in D /\ ((t = s /\ IsHeap(sign, s[1])) \/ (t[2] < s[2] /\ ~IsHeap(sign, s[1])))
    BY <1>4, <2>2, <2>3
  <2>5. s[2] \in 1 .. m /\ t[2] \in 1 .. m
    BY <1>5, <2>2, <2>4
  <2> QED BY <1>2, <2>2, <2>3, <2>4, <2>5
<1>17. m \in G
  <2> HIDE DEF G
  <2>1. \A i \in 1 .. m : i - 1 \in G => i \in G
    BY <1>16
  <2>2. \A i \in 0 .. m : i \in G
    BY <1>2, <1>15, <2>1, Rounds
  <2> QED BY <1>2, <2>2
<1>18. up[m] \in D /\ IsHeap(sign, up[m][1])
  BY <1>2, <1>5, <1>17
<1> QED BY <1>1, <1>5, <1>11, <1>18, UpIs

----------------------------------------------------------------------------
(* downMin and downMax.                                                    *)

\* While the item at i moves down: the order holds everywhere but between i and
\* its children, and these are in order with the parent of i too.
Sinking(sign, h, i) ==
  /\ \A c \in 2 .. Len(h) : c \div 2 # i => ~Above(sign, h[c], h[c \div 2])
  /\ i > 1 => \A c \in 2 .. Len(h) : c \div 2 = i => ~Above(sign, h[c], h[i \div 2])

LEMMA DownStepIs ==
  ASSUME NEW R, Comparable(R), NEW sign \in {1, -1},
         NEW h \in Seq(R), NEW i \in 1 .. Len(h), Sinking(sign, h, i)
  PROVE  \/ DownStep(sign, <<h, i>>) = <<h, i>> /\ IsHeap(sign, h)
         \/ \E p \in 1 .. Len(h) :
              /\ i < p /\ DownStep(sign, <<h, i>>) = <<Swap(h, i, p), p>>
              /\ Sinking(sign, Swap(h, i, p), p) /\ ~IsHeap(sign, h)
<1>1. PICK left, right : left = 2 * i /\ right = left + 1
  OBVIOUS
<1>2. PICK p : p = IF right <= Len(h) /\ Above(sign, h[right], h[left]) THEN right ELSE left
  OBVIOUS
<1>3. /\ i \in Nat /\ i >= 1 /\ left \in Nat /\ right \in Nat /\ p \in {left, right} /\ i < left
      /\ Len(h) \in Nat /\ \A c \in 1 .. Len(h) : h[c] \in R
  BY <1>1, <1>2
<1>4. /\ \A x, y \in R : Above(sign, x, y) => ~Above(sign, y, x)
      /\ \A x, y, z \in R : ~Above(sign, x, y) /\ ~Above(sign, y, z) => ~Above(sign, x, z)
  BY AboveOrder
<1>5. CASE left > Len(h)
  <2>1. DownStep(sign, <<h, i>>) = <<h, i>>
    BY <1>1, <1>5 DEF DownStep
  <2>2. ASSUME NEW c \in 2 .. Len(h) PROVE c \div 2 # i
    BY <1>1, <1>3, <1>5
  <2> QED BY <2>1, <2>2 DEF Sinking, IsHeap
<1>6. CASE left <= Len(h)
  <2>1. p \in 1 .. Len(h) /\ i < p /\ p \in Nat /\ left \in 1 .. Len(h)
    BY <1>1, <1>2, <1>3, <1>6
  <2>2. ASSUME NEW c \in 2 .. Len(h), c \div 2 = i PROVE ~Above(sign, h[c], h[p])
    <3>1. c \in {left, right}
      BY <1>1, <1>3, <2>2
    <3>2. CASE c = p
      BY <1>3, <1>4, <2>1, <3>2
    <3>3. CASE c # p
      BY <1>2, <1>3, <1>4, <2>1, <3>1, <3>3
    <3> QED BY <3>2, <3>3
  <2>3. p \div 2 = i
    BY <1>1, <1>3
  <2>4. CASE ~Above(sign, h[p], h[i])
    <3>1. DownStep(sign, <<h, i>>) = <<h, i>>
      BY <1>1, <1>2, <1>6, <2>4 DEF DownStep
    <3>2. ASSUME NEW c \in 2 .. Len(h) PROVE ~Above(sign, h[c], h[c \div 2])
      <4>1. CASE c \div 2 = i
        <5>1. ~Above(sign, h[c], h[p])
          BY <2>2, <4>1
        <5>2. c \in 1 .. Len(h)
          OBVIOUS
        <5> QED BY <1>3, <1>4, <2>1, <2>4, <4>1, <5>1, <5>2
      <4>2. CASE c \div 2 # i
        BY <4>2 DEF Sinking
      <4> QED BY <4>1, <4>2
    <3> QED BY <3>1, <3>2 DEF IsHeap
  <2>5. CASE Above(sign, h[p], h[i])
    <3>1. PICK g : g = Swap(h, i, p)
      OBVIOUS
    <3>2. DownStep(sign, <<h, i>>) = <<g, p>>
      BY <1>1, <1>2, <1>6, <2>5, <3>1 DEF DownStep
    <3>3. /\ g \in Seq(R) /\ Len(g) = Len(h) /\ g[i] = h[p] /\ g[p] = h[i]
          /\ \A c \in 1 .. Len(h) : c # i /\ c # p => g[c] = h[c]
      <4>1. p \in 1 .. Len(h)
        BY <2>1
      <4>2. Swapped(R, h, i, p, Swap(h, i, p))
        BY <4>1, SwapIs
      <4> QED BY <3>1, <4>2 DEF Swapped
    <3>4. \A c \in 2 .. Len(h) : c \div 2 # i => ~Above(sign, h[c], h[c \div 2])
      BY DEF Sinking
    <3>5. ASSUME NEW c \in 2 .. Len(h), c \div 2 # p PROVE ~Above(sign, g[c], g[c \div 2])
      <4>1. PICK d : d = c \div 2
        OBVIOUS
      <4>2. d \in 1 .. Len(h) /\ d < c /\ c \in 1 .. Len(h)
        BY <4>1
      <4>3. CASE d = i
        <5>1. CASE c = p
          BY <1>3, <1>4, <2>1, <2>5, <3>3, <4>1, <4>3, <5>1
        <5>2. CASE c # p
          <6>1. ~Above(sign, h[c], h[p])
            BY <2>2, <4>1, <4>3
          <6>2. g[c] = h[c]
            BY <3>3, <4>2, <4>3, <5>2
          <6> QED BY <3>3, <4>1, <4>3, <6>1, <6>2
        <5> QED BY <5>1, <5>2
      <4>4. CASE d # i /\ c = i
        <5>1. i > 1 /\ d = i \div 2 /\ p \in 2 .. Len(h)
          BY <1>3, <2>1, <4>1, <4>4
        <5>2. ~Above(sign, h[p], h[d])
          BY <2>3, <5>1 DEF Sinking
        <5>3. d # p
          BY <3>5, <4>1
        <5> QED BY <3>3, <4>1, <4>2, <4>4, <5>2, <5>3
      <4>5. CASE d # i /\ c # i
        <5>1. c # p /\ d # p
          BY <2>3, <3>5, <4>1, <4>5
        <5>2. g[c] = h[c] /\ g[d] = h[d]
          BY <3>3, <4>2, <4>5, <5>1
        <5> QED BY <3>4, <4>1, <4>5, <5>2
      <4> QED BY <4>3, <4>4, <4>5
    <3>6. ASSUME NEW c \in 2 .. Len(h), c \div 2 = p PROVE ~Above(sign, g[c], g[p \div 2])
      <4>1. c # i /\ c # p /\ c \in 1 .. Len(h)
        BY <1>3, <2>1, <3>6
      <4>2. g[c] = h[c] /\ g[p \div 2] = h[p]
        BY <2>3, <3>3, <4>1
      <4>3. ~Above(sign, h[c], h[p])
        BY <2>1, <3>4, <3>6
      <4> QED BY <4>2, <4>3
    <3>7. Sinking(sign, g, p)
      BY <3>3, <3>5, <3>6 DEF Sinking
    <3>8. ~IsHeap(sign, h)
      BY <2>1, <2>3, <2>5, <1>3 DEF IsHeap
    <3> QED BY <2>1, <3>1, <3>2, <3>7, <3>8
  <2> QED BY <2>4, <2>5
<1>7. left > Len(h) \/ left <= Len(h)
  BY <1>3
<1> QED BY <1>5, <1>6, <1>7, Zenon

DownRun(sign, h) ==
  CHOOSE down : down = [r \in 0 .. Len(h) |-> IF r = 0 THEN <<h, 1>> ELSE DownStep(sign, down[r - 1])]

LEMMA DownIs == ASSUME NEW sign, NEW h PROVE Down(sign, h) = DownRun(sign, h)[Len(h)][1]
BY DEF Down, DownRun

\* The loop of downMin / downMax puts the first item in its place and keeps the items.
LEMMA DownSorts ==
  ASSUME NEW R, Comparable(R), NEW sign \in {1, -1},
         NEW h \in Seq(R), h # <<>>, Distinct(h), Sinking(sign, h, 1)
  PROVE  /\ Down(sign, h) \in Seq(R) /\ Len(Down(sign, h)) = Len(h)
         /\ IsHeap(sign, Down(sign, h)) /\ Distinct(Down(sign, h))
         /\ Range(Down(sign, h)) = Range(h)
<1>1. PICK m : m = Len(h)
  OBVIOUS
<1>2. m \in Nat /\ m >= 1
  BY <1>1
<1> DEFINE D == {s \in Seq(R) \X (1 .. m) :
                  /\ Len(s[1]) = m /\ Distinct(s[1]) /\ Range(s[1]) = Range(h)
                  /\ Sinking(sign, s[1], s[2])}
           F == [i \in 1 .. m |-> [s \in D |-> DownStep(sign, s)]]
<1>3. <<h, 1>> \in D
  BY <1>1, <1>2
<1>4. ASSUME NEW s \in D
      PROVE  /\ DownStep(sign, s) \in D
             /\ \/ DownStep(sign, s) = s /\ IsHeap(sign, s[1])
                \/ DownStep(sign, s)[2] > s[2] /\ ~IsHeap(sign, s[1])
  <2>1. PICK a, j : s = <<a, j>> /\ a \in Seq(R) /\ j \in 1 .. m
    OBVIOUS
  <2>2. Len(a) = m /\ Distinct(a) /\ Range(a) = Range(h) /\ Sinking(sign, a, j)
    BY <2>1
  <2>3. CASE DownStep(sign, <<a, j>>) = <<a, j>> /\ IsHeap(sign, a)
    BY <2>1, <2>3
  <2>4. CASE \E p \in 1 .. Len(a) : /\ j < p /\ DownStep(sign, <<a, j>>) = <<Swap(a, j, p), p>>
                                    /\ Sinking(sign, Swap(a, j, p), p) /\ ~IsHeap(sign, a)
    <3>1. PICK p \in 1 .. Len(a) : /\ j < p /\ DownStep(sign, <<a, j>>) = <<Swap(a, j, p), p>>
                                   /\ Sinking(sign, Swap(a, j, p), p) /\ ~IsHeap(sign, a)
      BY <2>4
    <3>2. PICK b : b = Swap(a, j, p)
      OBVIOUS
    <3>3. b \in Seq(R) /\ Len(b) = m /\ Range(b) = Range(h) /\ Distinct(b)
      <4>1. Swapped(R, a, j, p, Swap(a, j, p))
        BY <2>1, <2>2, SwapIs
      <4> QED BY <2>1, <2>2, <3>2, <4>1 DEF Swapped
    <3>4. <<b, p>> \in D
      BY <2>2, <3>1, <3>2, <3>3
    <3> QED BY <2>1, <3>1, <3>2, <3>4
  <2> QED BY <2>1, <2>2, <2>3, <2>4, DownStepIs
<1>5. ASSUME NEW s \in D
      PROVE  /\ s[1] \in Seq(R) /\ s[2] \in 1 .. m
             /\ Len(s[1]) = m /\ Distinct(s[1]) /\ Range(s[1]) = Range(h)
  OBVIOUS
<1> HIDE DEF D
<1>6. F \in [1 .. m -> [D -> D]]
  BY <1>4
<1>7. \A i \in 1 .. m : \A s \in D : F[i][s] = DownStep(sign, s)
  OBVIOUS
<1>8. PICK f \in [0 .. m -> D] : f[0] = <<h, 1>> /\ \A i \in 1 .. m : f[i] = F[i][f[i - 1]]
  <2> HIDE DEF F
  <2>1. PICK x \in D : x = <<h, 1>>
    BY <1>3
  <2>2. \E g : IsRun(m, D, x, F, g)
    BY <1>2, <1>6, Iteration
  <2> QED BY <2>1, <2>2 DEF IsRun
<1> HIDE DEF F
<1>9. ASSUME NEW i \in 1 .. m PROVE f[i] = DownStep(sign, f[i - 1])
  <2>1. i - 1 \in 0 .. m
    BY <1>2
  <2> QED BY <1>7, <1>8, <2>1
<1>10. f = [r \in 0 .. m |-> IF r = 0 THEN <<h, 1>> ELSE DownStep(sign, f[r - 1])]
  <2>1. ASSUME NEW r \in 0 .. m PROVE f[r] = IF r = 0 THEN <<h, 1>> ELSE DownStep(sign, f[r - 1])
    <3>1. CASE r = 0
      BY <1>8, <3>1
    <3>2. CASE r # 0
      <4>1. r \in 1 .. m
        BY <1>2, <3>2
      <4> QED BY <1>9, <3>2, <4>1
    <3> QED BY <3>1, <3>2
  <2> QED BY <2>1
<1>11. PICK down : down = DownRun(sign, h)
  OBVIOUS
<1>12. down = [r \in 0 .. m |-> IF r = 0 THEN <<h, 1>> ELSE DownStep(sign, down[r - 1])]
  BY <1>1, <1>10, <1>11 DEF DownRun
<1>13. down[0] = <<h, 1>>
  BY <1>2, <1>12
<1>14. ASSUME NEW i \in 1 .. m PROVE down[i] = DownStep(sign, down[i - 1])
  <2>1. i \in 0 .. m /\ i # 0
    BY <1>2
  <2> QED BY <1>12, <2>1
<1> DEFINE G == {i \in 0 .. m : down[i] \in D /\ (IsHeap(sign, down[i][1]) \/ down[i][2] >= i + 1)}
<1>15. 0 \in G
  <2>1. 0 \in 0 .. m /\ <<h, 1>>[2] >= 0 + 1
    BY <1>2
  <2> QED BY <1>3, <1>13, <2>1
<1>16. ASSUME NEW i \in 1 .. m, i - 1 \in G PROVE i \in G
  <2>1. PICK s : s = down[i - 1]
    OBVIOUS
  <2>2. s \in D /\ (IsHeap(sign, s[1]) \/ s[2] >= i) /\ down[i] = DownStep(sign, s)
    <3>1. down[i - 1] \in D /\ (IsHeap(sign, down[i - 1][1]) \/ down[i - 1][2] >= i)
      BY <1>16
    <3> QED BY <1>14, <2>1, <3>1
  <2>3. PICK t : t = DownStep(sign, s)
    OBVIOUS
  <2>4. t \in D /\ ((t = s /\ IsHeap(sign, s[1])) \/ (t[2] > s[2] /\ ~IsHeap(sign, s[1])))
    BY <1>4, <2>2, <2>3
  <2>5. s[2] \in 1 .. m /\ t[2] \in 1 .. m
    BY <1>5, <2>2, <2>4
  <2> QED BY <1>2, <2>2, <2>3, <2>4, <2>5
<1>17. m \in G
  <2> HIDE DEF G
  <2>1. \A i \in 1 .. m : i - 1 \in G => i \in G
    BY <1>16
  <2>2. \A i \in 0 .. m : i \in G
    BY <1>2, <1>15, <2>1, Rounds
  <2> QED BY <1>2, <2>2
<1>18. down[m] \in D /\ IsHeap(sign, down[m][1])
  BY <1>2, <1>5, <1>17
<1> QED BY <1>1, <1>5, <1>11, <1>18, DownIs

----------------------------------------------------------------------------
(* Push, the replacement of the top, and Pop.                              *)

LEMMA RangeIs ==
  ASSUME NEW R, NEW h \in Seq(R)
  PROVE  /\ Range(h) = {h[c] : c \in 1 .. Len(h)} /\ Range(h) \subseteq R
         /\ \A c \in 1 .. Len(h) : h[c] \in R
BY DEF Range

\* A good heap: its items are in heap order and have distinct ids.
GoodHeap(sign, h) == IsHeap(sign, h) /\ Distinct(h)

LEMMA EmptyHeap == ASSUME NEW sign PROVE GoodHeap(sign, <<>>)
<1>1. Len(<<>>) = 0 /\ 2 .. 0 = {} /\ 1 .. 0 = {}
  OBVIOUS
<1> QED BY <1>1 DEF GoodHeap, IsHeap, Distinct

LEMMA PushIs ==
  ASSUME NEW R, Comparable(R), NEW sign \in {1, -1}, NEW h \in Seq(R), GoodHeap(sign, h),
         NEW x \in R, \A y \in Range(h) : y.id # x.id
  PROVE  /\ Push(sign, h, x) \in Seq(R) /\ GoodHeap(sign, Push(sign, h, x))
         /\ Len(Push(sign, h, x)) = Len(h) + 1
         /\ Range(Push(sign, h, x)) = Range(h) \cup {x}
<1>1. PICK g : g = Append(h, x)
  OBVIOUS
<1>2. PICK m : m = Len(h)
  OBVIOUS
<1>3. /\ g \in Seq(R) /\ Len(g) = m + 1 /\ m \in Nat /\ g[m + 1] = x /\ g # <<>>
      /\ \A c \in 1 .. m : g[c] = h[c]
  BY <1>1, <1>2
<1>4. \A c \in 1 .. m : h[c] \in Range(h)
  BY <1>2, RangeIs
<1>5. Distinct(g)
  <2>1. ASSUME NEW i \in 1 .. m + 1, NEW j \in 1 .. m + 1, g[i].id = g[j].id PROVE i = j
    <3>1. CASE i = m + 1 /\ j = m + 1
      BY <3>1
    <3>2. CASE i = m + 1 /\ j \in 1 .. m
      BY <1>3, <1>4, <2>1, <3>2
    <3>3. CASE i \in 1 .. m /\ j = m + 1
      BY <1>3, <1>4, <2>1, <3>3
    <3>4. CASE i \in 1 .. m /\ j \in 1 .. m
      BY <1>2, <1>3, <2>1, <3>4 DEF GoodHeap, Distinct
    <3> QED BY <1>3, <3>1, <3>2, <3>3, <3>4
  <2> QED BY <1>3, <2>1 DEF Distinct
<1>6. Rising(sign, g, m + 1)
  <2>1. ASSUME NEW c \in 2 .. m + 1, c # m + 1 PROVE ~Above(sign, g[c], g[c \div 2])
    <3>1. PICK d : d = c \div 2
      OBVIOUS
    <3>2. c \in 2 .. m /\ c \in 1 .. m /\ d \in 1 .. m
      BY <1>3, <2>1, <3>1
    <3>3. ~Above(sign, h[c], h[d])
      BY <1>2, <3>1, <3>2 DEF GoodHeap, IsHeap
    <3> QED BY <1>3, <3>1, <3>2, <3>3
  <2>2. ASSUME NEW c \in 2 .. m + 1 PROVE c \div 2 # m + 1
    BY <1>3
  <2> QED BY <1>3, <2>1, <2>2 DEF Rising
<1>7. Range(g) = Range(h) \cup {x}
  <2>1. Range(g) = {g[c] : c \in 1 .. m + 1} /\ Range(h) = {h[c] : c \in 1 .. m}
    BY <1>2, <1>3, RangeIs
  <2>2. ASSUME NEW c \in 1 .. m + 1 PROVE g[c] \in Range(h) \cup {x}
    <3>1. CASE c = m + 1
      BY <1>3, <3>1
    <3>2. CASE c \in 1 .. m
      BY <1>3, <1>4, <3>2
    <3> QED BY <1>3, <3>1, <3>2
  <2>3. \A c \in 1 .. m : h[c] = g[c] /\ c \in 1 .. m + 1
    BY <1>3
  <2>4. x = g[m + 1] /\ m + 1 \in 1 .. m + 1
    BY <1>3
  <2>5. \A y \in Range(h) \cup {x} : y \in Range(g)
    BY <2>1, <2>3, <2>4
  <2>6. \A y \in Range(g) : y \in Range(h) \cup {x}
    BY <2>1, <2>2
  <2> QED BY <2>5, <2>6
<1>8. Push(sign, h, x) = Up(sign, g)
  BY <1>1 DEF Push
<1> QED BY <1>2, <1>3, <1>5, <1>6, <1>7, <1>8, UpSorts DEF GoodHeap

LEMMA ReplaceTopIs ==
  ASSUME NEW R, Comparable(R), NEW sign \in {1, -1}, NEW h \in Seq(R), GoodHeap(sign, h), h # <<>>,
         NEW x \in R, \A y \in Range(h) : y.id # x.id
  PROVE  /\ ReplaceTop(sign, h, x) \in Seq(R) /\ GoodHeap(sign, ReplaceTop(sign, h, x))
         /\ Len(ReplaceTop(sign, h, x)) = Len(h)
         /\ Range(ReplaceTop(sign, h, x)) = (Range(h) \ {h[1]}) \cup {x}
<1>1. PICK g : g = [h EXCEPT ![1] = x]
  OBVIOUS
<1>2. PICK m : m = Len(h)
  OBVIOUS
<1>3. /\ g \in Seq(R) /\ Len(g) = m /\ m \in Nat /\ m >= 1 /\ g[1] = x /\ g # <<>>
      /\ \A c \in 2 .. m : g[c] = h[c]
  BY <1>1, <1>2
<1>4. \A c \in 1 .. m : h[c] \in Range(h)
  BY <1>2, RangeIs
<1>5. Distinct(g)
  <2>1. ASSUME NEW i \in 1 .. m, NEW j \in 1 .. m, g[i].id = g[j].id PROVE i = j
    <3>1. CASE i = 1 /\ j = 1
      BY <3>1
    <3>2. CASE i = 1 /\ j \in 2 .. m
      BY <1>3, <1>4, <2>1, <3>2
    <3>3. CASE i \in 2 .. m /\ j = 1
      BY <1>3, <1>4, <2>1, <3>3
    <3>4. CASE i \in 2 .. m /\ j \in 2 .. m
      BY <1>2, <1>3, <2>1, <3>4 DEF GoodHeap, Distinct
    <3> QED BY <1>3, <3>1, <3>2, <3>3, <3>4
  <2> QED BY <1>3, <2>1 DEF Distinct
<1>6. Sinking(sign, g, 1)
  <2>1. ASSUME NEW c \in 2 .. m, c \div 2 # 1 PROVE ~Above(sign, g[c], g[c \div 2])
    <3>1. PICK d : d = c \div 2
      OBVIOUS
    <3>2. d \in 2 .. m
      BY <1>3, <2>1, <3>1
    <3>3. ~Above(sign, h[c], h[d])
      BY <1>2, <3>1, <3>2 DEF GoodHeap, IsHeap
    <3> QED BY <1>3, <3>1, <3>2, <3>3
  <2> QED BY <1>3, <2>1 DEF Sinking
<1>7. Range(g) = (Range(h) \ {h[1]}) \cup {x}
  <2>1. Range(g) = {g[c] : c \in 1 .. m} /\ Range(h) = {h[c] : c \in 1 .. m}
    BY <1>2, <1>3, RangeIs
  <2>2. \A c \in 2 .. m : h[c] # h[1]
    BY <1>2, <1>3 DEF GoodHeap, Distinct
  <2>3. ASSUME NEW c \in 1 .. m PROVE g[c] \in (Range(h) \ {h[1]}) \cup {x}
    <3>1. CASE c = 1
      BY <1>3, <3>1
    <3>2. CASE c \in 2 .. m
      BY <1>3, <1>4, <2>2, <3>2
    <3> QED BY <1>3, <3>1, <3>2
  <2>4. ASSUME NEW c \in 1 .. m, h[c] # h[1] PROVE h[c] \in Range(g)
    <3>1. c \in 2 .. m
      BY <1>3, <2>4
    <3> QED BY <1>3, <2>1, <3>1
  <2>5. x \in Range(g)
    BY <1>3, <2>1
  <2>6. \A y \in Range(h) : y # h[1] => y \in Range(g)
    BY <2>1, <2>4
  <2>7. \A y \in Range(g) : y \in (Range(h) \ {h[1]}) \cup {x}
    BY <2>1, <2>3
  <2> QED BY <2>5, <2>6, <2>7
<1>8. ReplaceTop(sign, h, x) = Down(sign, g)
  BY <1>1 DEF ReplaceTop
<1> QED BY <1>2, <1>3, <1>5, <1>6, <1>7, <1>8, DownSorts DEF GoodHeap

LEMMA DownEmpty == ASSUME NEW sign PROVE Down(sign, <<>>) = <<>>
<1>1. Len(<<>>) = 0
  OBVIOUS
<1> DEFINE f == [r \in 0 .. 0 |-> << <<>>, 1>>]
<1>2. \A r \in 0 .. 0 : r = 0
  OBVIOUS
<1>3. f = [r \in 0 .. 0 |-> IF r = 0 THEN << <<>>, 1>> ELSE DownStep(sign, f[r - 1])]
  BY <1>2
<1>4. PICK down : down = DownRun(sign, <<>>)
  OBVIOUS
<1>5. down = [r \in 0 .. 0 |-> IF r = 0 THEN << <<>>, 1>> ELSE DownStep(sign, down[r - 1])]
  BY <1>1, <1>3, <1>4 DEF DownRun
<1>6. down[0] = << <<>>, 1>>
  BY <1>5
<1> QED BY <1>1, <1>4, <1>6, DownIs

LEMMA PopRestIs ==
  ASSUME NEW R, Comparable(R), NEW sign \in {1, -1}, NEW h \in Seq(R), GoodHeap(sign, h), h # <<>>
  PROVE  /\ PopRest(sign, h) \in Seq(R) /\ GoodHeap(sign, PopRest(sign, h))
         /\ Len(PopRest(sign, h)) = Len(h) - 1
         /\ Range(PopRest(sign, h)) = Range(h) \ {h[1]}
<1>1. PICK m : m = Len(h)
  OBVIOUS
<1>2. m \in Nat /\ m >= 1 /\ 1 \in 1 .. m /\ m \in 1 .. m
  BY <1>1
<1>3. PICK s : s = Swap(h, 1, m)
  OBVIOUS
<1>4. /\ s \in Seq(R) /\ Len(s) = m /\ s[1] = h[m] /\ s[m] = h[1] /\ Range(s) = Range(h) /\ Distinct(s)
      /\ \A c \in 1 .. m : c # 1 /\ c # m => s[c] = h[c]
  <2>1. PICK i \in 1 .. Len(h) : i = 1
    BY <1>1, <1>2
  <2>2. Distinct(h) /\ m \in 1 .. Len(h)
    BY <1>1, <1>2 DEF GoodHeap
  <2>3. s = Swap(h, i, m)
    BY <1>3, <2>1
  <2>4. /\ s \in Seq(R) /\ Len(s) = Len(h) /\ s[i] = h[m] /\ s[m] = h[i]
        /\ \A c \in 1 .. Len(h) : c # i /\ c # m => s[c] = h[c]
        /\ Range(s) = Range(h) /\ (Distinct(h) => Distinct(s))
    <3>1. Swapped(R, h, i, m, Swap(h, i, m))
      BY <2>2, SwapIs
    <3> QED BY <2>3, <3>1 DEF Swapped
  <2> QED BY <1>1, <2>1, <2>2, <2>4
<1>5. PICK g : g = Front(s)
  OBVIOUS
<1>6. g \in Seq(R) /\ Len(g) = m - 1 /\ \A c \in 1 .. m - 1 : g[c] = s[c]
  BY <1>2, <1>4, <1>5 DEF Front
<1>7. PopRest(sign, h) = Down(sign, g)
  BY <1>1, <1>3, <1>5 DEF PopRest
<1>8. Distinct(g)
  BY <1>2, <1>4, <1>6 DEF Distinct
<1>9. Range(g) = Range(h) \ {h[1]}
  <2>1. Range(g) = {g[c] : c \in 1 .. m - 1} /\ Range(s) = {s[c] : c \in 1 .. m}
    BY <1>4, <1>6, RangeIs
  <2>2. \A c \in 1 .. m - 1 : s[c] # s[m]
    BY <1>2, <1>4 DEF Distinct
  <2>3. \A y \in Range(g) : y \in Range(s) \ {s[m]}
    BY <1>2, <1>6, <2>1, <2>2
  <2>4. ASSUME NEW c \in 1 .. m, s[c] # s[m] PROVE s[c] \in Range(g)
    <3>1. c \in 1 .. m - 1
      BY <1>2, <2>4
    <3> QED BY <1>6, <2>1, <3>1
  <2>5. \A y \in Range(s) \ {s[m]} : y \in Range(g)
    BY <2>1, <2>4
  <2> QED BY <1>4, <2>3, <2>5
<1>10. CASE m = 1
  <2>1. g = <<>>
    BY <1>6, <1>10
  <2> QED BY <1>1, <1>6, <1>7, <1>9, <1>10, <2>1, DownEmpty, EmptyHeap
<1>11. CASE m > 1
  <2>1. g # <<>>
    BY <1>2, <1>6, <1>11
  <2>2. Sinking(sign, g, 1)
    <3>1. ASSUME NEW c \in 2 .. m - 1, c \div 2 # 1 PROVE ~Above(sign, g[c], g[c \div 2])
      <4>1. PICK d : d = c \div 2
        OBVIOUS
      <4>2. d \in 2 .. m - 1 /\ d \in 1 .. m - 1 /\ c \in 1 .. m - 1 /\ d # m /\ c # m
        BY <1>2, <3>1, <4>1
      <4>3. ~Above(sign, h[c], h[d])
        BY <1>1, <1>2, <4>1, <4>2 DEF GoodHeap, IsHeap
      <4>4. g[c] = h[c] /\ g[d] = h[d]
        BY <1>2, <1>4, <1>6, <4>2
      <4> QED BY <4>1, <4>3, <4>4
    <3> QED BY <1>6, <3>1 DEF Sinking
  <2> QED BY <1>1, <1>6, <1>7, <1>8, <1>9, <2>1, <2>2, DownSorts DEF GoodHeap
<1> QED BY <1>2, <1>10, <1>11

PopRun(sign, h) ==
  CHOOSE left : left = [r \in 0 .. Len(h) |-> IF r = 0 THEN h ELSE PopRest(sign, left[r - 1])]

LEMMA PopAllRun ==
  ASSUME NEW sign, NEW h PROVE PopAll(sign, h) = [i \in 1 .. Len(h) |-> PopRun(sign, h)[i - 1][1]]
BY DEF PopAll, PopRun

\* The heaps that the rounds of PopAll leave.
IsPopRun(R, sign, h, left) ==
  /\ left[0] = h
  /\ \A i \in 0 .. Len(h) : left[i] \in Seq(R) /\ GoodHeap(sign, left[i]) /\ Len(left[i]) = Len(h) - i
  /\ \A i \in 1 .. Len(h) : Range(left[i]) = Range(left[i - 1]) \ {left[i - 1][1]}

LEMMA PopRunIs ==
  ASSUME NEW R, Comparable(R), NEW sign \in {1, -1}, NEW h \in Seq(R), GoodHeap(sign, h)
  PROVE  IsPopRun(R, sign, h, PopRun(sign, h))
<1>1. PICK m : m = Len(h)
  OBVIOUS
<1>2. m \in Nat
  BY <1>1
<1> DEFINE D == {s \in Seq(R) : GoodHeap(sign, s)}
           step(s) == IF s = <<>> THEN s ELSE PopRest(sign, s)
           F == [i \in 1 .. m |-> [s \in D |-> step(s)]]
<1>3. h \in D
  OBVIOUS
<1>4. ASSUME NEW s \in D, s # <<>>
      PROVE  /\ PopRest(sign, s) \in D /\ Len(PopRest(sign, s)) = Len(s) - 1
             /\ Range(PopRest(sign, s)) = Range(s) \ {s[1]}
  BY <1>4, PopRestIs
<1>5. \A s \in D : s \in Seq(R) /\ GoodHeap(sign, s) /\ Len(s) \in Nat /\ (Len(s) > 0 => s # <<>>)
  OBVIOUS
<1> HIDE DEF D
<1>6. F \in [1 .. m -> [D -> D]]
  BY <1>4
<1>7. \A i \in 1 .. m : \A s \in D : F[i][s] = step(s)
  OBVIOUS
<1>8. PICK f : f \in [0 .. m -> D] /\ f[0] = h /\ \A i \in 1 .. m : f[i] = F[i][f[i - 1]]
  <2> HIDE DEF F
  <2>1. \E g : IsRun(m, D, h, F, g)
    BY <1>2, <1>3, <1>6, Iteration
  <2> QED BY <2>1 DEF IsRun
<1> HIDE DEF F
<1> DEFINE G == {i \in 0 .. m : Len(f[i]) = m - i}
<1>9. ASSUME NEW i \in 1 .. m, i - 1 \in G PROVE i \in G /\ f[i] = PopRest(sign, f[i - 1])
  <2>1. f[i - 1] \in D /\ Len(f[i - 1]) = m - (i - 1) /\ i - 1 \in 0 .. m
    BY <1>2, <1>8, <1>9
  <2>2. PICK s \in D : s = f[i - 1]
    BY <2>1
  <2>3. s # <<>>
    BY <1>2, <1>5, <2>1, <2>2
  <2>4. f[i] = step(s)
    BY <1>7, <1>8, <2>2
  <2>5. f[i] = PopRest(sign, s)
    BY <2>3, <2>4
  <2>6. Len(f[i]) = m - i
    BY <1>2, <1>4, <2>1, <2>2, <2>3, <2>5
  <2> QED BY <1>2, <2>2, <2>5, <2>6
<1>10. \A i \in 0 .. m : i \in G
  <2>1. 0 \in G
    BY <1>1, <1>2, <1>8
  <2>2. \A i \in 1 .. m : i - 1 \in G => i \in G
    BY <1>9
  <2> HIDE DEF G
  <2> QED BY <1>2, <2>1, <2>2, Rounds
<1>11. ASSUME NEW i \in 1 .. m PROVE f[i] = PopRest(sign, f[i - 1])
  <2>1. i - 1 \in 0 .. m
    BY <1>2
  <2> HIDE DEF G
  <2> QED BY <1>9, <1>10, <2>1
<1>12. f = [r \in 0 .. m |-> IF r = 0 THEN h ELSE PopRest(sign, f[r - 1])]
  <2>1. ASSUME NEW r \in 0 .. m PROVE f[r] = IF r = 0 THEN h ELSE PopRest(sign, f[r - 1])
    <3>1. CASE r = 0
      BY <1>8, <3>1
    <3>2. CASE r # 0
      <4>1. r \in 1 .. m
        BY <1>2, <3>2
      <4> QED BY <1>11, <3>2, <4>1
    <3> QED BY <3>1, <3>2
  <2> QED BY <1>8, <2>1
<1>13. PICK left : left = PopRun(sign, h)
  OBVIOUS
<1>14. left = [r \in 0 .. m |-> IF r = 0 THEN h ELSE PopRest(sign, left[r - 1])]
  BY <1>1, <1>12, <1>13 DEF PopRun
<1>15. left[0] = h
  BY <1>2, <1>14
<1>16. ASSUME NEW i \in 1 .. m PROVE left[i] = PopRest(sign, left[i - 1])
  <2>1. i \in 0 .. m /\ i # 0
    BY <1>2
  <2> QED BY <1>14, <2>1
<1> DEFINE H == {i \in 0 .. m : /\ left[i] \in D /\ Len(left[i]) = m - i}
<1>17. ASSUME NEW i \in 1 .. m, i - 1 \in H
       PROVE  i \in H /\ Range(left[i]) = Range(left[i - 1]) \ {left[i - 1][1]}
  <2>1. left[i - 1] \in D /\ Len(left[i - 1]) = m - (i - 1)
    BY <1>17
  <2>2. PICK s \in D : s = left[i - 1]
    BY <2>1
  <2>3. s # <<>>
    BY <1>2, <1>5, <2>1, <2>2
  <2>4. left[i] = PopRest(sign, s)
    BY <1>16, <2>2
  <2>5. left[i] \in D /\ Len(left[i]) = m - i
    BY <1>2, <1>4, <2>1, <2>2, <2>3, <2>4
  <2>6. Range(left[i]) = Range(s) \ {s[1]}
    BY <1>4, <2>3, <2>4
  <2> QED BY <1>2, <2>2, <2>5, <2>6
<1>18. \A i \in 0 .. m : i \in H
  <2>1. 0 \in H
    BY <1>1, <1>2, <1>3, <1>15
  <2>2. \A i \in 1 .. m : i - 1 \in H => i \in H
    BY <1>17
  <2> HIDE DEF H
  <2> QED BY <1>2, <2>1, <2>2, Rounds
<1>19. \A i \in 0 .. m : left[i] \in Seq(R) /\ GoodHeap(sign, left[i]) /\ Len(left[i]) = m - i
  BY <1>5, <1>18
<1>20. ASSUME NEW i \in 1 .. m PROVE Range(left[i]) = Range(left[i - 1]) \ {left[i - 1][1]}
  <2>1. i - 1 \in 0 .. m
    BY <1>2
  <2> HIDE DEF H
  <2> QED BY <1>17, <1>18, <2>1
<1>21. IsPopRun(R, sign, h, left)
  BY <1>1, <1>15, <1>19, <1>20 DEF IsPopRun
<1> QED BY <1>13, <1>21

\* PopAll returns the items of the heap, each once, in their order.
LEMMA PopAllIs ==
  ASSUME NEW R, Comparable(R), NEW sign \in {1, -1}, NEW h \in Seq(R), GoodHeap(sign, h)
  PROVE  /\ PopAll(sign, h) \in Seq(R) /\ Len(PopAll(sign, h)) = Len(h)
         /\ Distinct(PopAll(sign, h)) /\ Range(PopAll(sign, h)) = Range(h)
         /\ \A i, j \in 1 .. Len(h) : i <= j => ~Above(sign, PopAll(sign, h)[j], PopAll(sign, h)[i])
<1>1. PICK m : m = Len(h)
  OBVIOUS
<1>2. m \in Nat
  BY <1>1
<1>3. PICK left : left = PopRun(sign, h)
  OBVIOUS
<1>4. /\ left[0] = h
      /\ \A i \in 0 .. m : left[i] \in Seq(R) /\ GoodHeap(sign, left[i]) /\ Len(left[i]) = m - i
      /\ \A i \in 1 .. m : Range(left[i]) = Range(left[i - 1]) \ {left[i - 1][1]}
  <2>1. IsPopRun(R, sign, h, left)
    BY <1>3, PopRunIs
  <2> QED BY <1>1, <2>1 DEF IsPopRun
<1>5. PICK out : out = [i \in 1 .. m |-> left[i - 1][1]]
  OBVIOUS
<1>6. PopAll(sign, h) = out
  BY <1>1, <1>3, <1>5, PopAllRun
<1>7. ASSUME NEW i \in 1 .. m
      PROVE  /\ out[i] = left[i - 1][1] /\ out[i] \in R /\ out[i] \in Range(left[i - 1])
             /\ \A y \in Range(left[i - 1]) : ~Above(sign, y, out[i])
  <2>1. PICK s \in Seq(R) : s = left[i - 1] /\ GoodHeap(sign, s) /\ Len(s) >= 1
    BY <1>2, <1>4
  <2>2. out[i] = s[1] /\ 1 \in 1 .. Len(s)
    BY <1>5, <2>1
  <2>3. Range(s) = {s[c] : c \in 1 .. Len(s)} /\ s[1] \in R
    BY <2>1, <2>2, RangeIs
  <2>4. IsHeap(sign, s)
    BY <2>1 DEF GoodHeap
  <2>5. \A c \in 1 .. Len(s) : ~Above(sign, s[c], s[1])
    BY <2>4, TopOfHeap
  <2> QED BY <1>5, <2>1, <2>2, <2>3, <2>5
<1>8. out \in [1 .. m -> R]
  BY <1>5, <1>7
<1>9. out \in Seq(R) /\ Len(out) = m
  BY <1>2, <1>8
\* The heaps that are left shrink.
<1>10. \A i, j \in 0 .. m : i <= j => Range(left[j]) \subseteq Range(left[i])
  <2> DEFINE G == {j \in 0 .. m : \A i \in 0 .. m : i <= j => Range(left[j]) \subseteq Range(left[i])}
  <2>1. 0 \in G
    BY <1>2
  <2>2. ASSUME NEW j \in 1 .. m, j - 1 \in G PROVE j \in G
    <3>1. Range(left[j]) \subseteq Range(left[j - 1])
      BY <1>4
    <3>2. ASSUME NEW i \in 0 .. m, i <= j PROVE Range(left[j]) \subseteq Range(left[i])
      <4>1. CASE i = j
        BY <4>1
      <4>2. CASE i <= j - 1
        BY <2>2, <3>1, <4>2
      <4> QED BY <1>2, <3>2, <4>1, <4>2
    <3> QED BY <1>2, <3>2
  <2>3. \A j \in 0 .. m : j \in G
    <3> HIDE DEF G
    <3>1. \A j \in 1 .. m : j - 1 \in G => j \in G
      BY <2>2
    <3> QED BY <1>2, <2>1, <3>1, Rounds
  <2> QED BY <2>3
<1>11. ASSUME NEW i \in 1 .. m, NEW j \in 1 .. m, i <= j
       PROVE  /\ ~Above(sign, out[j], out[i])
              /\ i # j => out[j] # out[i]
  <2>1. i - 1 \in 0 .. m /\ j - 1 \in 0 .. m /\ i - 1 <= j - 1
    BY <1>2, <1>11
  <2>2. out[j] \in Range(left[i - 1])
    BY <1>7, <1>10, <2>1
  <2>3. ~Above(sign, out[j], out[i])
    BY <1>7, <2>2
  <2>4. ASSUME i # j PROVE out[j] # out[i]
    <3>1. i \in 0 .. m /\ i <= j - 1
      BY <1>2, <1>11, <2>4
    <3>2. out[j] \in Range(left[i])
      BY <1>7, <1>10, <2>1, <3>1
    <3> QED BY <1>4, <1>7, <3>2
  <2> QED BY <2>3, <2>4
<1>12. Range(out) = {out[i] : i \in 1 .. m} /\ Range(h) = {h[i] : i \in 1 .. m}
  BY <1>1, <1>9, RangeIs
<1>13. \A i \in 1 .. m : out[i] \in Range(h)
  <2> SUFFICES ASSUME NEW i \in 1 .. m PROVE out[i] \in Range(h)
    OBVIOUS
  <2>1. i - 1 \in 0 .. m /\ 0 \in 0 .. m /\ 0 <= i - 1
    BY <1>2
  <2> QED BY <1>4, <1>7, <1>10, <2>1
<1>14. Distinct(out)
  <2>1. ASSUME NEW i \in 1 .. m, NEW j \in 1 .. m, out[i].id = out[j].id PROVE i = j
    <3>1. PICK a \in 1 .. m : out[i] = h[a]
      BY <1>12, <1>13
    <3>2. PICK b \in 1 .. m : out[j] = h[b]
      BY <1>12, <1>13
    <3>3. a = b
      BY <1>1, <2>1, <3>1, <3>2 DEF GoodHeap, Distinct
    <3>4. out[i] = out[j]
      BY <3>1, <3>2, <3>3
    <3>5. i <= j \/ j <= i
      BY <1>2
    <3> QED BY <1>11, <3>4, <3>5
  <2> QED BY <1>9, <2>1 DEF Distinct
\* What is not left was returned.
<1>15. Range(h) \subseteq Range(out)
  <2> DEFINE G == {j \in 0 .. m : \A y \in Range(h) : y \in Range(left[j]) \/ y \in Range(out)}
  <2>1. 0 \in G
    BY <1>2, <1>4
  <2>2. ASSUME NEW j \in 1 .. m, j - 1 \in G PROVE j \in G
    <3>1. Range(left[j]) = Range(left[j - 1]) \ {out[j]} /\ out[j] \in Range(out)
      BY <1>4, <1>7, <1>12
    <3> QED BY <1>2, <2>2, <3>1
  <2>3. \A j \in 0 .. m : j \in G
    <3> HIDE DEF G
    <3>1. \A j \in 1 .. m : j - 1 \in G => j \in G
      BY <2>2
    <3> QED BY <1>2, <2>1, <3>1, Rounds
  <2>4. m \in G /\ m \in 0 .. m
    BY <1>2, <2>3
  <2>5. PICK s \in Seq(R) : s = left[m] /\ Len(s) = 0
    BY <1>2, <1>4, <2>4
  <2>6. Range(s) = {}
    BY <2>5, RangeIs
  <2> QED BY <2>4, <2>5, <2>6
<1>16. Range(out) \subseteq Range(h)
  BY <1>12, <1>13
<1> QED BY <1>1, <1>6, <1>9, <1>11, <1>14, <1>15, <1>16

----------------------------------------------------------------------------
(* The list of the k best.                                                 *)

Ids(h) == {h[i].id : i \in 1 .. Len(h)}

\* The items of R: ids of I with their distances.
Items(I, d) == {x \in [id : I, distance : Int] : x.distance = d[x.id]}

LEMMA ItemsAre ==
  ASSUME NEW I, NEW d, \A v \in I : d[v] \in Int
  PROVE  /\ Comparable(Items(I, d))
         /\ \A x \in Items(I, d) : x.id \in I /\ x.distance = d[x.id] /\ x = [id |-> x.id, distance |-> d[x.id]]
         /\ \A v \in I : [id |-> v, distance |-> d[v]] \in Items(I, d)
<1>1. Comparable(Items(I, d))
  BY DEF Comparable, Items
<1>2. ASSUME NEW x \in Items(I, d)
      PROVE  x.id \in I /\ x.distance = d[x.id] /\ x = [id |-> x.id, distance |-> d[x.id]]
  <2>1. x \in [id : I, distance : Int] /\ x.distance = d[x.id]
    BY DEF Items
  <2>2. x = [id |-> x.id, distance |-> x.distance]
    BY <2>1
  <2> QED BY <2>1, <2>2
<1>3. ASSUME NEW v \in I PROVE [id |-> v, distance |-> d[v]] \in Items(I, d)
  BY DEF Items
<1> QED BY <1>1, <1>2, <1>3

\* h is a heap, the worst on top, of the k best of V by d, or of all of V
\* if there are fewer than k.
KBest(I, d, h, k, V) ==
  /\ h \in Seq(Items(I, d)) /\ GoodHeap(-1, h)
  /\ Ids(h) \subseteq V /\ Len(h) <= k
  /\ Len(h) < k => Ids(h) = V
  /\ \A v \in V \ Ids(h) : d[v] >= h[1].distance

LEMMA IdsAre ==
  ASSUME NEW R, NEW h \in Seq(R)
  PROVE  Ids(h) = {y.id : y \in Range(h)}
<1>1. Range(h) = {h[c] : c \in 1 .. Len(h)}
  BY RangeIs
<1>2. \A v \in Ids(h) : v \in {y.id : y \in Range(h)}
  BY <1>1 DEF Ids
<1>3. \A v \in {y.id : y \in Range(h)} : v \in Ids(h)
  BY <1>1 DEF Ids
<1> QED BY <1>2, <1>3

\* With distinct ids there are as many ids as items.
LEMMA CountIds ==
  ASSUME NEW R, NEW h \in Seq(R), Distinct(h)
  PROVE  IsFiniteSet(Ids(h)) /\ Cardinality(Ids(h)) = Len(h)
<1> DEFINE f == [i \in 1 .. Len(h) |-> h[i].id]
<1>1. Len(h) \in Nat
  OBVIOUS
<1>2. f \in Bijection(1 .. Len(h), Ids(h))
  <2>1. f \in [1 .. Len(h) -> Ids(h)]
    BY DEF Ids
  <2>2. \A a, b \in 1 .. Len(h) : f[a] = f[b] => a = b
    BY DEF Distinct
  <2>3. \A v \in Ids(h) : \E a \in 1 .. Len(h) : f[a] = v
    BY DEF Ids
  <2> HIDE DEF f
  <2> QED BY <2>1, <2>2, <2>3 DEF Bijection, Injection, Surjection, IsInjective
<1> HIDE DEF f
<1>3. ExistsBijection(1 .. Len(h), Ids(h))
  BY <1>2 DEF ExistsBijection
<1> QED BY <1>1, <1>3, FS_CountingElements, FS_NatBijection

\* Of n ids kept out of V, the count is the lesser of k and the number of V.
LEMMA KBestCount ==
  ASSUME NEW I, NEW d, NEW h, NEW k \in Nat, NEW V, IsFiniteSet(V), KBest(I, d, h, k, V)
  PROVE  /\ Len(h) = IF k <= Cardinality(V) THEN k ELSE Cardinality(V)
         /\ Cardinality(Ids(h)) = Len(h) /\ Cardinality(V) \in Nat
<1>1. h \in Seq(Items(I, d)) /\ Distinct(h) /\ Ids(h) \subseteq V /\ Len(h) <= k /\ (Len(h) < k => Ids(h) = V)
  BY DEF KBest, GoodHeap
<1>2. IsFiniteSet(Ids(h)) /\ Cardinality(Ids(h)) = Len(h) /\ Len(h) \in Nat
  BY <1>1, CountIds
<1>3. Cardinality(V) \in Nat /\ Cardinality(Ids(h)) <= Cardinality(V)
  BY <1>1, FS_Subset, FS_CardinalityType
<1> QED BY <1>1, <1>2, <1>3

\* An empty list is the best of nothing.
LEMMA KBestEmpty ==
  ASSUME NEW I, NEW d, NEW k \in Nat PROVE KBest(I, d, <<>>, k, {})
<1>1. <<>> \in Seq(Items(I, d)) /\ Len(<<>>) = 0 /\ 1 .. 0 = {}
  OBVIOUS
<1>2. Ids(<<>>) = {}
  BY <1>1 DEF Ids
<1> QED BY <1>1, <1>2, EmptyHeap DEF KBest

\* What topKAccumulator.Add and the search loop do with the distance of an id
\* that was not seen before keeps the list of the k best.
LEMMA KBestAdd ==
  ASSUME NEW I, NEW d, \A v \in I : d[v] \in Int,
         NEW h, NEW k \in Nat \ {0}, NEW V, V \subseteq I, KBest(I, d, h, k, V),
         NEW v \in I, v \notin V, NEW x, x = [id |-> v, distance |-> d[v]]
  PROVE  /\ Len(h) < k => KBest(I, d, Push(-1, h, x), k, V \cup {v})
         /\ Len(h) >= k /\ x.distance < h[1].distance => KBest(I, d, ReplaceTop(-1, h, x), k, V \cup {v})
         /\ Len(h) >= k /\ x.distance >= h[1].distance => KBest(I, d, h, k, V \cup {v})
<1> DEFINE R == Items(I, d)
<1>1. /\ h \in Seq(R) /\ GoodHeap(-1, h) /\ Ids(h) \subseteq V /\ Len(h) <= k
      /\ (Len(h) < k => Ids(h) = V) /\ \A u \in V \ Ids(h) : d[u] >= h[1].distance
  BY DEF KBest
<1>2. Comparable(R) /\ x \in R /\ x.id = v /\ x.distance = d[v]
  BY ItemsAre
<1>3. Ids(h) = {y.id : y \in Range(h)} /\ v \notin Ids(h)
  BY <1>1, IdsAre
<1>4. \A y \in Range(h) : y.id # x.id
  BY <1>2, <1>3
<1>5. Len(h) \in Nat /\ (Len(h) >= 1 => h # <<>>)
  BY <1>1
<1>6. -1 \in {1, -1}
  OBVIOUS
<1> HIDE DEF R
<1>7. ASSUME Len(h) < k PROVE KBest(I, d, Push(-1, h, x), k, V \cup {v})
  <2>1. PICK g : g = Push(-1, h, x)
    OBVIOUS
  <2>2. g \in Seq(R) /\ GoodHeap(-1, g) /\ Len(g) = Len(h) + 1 /\ Range(g) = Range(h) \cup {x}
    BY <1>1, <1>2, <1>4, <1>6, <2>1, PushIs
  <2>3. Ids(g) = {y.id : y \in Range(g)}
    BY <2>2, IdsAre
  <2>4. Ids(g) = Ids(h) \cup {v}
    BY <1>2, <1>3, <2>2, <2>3
  <2>5. Ids(g) = V \cup {v}
    BY <1>1, <1>7, <2>4
  <2>6. Len(g) <= k
    BY <1>5, <1>7, <2>2
  <2> QED BY <2>1, <2>2, <2>5, <2>6 DEF KBest, R
<1>8. ASSUME Len(h) >= k, x.distance < h[1].distance PROVE KBest(I, d, ReplaceTop(-1, h, x), k, V \cup {v})
  <2>1. PICK g : g = ReplaceTop(-1, h, x)
    OBVIOUS
  <2>2. h # <<>> /\ Len(h) = k /\ h[1] \in Range(h) /\ 1 \in 1 .. Len(h)
    BY <1>1, <1>5, <1>8, RangeIs
  <2>3. g \in Seq(R) /\ GoodHeap(-1, g) /\ Len(g) = Len(h) /\ Range(g) = (Range(h) \ {h[1]}) \cup {x}
    BY <1>1, <1>2, <1>4, <1>6, <2>1, <2>2, ReplaceTopIs
  <2>4. Ids(g) = {y.id : y \in Range(g)}
    BY <2>3, IdsAre
  <2>5. Ids(g) \subseteq V \cup {v} /\ v \in Ids(g)
    BY <1>1, <1>2, <1>3, <2>3, <2>4
  <2>6. g[1] \in Range(g) /\ g[1] \in R /\ h[1] \in R
    BY <2>2, <2>3, <1>1, RangeIs
  <2>7. \A y \in Range(h) : y \in R /\ y.distance <= h[1].distance
    <3>1. Range(h) = {h[c] : c \in 1 .. Len(h)} /\ \A c \in 1 .. Len(h) : h[c] \in R
      BY <1>1, RangeIs
    <3>2. \A c \in 1 .. Len(h) : ~Above(-1, h[c], h[1])
      BY <1>1, <1>2, <1>6, TopOfHeap DEF GoodHeap
    <3>3. \A c \in 1 .. Len(h) : ~ (h[1].distance < h[c].distance)
      BY <1>2, <2>6, <3>1, <3>2, AboveIs
    <3> QED BY <1>2, <2>6, <3>1, <3>3 DEF Comparable
  <2>8. g[1].distance <= h[1].distance
    BY <1>2, <1>8, <2>3, <2>6, <2>7 DEF Comparable
  <2>9. ASSUME NEW u \in V \cup {v}, u \notin Ids(g) PROVE d[u] >= g[1].distance
    <3>1. u \in V
      BY <2>5, <2>9
    <3>2. CASE u \in Ids(h)
      <4>1. PICK y \in Range(h) : y.id = u
        BY <1>3, <3>2
      <4>2. y = h[1]
        BY <2>3, <2>4, <2>9, <4>1
      <4>3. d[u] = h[1].distance
        BY <2>6, <4>1, <4>2, ItemsAre DEF R
      <4> QED BY <1>2, <2>6, <2>8, <4>3 DEF Comparable
    <3>3. CASE u \notin Ids(h)
      <4>1. d[u] >= h[1].distance
        BY <1>1, <3>1, <3>3
      <4>2. d[u] \in Int
        BY <3>1
      <4> QED BY <1>2, <2>6, <2>8, <4>1, <4>2 DEF Comparable
    <3> QED BY <3>2, <3>3
  <2> QED BY <2>1, <2>2, <2>3, <2>5, <2>9 DEF KBest, R
<1>9. ASSUME Len(h) >= k, x.distance >= h[1].distance PROVE KBest(I, d, h, k, V \cup {v})
  <2>1. Len(h) = k
    BY <1>1, <1>5, <1>9
  <2> QED BY <1>1, <1>2, <1>9, <2>1 DEF KBest, R
<1> QED BY <1>7, <1>8, <1>9

\* The heap, emptied from the worst: the same items, the nearest first.
LEMMA Drained ==
  ASSUME NEW R, Comparable(R), NEW h \in Seq(R), GoodHeap(-1, h), NEW s, s = Reverse(PopAll(-1, h))
  PROVE  /\ s \in Seq(R) /\ Len(s) = Len(h) /\ Distinct(s) /\ Range(s) = Range(h)
         /\ \A i, j \in 1 .. Len(s) : i <= j => s[i].distance <= s[j].distance
<1>1. PICK o : o = PopAll(-1, h)
  OBVIOUS
<1>2. PICK m : m = Len(h)
  OBVIOUS
<1>3. -1 \in {1, -1}
  OBVIOUS
<1>4. /\ o \in Seq(R) /\ Len(o) = Len(h) /\ Distinct(o) /\ Range(o) = Range(h)
      /\ \A i, j \in 1 .. Len(h) : i <= j => ~Above(-1, o[j], o[i])
  BY <1>1, <1>3, PopAllIs
<1>5. m \in Nat /\ Len(o) = m /\ \A i \in 1 .. m : (m - i) + 1 \in 1 .. m /\ o[i] \in R
  BY <1>2, <1>4
<1>6. s = [i \in 1 .. m |-> o[(m - i) + 1]]
  BY <1>1, <1>5 DEF Reverse
<1>7. s \in [1 .. m -> R]
  BY <1>5, <1>6
<1>8. s \in Seq(R) /\ Len(s) = m
  BY <1>5, <1>7
<1>9. Range(s) = Range(o)
  <2>1. Range(s) = {s[i] : i \in 1 .. m} /\ Range(o) = {o[i] : i \in 1 .. m}
    BY <1>4, <1>5, <1>8, RangeIs
  <2>2. \A i \in 1 .. m : s[i] \in Range(o)
    BY <1>5, <1>6, <2>1
  <2>3. ASSUME NEW i \in 1 .. m PROVE o[i] \in Range(s)
    <3>1. PICK j \in 1 .. m : j = (m - i) + 1
      BY <1>5
    <3>2. s[j] = o[i]
      BY <1>5, <1>6, <3>1
    <3> QED BY <2>1, <3>2
  <2>4. \A y \in Range(s) : y \in Range(o)
    BY <2>1, <2>2
  <2>5. \A y \in Range(o) : y \in Range(s)
    BY <2>1, <2>3
  <2> QED BY <2>4, <2>5
<1>10. Distinct(s)
  <2>1. ASSUME NEW i \in 1 .. m, NEW j \in 1 .. m, s[i].id = s[j].id PROVE i = j
    <3>1. o[(m - i) + 1].id = o[(m - j) + 1].id
      BY <1>6, <2>1
    <3>2. (m - i) + 1 = (m - j) + 1
      BY <1>4, <1>5, <3>1 DEF Distinct
    <3> QED BY <1>5, <3>2
  <2> QED BY <1>8, <2>1 DEF Distinct
<1>11. ASSUME NEW i \in 1 .. m, NEW j \in 1 .. m, i <= j PROVE s[i].distance <= s[j].distance
  <2>1. PICK a, b : a = (m - i) + 1 /\ b = (m - j) + 1
    OBVIOUS
  <2>2. a \in 1 .. m /\ b \in 1 .. m /\ b <= a
    BY <1>5, <1>11, <2>1
  <2>3. ~Above(-1, o[a], o[b]) /\ o[a] \in R /\ o[b] \in R
    BY <1>2, <1>4, <1>5, <2>2
  <2>4. o[a].distance \in Int /\ o[b].distance \in Int
    BY <2>3 DEF Comparable
  <2>5. ~ (o[b].distance < o[a].distance)
    BY <2>3, AboveIs
  <2>6. s[i] = o[a] /\ s[j] = o[b]
    BY <1>6, <2>1
  <2> QED BY <2>4, <2>5, <2>6
<1> QED BY <1>2, <1>4, <1>8, <1>9, <1>10, <1>11

\* The distances in a list of the k best are numbers, and the top is the worst.
TopIsWorst(I, d, h) ==
  \A c \in 1 .. Len(h) : /\ h[c].distance \in Int /\ h[c].distance <= h[1].distance
                         /\ h[c].id \in I /\ h[c].distance = d[h[c].id]

LEMMA KBestTop ==
  ASSUME NEW I, NEW d, \A v \in I : d[v] \in Int, NEW h, NEW k, NEW V, KBest(I, d, h, k, V)
  PROVE  Len(h) \in Nat /\ Len(h) <= k /\ TopIsWorst(I, d, h)
<1> DEFINE R == Items(I, d)
<1>1. h \in Seq(R) /\ IsHeap(-1, h) /\ Len(h) <= k
  BY DEF KBest, GoodHeap
<1>2. Comparable(R) /\ -1 \in {1, -1}
  BY ItemsAre
<1>3. \A x \in R : x.id \in I /\ x.distance = d[x.id]
  BY ItemsAre
<1> HIDE DEF R
<1>4. ASSUME NEW c \in 1 .. Len(h)
      PROVE  /\ h[c].distance \in Int /\ h[c].distance <= h[1].distance
             /\ h[c].id \in I /\ h[c].distance = d[h[c].id]
  <2>1. h[c] \in R /\ h[1] \in R
    BY <1>1
  <2>2. ~Above(-1, h[c], h[1])
    BY <1>1, <1>2, TopOfHeap
  <2>3. ~ (h[1].distance < h[c].distance)
    BY <1>2, <2>1, <2>2, AboveIs
  <2>4. h[c].distance \in Int /\ h[1].distance \in Int
    BY <1>2, <2>1 DEF Comparable
  <2> QED BY <1>3, <2>1, <2>3, <2>4
<1> QED BY <1>1, <1>4 DEF TopIsWorst

LEMMA MinOfTwo ==
  ASSUME NEW a \in Int, NEW b \in Int
  PROVE  Min({a, b}) = IF a <= b THEN a ELSE b
<1>1. PICK m : m = IF a <= b THEN a ELSE b
  OBVIOUS
<1>2. m \in {a, b} /\ \A y \in {a, b} : m <= y
  BY <1>1
<1>3. \A x \in {a, b} : (\A y \in {a, b} : x <= y) => x = m
  BY <1>1
<1>4. \E x \in {a, b} : \A y \in {a, b} : x <= y
  BY <1>2
<1>5. Min({a, b}) \in {a, b} /\ \A y \in {a, b} : Min({a, b}) <= y
  BY <1>4 DEF Min
<1> QED BY <1>1, <1>3, <1>5



----------------------------------------------------------------------------
(* Loops with an invariant for each round.                                 *)

\* g is a run that is in D[i] after round i.
IsRunIn(m, D, x, F, g) ==
  /\ DOMAIN g = 0 .. m /\ g = [i \in 0 .. m |-> g[i]] /\ g[0] = x
  /\ \A i \in 0 .. m : g[i] \in D[i]
  /\ \A i \in 1 .. m : g[i] = F[i][g[i - 1]]

LEMMA RunIn ==
  ASSUME NEW m \in Nat, NEW D, NEW x, x \in D[0],
         NEW F, \A i \in 1 .. m : F[i] \in [D[i - 1] -> D[i]]
  PROVE  \E g : IsRunIn(m, D, x, F, g)
<1> DEFINE E == UNION {D[i] : i \in 0 .. m}
           H == [i \in 1 .. m |-> [s \in E |-> IF s \in D[i - 1] THEN F[i][s] ELSE s]]
<1>1. \A i \in 0 .. m : D[i] \subseteq E
  OBVIOUS
<1>2. x \in E
  BY <1>1
<1>3. ASSUME NEW i \in 1 .. m, NEW s \in E, s \in D[i - 1] PROVE F[i][s] \in D[i]
  BY <1>3
<1> HIDE DEF E
<1>4. H \in [1 .. m -> [E -> E]]
  <2>1. ASSUME NEW i \in 1 .. m, NEW s \in E PROVE (IF s \in D[i - 1] THEN F[i][s] ELSE s) \in E
    BY <1>1, <1>3
  <2> QED BY <2>1
<1>5. \A i \in 1 .. m : \A s \in E : H[i][s] = IF s \in D[i - 1] THEN F[i][s] ELSE s
  OBVIOUS
<1> HIDE DEF H
<1>6. PICK g : IsRun(m, E, x, H, g)
  BY <1>2, <1>4, Iteration
<1>7. g \in [0 .. m -> E] /\ g[0] = x /\ \A i \in 1 .. m : g[i] = H[i][g[i - 1]]
  BY <1>6 DEF IsRun
<1>8. ASSUME NEW i \in 1 .. m, g[i - 1] \in D[i - 1] PROVE g[i] = F[i][g[i - 1]] /\ g[i] \in D[i]
  <2>1. g[i - 1] \in E
    BY <1>7
  <2> QED BY <1>3, <1>5, <1>7, <1>8, <2>1
<1> DEFINE G == {i \in 0 .. m : g[i] \in D[i]}
<1>9. \A i \in 0 .. m : i \in G
  <2>1. 0 \in G
    BY <1>7
  <2>2. \A i \in 1 .. m : i - 1 \in G => i \in G
    BY <1>8
  <2> HIDE DEF G
  <2> QED BY <2>1, <2>2, Rounds
<1>10. \A i \in 1 .. m : i - 1 \in 0 .. m
  OBVIOUS
<1>11. IsRunIn(m, D, x, F, g)
  BY <1>7, <1>8, <1>9, <1>10 DEF IsRunIn
<1> QED BY <1>11

----------------------------------------------------------------------------
(* Distances.                                                              *)

SumRun(a, b) ==
  CHOOSE sum : sum = [i \in 0 .. Len(a) |-> IF i = 0 THEN 0 ELSE sum[i - 1] + (a[i] - b[i]) * (a[i] - b[i])]

LEMMA DistanceIs == ASSUME NEW a, NEW b PROVE SquaredDistance(a, b) = SumRun(a, b)[Len(a)]
BY DEF SquaredDistance, SumRun

LEMMA DistanceType ==
  ASSUME NEW a \in Seq(Int), NEW b \in Seq(Int), Len(a) = Len(b)
  PROVE  SquaredDistance(a, b) \in Int
<1>1. PICK m : m = Len(a)
  OBVIOUS
<1>2. m \in Nat /\ \A i \in 1 .. m : a[i] \in Int /\ b[i] \in Int
  BY <1>1
<1> DEFINE D == [i \in 0 .. m |-> Int]
           F == [i \in 1 .. m |-> [s \in Int |-> s + (a[i] - b[i]) * (a[i] - b[i])]]
<1>3. \A i \in 1 .. m : i - 1 \in 0 .. m /\ i \in 0 .. m
  BY <1>2
<1>4. \A i \in 1 .. m : F[i] \in [D[i - 1] -> D[i]] /\ \A s \in Int : F[i][s] = s + (a[i] - b[i]) * (a[i] - b[i])
  BY <1>2, <1>3
<1>5. 0 \in D[0] /\ \A i \in 0 .. m : D[i] = Int
  BY <1>2
<1> HIDE DEF D, F
<1>6. PICK f : IsRunIn(m, D, 0, F, f)
  BY <1>2, <1>4, <1>5, RunIn
<1>7. /\ f = [i \in 0 .. m |-> f[i]] /\ f[0] = 0 /\ \A i \in 0 .. m : f[i] \in Int
      /\ \A i \in 1 .. m : f[i] = f[i - 1] + (a[i] - b[i]) * (a[i] - b[i])
  <2>1. /\ f = [i \in 0 .. m |-> f[i]] /\ f[0] = 0 /\ \A i \in 0 .. m : f[i] \in D[i]
        /\ \A i \in 1 .. m : f[i] = F[i][f[i - 1]]
    BY <1>6 DEF IsRunIn
  <2>2. \A i \in 0 .. m : f[i] \in Int
    BY <1>5, <2>1
  <2>3. ASSUME NEW i \in 1 .. m PROVE f[i] = f[i - 1] + (a[i] - b[i]) * (a[i] - b[i])
    <3>1. f[i - 1] \in Int
      BY <1>3, <2>2
    <3> QED BY <1>4, <2>1, <3>1
  <2> QED BY <2>1, <2>2, <2>3
<1>8. f = [i \in 0 .. m |-> IF i = 0 THEN 0 ELSE f[i - 1] + (a[i] - b[i]) * (a[i] - b[i])]
  <2>1. ASSUME NEW i \in 0 .. m PROVE f[i] = IF i = 0 THEN 0 ELSE f[i - 1] + (a[i] - b[i]) * (a[i] - b[i])
    <3>1. i = 0 \/ i \in 1 .. m
      BY <1>2
    <3> QED BY <1>2, <1>7, <3>1
  <2> QED BY <1>7, <2>1
<1>9. PICK sum : sum = SumRun(a, b)
  OBVIOUS
<1>10. sum = [i \in 0 .. m |-> IF i = 0 THEN 0 ELSE sum[i - 1] + (a[i] - b[i]) * (a[i] - b[i])]
  BY <1>1, <1>8, <1>9 DEF SumRun
<1> DEFINE G == {i \in 0 .. m : sum[i] \in Int}
<1>11. \A i \in 0 .. m : i \in G
  <2>1. 0 \in G
    BY <1>2, <1>10
  <2>2. ASSUME NEW i \in 1 .. m, i - 1 \in G PROVE i \in G
    <3>1. i \in 0 .. m /\ i # 0
      BY <1>2
    <3>2. sum[i] = sum[i - 1] + (a[i] - b[i]) * (a[i] - b[i])
      BY <1>10, <3>1
    <3> QED BY <1>2, <2>2, <3>1, <3>2
  <2> HIDE DEF G
  <2> QED BY <1>2, <2>1, <2>2, Rounds
<1> QED BY <1>1, <1>2, <1>9, <1>11, DistanceIs

----------------------------------------------------------------------------
(* The choice of the nearest.                                              *)

\* b is the first of the nearest among c[i .. e].
IsBest(c, i, e, b) ==
  /\ b \in i .. e
  /\ \A j \in i .. e : c[b].distance <= c[j].distance
  /\ \A j \in i .. (b - 1) : c[b].distance < c[j].distance

LEMMA BestIs ==
  ASSUME NEW R, Comparable(R), NEW c \in Seq(R), NEW i \in 1 .. Len(c)
  PROVE  IsBest(c, i, Len(c), Best(c, i))
<1>1. PICK m : m = Len(c) - i
  OBVIOUS
<1>2. m \in Nat /\ Len(c) \in Nat /\ i \in Nat /\ i >= 1 /\ i + m = Len(c)
  BY <1>1
<1>3. \A j \in i .. Len(c) : c[j].distance \in Int
  <2>1. \A j \in i .. Len(c) : c[j] \in R
    BY <1>2
  <2> QED BY <2>1 DEF Comparable
<1> DEFINE G == {r \in 0 .. m : \E b : IsBest(c, i, i + r, b)}
<1>4. 0 \in G
  <2>1. i .. i + 0 = {i} /\ i .. (i - 1) = {} /\ i \in i .. Len(c)
    BY <1>2
  <2>2. c[i].distance <= c[i].distance
    BY <1>3, <2>1
  <2>3. IsBest(c, i, i + 0, i)
    BY <2>1, <2>2 DEF IsBest
  <2> QED BY <1>2, <2>3
<1>5. ASSUME NEW r \in 1 .. m, r - 1 \in G PROVE r \in G
  <2>1. PICK b : IsBest(c, i, i + (r - 1), b)
    BY <1>5
  <2>2. PICK e : e = i + r
    OBVIOUS
  <2>3. /\ b \in i .. e - 1 /\ \A j \in i .. e - 1 : c[b].distance <= c[j].distance
        /\ \A j \in i .. (b - 1) : c[b].distance < c[j].distance
    <3>1. i + (r - 1) = e - 1
      BY <1>2, <2>2
    <3> QED BY <2>1, <3>1 DEF IsBest
  <2>4. e \in Nat /\ e \in i .. Len(c) /\ b \in Nat /\ b \in i .. Len(c) /\ \A j \in i .. e : j \in i .. e - 1 \/ j = e
    BY <1>2, <2>2, <2>3
  <2>5. c[e].distance \in Int /\ c[b].distance \in Int /\ \A j \in i .. e - 1 : c[j].distance \in Int
    BY <1>2, <1>3, <2>4
  <2>6. CASE c[e].distance < c[b].distance
    <3>1. \A j \in i .. (e - 1) : c[e].distance < c[j].distance
      BY <2>3, <2>5, <2>6
    <3>2. \A j \in i .. e : c[e].distance <= c[j].distance
      BY <2>4, <2>5, <3>1
    <3>3. IsBest(c, i, e, e)
      BY <1>2, <2>4, <3>1, <3>2 DEF IsBest
    <3> QED BY <2>2, <3>3
  <2>7. CASE ~ (c[e].distance < c[b].distance)
    <3>1. \A j \in i .. e : c[b].distance <= c[j].distance
      BY <2>3, <2>4, <2>5, <2>7
    <3>2. b \in i .. e
      BY <2>3, <2>4
    <3>3. IsBest(c, i, e, b)
      BY <2>3, <3>1, <3>2 DEF IsBest
    <3> QED BY <2>2, <3>3
  <2> QED BY <2>6, <2>7
<1>6. m \in G
  <2> HIDE DEF G
  <2>1. \A r \in 0 .. m : r \in G
    BY <1>2, <1>4, <1>5, Rounds
  <2> QED BY <1>2, <2>1
<1>7. PICK b : IsBest(c, i, Len(c), b)
  BY <1>2, <1>6
<1>8. /\ b \in i .. Len(c) /\ \A j \in i .. Len(c) : c[b].distance <= c[j].distance
      /\ \A j \in i .. (b - 1) : c[b].distance < c[j].distance
  BY <1>7 DEF IsBest
<1>9. /\ Best(c, i) \in i .. Len(c)
      /\ \A j \in i .. Len(c) : c[Best(c, i)].distance <= c[j].distance
      /\ \A j \in i .. (Best(c, i) - 1) : c[Best(c, i)].distance < c[j].distance
  BY <1>8 DEF Best
<1> QED BY <1>9 DEF IsBest

\* The first i places of s have the i nearest items of c, nearest first.
Selected(R, c, i, s) ==
  /\ s \in Seq(R) /\ Len(s) = Len(c) /\ Range(s) = Range(c) /\ Distinct(s)
  /\ \A a \in 1 .. i : \A b \in a .. Len(c) : s[a].distance <= s[b].distance

LEMMA SelectStepIs ==
  ASSUME NEW R, Comparable(R), NEW c \in Seq(R), NEW i \in 1 .. Len(c), NEW s, Selected(R, c, i - 1, s)
  PROVE  Selected(R, c, i, SelectStep(s, i))
<1>1. PICK L : L = Len(c)
  OBVIOUS
<1>2. L \in Nat /\ i \in 1 .. L /\ i \in Nat
  BY <1>1
<1>3. /\ s \in Seq(R) /\ Len(s) = L /\ Range(s) = Range(c) /\ Distinct(s)
      /\ \A a \in 1 .. i - 1 : \A b \in a .. L : s[a].distance <= s[b].distance
  BY <1>1 DEF Selected
<1>4. PICK b : b = Best(s, i)
  OBVIOUS
<1>5. b \in i .. L /\ \A j \in i .. L : s[b].distance <= s[j].distance
  <2>1. IsBest(s, i, Len(s), b)
    BY <1>2, <1>3, <1>4, BestIs
  <2> QED BY <1>3, <2>1 DEF IsBest
<1>6. b \in 1 .. L /\ b \in Nat
  BY <1>2, <1>5
<1>7. PICK u : u = Swap(s, i, b)
  OBVIOUS
<1>8. /\ u \in Seq(R) /\ Len(u) = L /\ u[i] = s[b] /\ u[b] = s[i] /\ Range(u) = Range(s) /\ Distinct(u)
      /\ \A j \in 1 .. L : j # i /\ j # b => u[j] = s[j]
  <2>1. i \in 1 .. Len(s) /\ b \in 1 .. Len(s)
    BY <1>2, <1>3, <1>6
  <2>2. Swapped(R, s, i, b, Swap(s, i, b))
    BY <1>3, <2>1, SwapIs
  <2> QED BY <1>3, <1>7, <2>2 DEF Swapped
<1>9. ASSUME NEW a \in 1 .. i, NEW e \in a .. L PROVE u[a].distance <= u[e].distance
  <2>1. a \in Nat /\ e \in Nat /\ e \in 1 .. L /\ a \in 1 .. L
    BY <1>2
  <2>2. CASE a = i
    <3>1. PICK f \in i .. L : u[e] = s[f]
      <4>1. CASE e = i
        BY <1>5, <1>8, <4>1
      <4>2. CASE e = b
        BY <1>2, <1>8, <4>2
      <4>3. CASE e # i /\ e # b
        BY <1>8, <2>1, <2>2, <4>3
      <4> QED BY <4>1, <4>2, <4>3
    <3> QED BY <1>5, <1>8, <2>2, <3>1
  <2>3. CASE a # i
    <3>1. a \in 1 .. i - 1 /\ a # b
      BY <1>2, <1>5, <2>1, <2>3
    <3>2. u[a] = s[a]
      BY <1>8, <2>1, <2>3, <3>1
    <3>3. PICK f \in a .. L : u[e] = s[f]
      <4>1. CASE e = i
        BY <1>2, <1>5, <1>6, <1>8, <2>1, <3>1, <4>1
      <4>2. CASE e = b
        BY <1>2, <1>8, <2>1, <3>1, <4>2
      <4>3. CASE e # i /\ e # b
        BY <1>8, <2>1, <4>3
      <4> QED BY <4>1, <4>2, <4>3
    <3> QED BY <1>3, <3>1, <3>2, <3>3
  <2> QED BY <2>2, <2>3
<1>10. Selected(R, c, i, u)
  BY <1>1, <1>3, <1>8, <1>9 DEF Selected
<1> QED BY <1>4, <1>7, <1>10 DEF SelectStep

SelectRun(c, m) == CHOOSE sel : sel = [i \in 0 .. m |-> IF i = 0 THEN c ELSE SelectStep(sel[i - 1], i)]

LEMMA SelectNearestIs == ASSUME NEW c, NEW m PROVE SelectNearest(c, m) = SelectRun(c, m)[m]
BY DEF SelectNearest, SelectRun

LEMMA Selects ==
  ASSUME NEW R, Comparable(R), NEW c \in Seq(R), Distinct(c), NEW m \in 0 .. Len(c)
  PROVE  Selected(R, c, m, SelectNearest(c, m))
<1>1. m \in Nat /\ Len(c) \in Nat
  OBVIOUS
<1> DEFINE Ds(i) == {s \in Seq(R) : Selected(R, c, i, s)}
           D == [i \in 0 .. m |-> Ds(i)]
           F == [i \in 1 .. m |-> [s \in Ds(i - 1) |-> SelectStep(s, i)]]
<1>2. \A i \in 1 .. m : i - 1 \in 0 .. m /\ i \in 0 .. m /\ i \in 1 .. Len(c)
  BY <1>1
<1>3. ASSUME NEW i \in 1 .. m, NEW s \in Ds(i - 1) PROVE SelectStep(s, i) \in Ds(i)
  <2>1. Selected(R, c, i - 1, s) /\ i \in 1 .. Len(c)
    BY <1>2
  <2>2. Selected(R, c, i, SelectStep(s, i))
    BY <2>1, SelectStepIs
  <2> QED BY <2>2 DEF Selected
<1>4. c \in Ds(0)
  <2>1. 1 .. 0 = {}
    OBVIOUS
  <2> QED BY <2>1 DEF Selected
<1> HIDE DEF Ds
<1>5. \A i \in 0 .. m : D[i] = Ds(i)
  OBVIOUS
<1>6. \A i \in 1 .. m : F[i] \in [Ds(i - 1) -> Ds(i)] /\ \A s \in Ds(i - 1) : F[i][s] = SelectStep(s, i)
  BY <1>3
<1> HIDE DEF D, F
<1>7. PICK f : IsRunIn(m, D, c, F, f)
  <2>1. \A i \in 1 .. m : F[i] \in [D[i - 1] -> D[i]]
    BY <1>2, <1>5, <1>6
  <2>2. c \in D[0]
    BY <1>1, <1>4, <1>5
  <2> QED BY <1>1, <2>1, <2>2, RunIn
<1>8. /\ f = [i \in 0 .. m |-> f[i]] /\ f[0] = c /\ \A i \in 0 .. m : f[i] \in D[i]
      /\ \A i \in 1 .. m : f[i] = F[i][f[i - 1]]
  BY <1>7 DEF IsRunIn
<1>9. ASSUME NEW i \in 1 .. m PROVE f[i] = SelectStep(f[i - 1], i)
  <2>1. f[i - 1] \in Ds(i - 1)
    BY <1>2, <1>5, <1>8
  <2> QED BY <1>6, <1>8, <2>1
<1>10. f = [i \in 0 .. m |-> IF i = 0 THEN c ELSE SelectStep(f[i - 1], i)]
  <2>1. ASSUME NEW i \in 0 .. m PROVE f[i] = IF i = 0 THEN c ELSE SelectStep(f[i - 1], i)
    <3>1. i = 0 \/ i \in 1 .. m
      BY <1>1
    <3> QED BY <1>8, <1>9, <3>1
  <2> QED BY <1>8, <2>1
<1>11. PICK sel : sel = SelectRun(c, m)
  OBVIOUS
<1>12. sel = [i \in 0 .. m |-> IF i = 0 THEN c ELSE SelectStep(sel[i - 1], i)]
  BY <1>10, <1>11 DEF SelectRun
<1> DEFINE G == {i \in 0 .. m : sel[i] \in Ds(i)}
<1>13. \A i \in 0 .. m : i \in G
  <2>1. 0 \in G
    BY <1>1, <1>4, <1>12
  <2>2. ASSUME NEW i \in 1 .. m, i - 1 \in G PROVE i \in G
    <3>1. sel[i - 1] \in Ds(i - 1)
      BY <2>2
    <3>2. sel[i] = SelectStep(sel[i - 1], i)
      BY <1>2, <1>12
    <3> QED BY <1>2, <1>3, <3>1, <3>2
  <2> HIDE DEF G
  <2> QED BY <1>1, <2>1, <2>2, Rounds
<1>14. sel[m] \in Ds(m)
  BY <1>1, <1>13
<1> QED BY <1>11, <1>14, SelectNearestIs DEF Ds

\* nearestIDs, nearestExternalIDs and nearestResults: r is the m nearest of the
\* items of c, nearest first.
IsNearest(R, c, m, r) ==
  /\ r \in Seq(R) /\ Len(r) = (IF m <= Len(c) THEN m ELSE Len(c)) /\ Distinct(r) /\ Range(r) \subseteq Range(c)
  /\ \A i \in 1 .. Len(r) - 1 : r[i].distance <= r[i + 1].distance
  /\ \A y \in Range(c) \ Range(r) : Len(r) >= 1 => r[Len(r)].distance <= y.distance

LEMMA NearestIs ==
  ASSUME NEW R, Comparable(R), NEW c \in Seq(R), Distinct(c), NEW m \in Nat
  PROVE  IsNearest(R, c, m, Nearest(c, m))
<1>1. PICK L, e : L = Len(c) /\ e = Min({m, Len(c)})
  OBVIOUS
<1>2. L \in Nat /\ e \in Nat /\ e <= L /\ e = (IF m <= L THEN m ELSE L) /\ e \in 0 .. L
  BY <1>1, MinOfTwo
<1>3. PICK s : s = SelectNearest(c, e)
  OBVIOUS
<1>4. /\ s \in Seq(R) /\ Len(s) = L /\ Range(s) = Range(c) /\ Distinct(s)
      /\ \A a \in 1 .. e : \A b \in a .. L : s[a].distance <= s[b].distance
  <2>1. Selected(R, c, e, s)
    BY <1>1, <1>2, <1>3, Selects
  <2> QED BY <1>1, <2>1 DEF Selected
<1>5. PICK r : r = SubSeq(s, 1, e)
  OBVIOUS
<1>6. r \in Seq(R) /\ Len(r) = e /\ \A i \in 1 .. e : r[i] = s[i]
  BY <1>2, <1>4, <1>5
<1>7. Nearest(c, m) = r
  BY <1>1, <1>3, <1>5 DEF Nearest
<1>8. Range(s) = {s[i] : i \in 1 .. L} /\ Range(r) = {r[i] : i \in 1 .. e}
  BY <1>4, <1>6, RangeIs
<1>9. Range(r) \subseteq Range(c)
  BY <1>2, <1>4, <1>6, <1>8
<1>10. Distinct(r)
  BY <1>2, <1>4, <1>6 DEF Distinct
<1>11. ASSUME NEW i \in 1 .. e - 1 PROVE r[i].distance <= r[i + 1].distance
  <2>1. i \in 1 .. e /\ i + 1 \in 1 .. e /\ i + 1 \in i .. L
    BY <1>2
  <2> QED BY <1>4, <1>6, <2>1
<1>12. ASSUME NEW y \in Range(c) \ Range(r), e >= 1 PROVE r[e].distance <= y.distance
  <2>1. PICK j \in 1 .. L : y = s[j]
    BY <1>4, <1>8
  <2>2. j \notin 1 .. e
    BY <1>6, <1>8, <1>12, <2>1
  <2>3. j \in e .. L /\ e \in 1 .. e
    BY <1>2, <1>12, <2>2
  <2> QED BY <1>4, <1>6, <2>1, <2>3
<1> QED BY <1>1, <1>2, <1>6, <1>7, <1>9, <1>10, <1>11, <1>12 DEF IsNearest

\* The slots of a list of pairs.
LEMMA SlotIs ==
  ASSUME NEW R, NEW h \in Seq(R)
  PROVE  /\ Slot(h) = [i \in 1 .. Len(h) |-> h[i].id] /\ Len(Slot(h)) = Len(h)
         /\ Range(Slot(h)) = Ids(h)
<1>1. Slot(h) = [i \in 1 .. Len(h) |-> h[i].id] /\ Len(h) \in Nat
  BY DEF Slot
<1>2. Len(Slot(h)) = Len(h)
  BY <1>1
<1>3. Range(Slot(h)) = Ids(h)
  BY <1>1 DEF Range, Ids
<1> QED BY <1>1, <1>2, <1>3

\* liveCandidates: s is what the first i of c leave.
IsLive(R, c, i, s) ==
  /\ s \in Seq(R) /\ Distinct(s)
  /\ Range(s) = {c[j] : j \in {j \in 1 .. i : c[j].id \notin deleted}}

LEMMA LiveStepIs ==
  ASSUME NEW R, NEW c \in Seq(R), Distinct(c), NEW i \in 1 .. Len(c), NEW s, IsLive(R, c, i - 1, s)
  PROVE  IsLive(R, c, i, LiveStep(s, c[i]))
<1>1. /\ s \in Seq(R) /\ Distinct(s)
      /\ Range(s) = {c[j] : j \in {j \in 1 .. i - 1 : c[j].id \notin deleted}}
  BY DEF IsLive
<1>2. i \in Nat /\ c[i] \in R /\ \A j \in 1 .. i : j \in 1 .. i - 1 \/ j = i
  OBVIOUS
<1>3. CASE c[i].id \in deleted
  <2>1. {c[j] : j \in {j \in 1 .. i : c[j].id \notin deleted}} = Range(s)
    BY <1>1, <1>2, <1>3
  <2> QED BY <1>1, <1>3, <2>1 DEF LiveStep, IsLive
<1>4. CASE c[i].id \notin deleted
  <2>1. PICK u : u = Append(s, c[i])
    OBVIOUS
  <2>2. /\ u \in Seq(R) /\ Len(u) = Len(s) + 1 /\ u[Len(s) + 1] = c[i] /\ Len(s) \in Nat
        /\ \A j \in 1 .. Len(s) : u[j] = s[j]
    BY <1>1, <1>2, <2>1
  <2>3. Range(u) = {u[j] : j \in 1 .. Len(u)} /\ Range(s) = {s[j] : j \in 1 .. Len(s)}
    BY <1>1, <2>2, RangeIs
  <2>4. Range(u) = Range(s) \cup {c[i]}
    <3>1. \A j \in 1 .. Len(u) : j \in 1 .. Len(s) \/ j = Len(s) + 1
      BY <2>2
    <3>2. ASSUME NEW y \in Range(u) PROVE y \in Range(s) \cup {c[i]}
      BY <2>2, <2>3, <3>1
    <3>3. ASSUME NEW y \in Range(s) \cup {c[i]} PROVE y \in Range(u)
      <4>1. \A j \in 1 .. Len(s) : j \in 1 .. Len(u)
        BY <2>2
      <4>2. Len(s) + 1 \in 1 .. Len(u)
        BY <2>2
      <4> QED BY <2>2, <2>3, <4>1, <4>2
    <3> QED BY <3>2, <3>3
  <2>5. {c[j] : j \in {j \in 1 .. i : c[j].id \notin deleted}} = Range(s) \cup {c[i]}
    BY <1>1, <1>2, <1>4
  <2>6. \A y \in Range(s) : y.id # c[i].id
    <3>1. ASSUME NEW j \in 1 .. i - 1 PROVE c[j].id # c[i].id
      BY DEF Distinct
    <3> QED BY <1>1, <3>1
  <2>7. \A j \in 1 .. Len(s) : u[j].id # c[i].id
    BY <2>2, <2>3, <2>6
  <2>8. ASSUME NEW a \in 1 .. Len(u), NEW b \in 1 .. Len(u), u[a].id = u[b].id PROVE a = b
    <3>1. a = Len(s) + 1 \/ a \in 1 .. Len(s)
      BY <2>2
    <3>2. b = Len(s) + 1 \/ b \in 1 .. Len(s)
      BY <2>2
    <3> QED BY <1>1, <2>2, <2>7, <2>8, <3>1, <3>2 DEF Distinct
  <2>9. Distinct(u)
    BY <2>8 DEF Distinct
  <2> QED BY <1>4, <2>1, <2>2, <2>4, <2>5, <2>9 DEF LiveStep, IsLive
<1> QED BY <1>3, <1>4

LiveRun(c) == CHOOSE live : live = [i \in 0 .. Len(c) |-> IF i = 0 THEN <<>> ELSE LiveStep(live[i - 1], c[i])]

LEMMA LiveCandidatesIs ==
  ASSUME NEW c PROVE LiveCandidates(c) = IF deletedCount = 0 THEN c ELSE LiveRun(c)[Len(c)]
BY DEF LiveCandidates, LiveRun

LEMMA LiveRunIs ==
  ASSUME NEW R, NEW c \in Seq(R), Distinct(c)
  PROVE  IsLive(R, c, Len(c), LiveRun(c)[Len(c)])
<1>1. PICK m : m = Len(c)
  OBVIOUS
<1>2. m \in Nat
  BY <1>1
<1> DEFINE Ds(i) == {s \in Seq(R) : IsLive(R, c, i, s)}
           D == [i \in 0 .. m |-> Ds(i)]
           F == [i \in 1 .. m |-> [s \in Ds(i - 1) |-> LiveStep(s, c[i])]]
<1>3. \A i \in 1 .. m : i - 1 \in 0 .. m /\ i \in 0 .. m
  BY <1>2
<1>4. ASSUME NEW i \in 1 .. m, NEW s \in Ds(i - 1) PROVE LiveStep(s, c[i]) \in Ds(i)
  <2>1. IsLive(R, c, i, LiveStep(s, c[i]))
    BY <1>1, LiveStepIs
  <2> QED BY <2>1 DEF IsLive
<1>5. <<>> \in Ds(0)
  <2>1. <<>> \in Seq(R) /\ Len(<<>>) = 0 /\ 1 .. 0 = {} /\ DOMAIN <<>> = {}
    OBVIOUS
  <2> QED BY <2>1 DEF IsLive, Distinct, Range
<1> HIDE DEF Ds
<1>6. \A i \in 0 .. m : D[i] = Ds(i)
  OBVIOUS
<1>7. \A i \in 1 .. m : F[i] \in [Ds(i - 1) -> Ds(i)] /\ \A s \in Ds(i - 1) : F[i][s] = LiveStep(s, c[i])
  BY <1>4
<1> HIDE DEF D, F
<1>8. PICK f : IsRunIn(m, D, <<>>, F, f)
  <2>1. \A i \in 1 .. m : F[i] \in [D[i - 1] -> D[i]]
    BY <1>3, <1>6, <1>7
  <2>2. <<>> \in D[0]
    BY <1>2, <1>5, <1>6
  <2> QED BY <1>2, <2>1, <2>2, RunIn
<1>9. /\ f = [i \in 0 .. m |-> f[i]] /\ f[0] = <<>> /\ \A i \in 0 .. m : f[i] \in D[i]
      /\ \A i \in 1 .. m : f[i] = F[i][f[i - 1]]
  BY <1>8 DEF IsRunIn
<1>10. ASSUME NEW i \in 1 .. m PROVE f[i] = LiveStep(f[i - 1], c[i])
  <2>1. f[i - 1] \in Ds(i - 1)
    BY <1>3, <1>6, <1>9
  <2> QED BY <1>7, <1>9, <2>1
<1>11. f = [i \in 0 .. m |-> IF i = 0 THEN <<>> ELSE LiveStep(f[i - 1], c[i])]
  <2>1. ASSUME NEW i \in 0 .. m PROVE f[i] = IF i = 0 THEN <<>> ELSE LiveStep(f[i - 1], c[i])
    <3>1. i = 0 \/ i \in 1 .. m
      BY <1>2
    <3> QED BY <1>9, <1>10, <3>1
  <2> QED BY <1>9, <2>1
<1>12. PICK live : live = LiveRun(c)
  OBVIOUS
<1>13. live = [i \in 0 .. m |-> IF i = 0 THEN <<>> ELSE LiveStep(live[i - 1], c[i])]
  BY <1>1, <1>11, <1>12 DEF LiveRun
<1> DEFINE G == {i \in 0 .. m : live[i] \in Ds(i)}
<1>14. \A i \in 0 .. m : i \in G
  <2>1. 0 \in G
    BY <1>2, <1>5, <1>13
  <2>2. ASSUME NEW i \in 1 .. m, i - 1 \in G PROVE i \in G
    <3>1. live[i - 1] \in Ds(i - 1)
      BY <2>2
    <3>2. live[i] = LiveStep(live[i - 1], c[i])
      BY <1>3, <1>13
    <3> QED BY <1>3, <1>4, <3>1, <3>2
  <2> HIDE DEF G
  <2> QED BY <1>2, <2>1, <2>2, Rounds
<1>15. live[m] \in Ds(m)
  BY <1>2, <1>14
<1> QED BY <1>1, <1>12, <1>15 DEF Ds

\* The candidates without a tombstone.
LEMMA LiveIs ==
  ASSUME NEW R, NEW c \in Seq(R), Distinct(c), deletedCount = 0 <=> deleted = {},
         NEW s, s = LiveCandidates(c)
  PROVE  /\ s \in Seq(R) /\ Distinct(s) /\ Range(s) \subseteq Range(c)
         /\ Ids(s) = Ids(c) \ deleted
<1>1. Range(c) = {c[j] : j \in 1 .. Len(c)}
  BY RangeIs
<1>2. IsLive(R, c, Len(c), s)
  <2>1. CASE deletedCount = 0
    <3>1. s = c
      BY <2>1, LiveCandidatesIs
    <3>2. {c[j] : j \in {j \in 1 .. Len(c) : c[j].id \notin deleted}} = Range(c)
      BY <1>1, <2>1
    <3> QED BY <3>1, <3>2 DEF IsLive
  <2>2. CASE deletedCount # 0
    <3>1. s = LiveRun(c)[Len(c)]
      BY <2>2, LiveCandidatesIs
    <3> QED BY <3>1, LiveRunIs
  <2> QED BY <2>1, <2>2
<1>3. /\ s \in Seq(R) /\ Distinct(s)
      /\ Range(s) = {c[j] : j \in {j \in 1 .. Len(c) : c[j].id \notin deleted}}
  BY <1>2 DEF IsLive
<1>4. Range(s) \subseteq Range(c)
  BY <1>1, <1>3
<1>5. Ids(s) = {y.id : y \in Range(s)} /\ Ids(c) = {y.id : y \in Range(c)}
  BY <1>3, IdsAre
<1>6. Ids(s) = Ids(c) \ deleted
  <2>1. ASSUME NEW v \in Ids(s) PROVE v \in Ids(c) \ deleted
    BY <1>1, <1>3, <1>5
  <2>2. ASSUME NEW v \in Ids(c) \ deleted PROVE v \in Ids(s)
    BY <1>1, <1>3, <1>5
  <2> QED BY <2>1, <2>2
<1> QED BY <1>3, <1>4, <1>6

----------------------------------------------------------------------------
(* The visited marks.                                                      *)

Workspace == [marks : Seq(Nat), epoch : Nat]

\* No mark is of a later epoch.
GoodWs(w) == w \in Workspace /\ w.epoch < Epochs /\ \A i \in 1 .. Len(w.marks) : w.marks[i] <= w.epoch

Marked(w) == {s \in 1 .. Len(w.marks) : w.marks[s] = w.epoch}

LEMMA NewIs == GoodWs(NewWorkspace) /\ Len(NewWorkspace.marks) = 0
<1>1. NewWorkspace.marks = <<>> /\ NewWorkspace.epoch = 0 /\ NewWorkspace \in Workspace
  BY DEF NewWorkspace, Workspace
<1>2. Len(<<>>) = 0 /\ 1 .. 0 = {} /\ 0 < Epochs
  BY AnnAssumption
<1> QED BY <1>1, <1>2 DEF GoodWs

\* After reset nothing is visited, whatever calls used the workspace before and
\* however often the epoch went round.
Fresh(w, m) == GoodWs(w) /\ Len(w.marks) = m /\ \A i \in 1 .. m : w.marks[i] # w.epoch

LEMMA NextEpoch ==
  ASSUME NEW e \in Nat, NEW m \in Nat, e < m
  PROVE  (e + 1) % m = IF e + 1 = m THEN 0 ELSE e + 1
OBVIOUS

LEMMA ResetIs ==
  ASSUME NEW w, GoodWs(w), NEW m \in Nat, Len(w.marks) <= m
  PROVE  Fresh(Reset(w, m), m)
<1>1. Epochs \in Nat /\ Epochs >= 2
  BY AnnAssumption
<1>2. /\ w.marks \in Seq(Nat) /\ w.epoch \in Nat /\ w.epoch < Epochs
      /\ \A i \in 1 .. Len(w.marks) : w.marks[i] \in Nat /\ w.marks[i] <= w.epoch
  BY DEF GoodWs, Workspace
<1>3. PICK marks, epoch :
        /\ marks = (IF Len(w.marks) < m THEN [i \in 1 .. m |-> 0] ELSE w.marks)
        /\ epoch = (w.epoch + 1) % Epochs
  OBVIOUS
<1>4. marks \in Seq(Nat) /\ Len(marks) = m /\ \A i \in 1 .. m : marks[i] \in Nat /\ marks[i] <= w.epoch
  <2>1. CASE Len(w.marks) < m
    BY <1>2, <1>3, <2>1
  <2>2. CASE ~ (Len(w.marks) < m)
    BY <1>2, <1>3, <2>2
  <2> QED BY <2>1, <2>2
<1>5. epoch = IF w.epoch + 1 = Epochs THEN 0 ELSE w.epoch + 1
  BY <1>1, <1>2, <1>3, NextEpoch
<1>6. DOMAIN marks = 1 .. m
  BY <1>4
<1>7. Reset(w, m) = IF epoch = 0 THEN [marks |-> [i \in 1 .. m |-> 0], epoch |-> 1]
                    ELSE [marks |-> marks, epoch |-> epoch]
  BY <1>3, <1>6 DEF Reset
<1>8. CASE epoch = 0
  <2>1. PICK z : z = [i \in 1 .. m |-> 0]
    OBVIOUS
  <2>2. z \in Seq(Nat) /\ Len(z) = m /\ \A i \in 1 .. m : z[i] = 0
    BY <2>1
  <2>3. PICK v : v = [marks |-> z, epoch |-> 1]
    OBVIOUS
  <2>4. v \in Workspace /\ v.marks = z /\ v.epoch = 1
    BY <2>2, <2>3 DEF Workspace
  <2>5. Fresh(v, m)
    BY <1>1, <2>2, <2>4 DEF Fresh, GoodWs
  <2> QED BY <1>7, <1>8, <2>1, <2>3, <2>5
<1>9. CASE epoch # 0
  <2>1. epoch = w.epoch + 1 /\ epoch \in Nat /\ epoch < Epochs
    BY <1>1, <1>2, <1>5, <1>9
  <2>2. PICK v : v = [marks |-> marks, epoch |-> epoch]
    OBVIOUS
  <2>3. v \in Workspace /\ v.marks = marks /\ v.epoch = epoch
    BY <1>4, <2>1, <2>2 DEF Workspace
  <2>4. \A i \in 1 .. m : marks[i] <= epoch /\ marks[i] # epoch
    BY <1>2, <1>4, <2>1
  <2>5. Fresh(v, m)
    BY <1>4, <2>1, <2>3, <2>4 DEF Fresh, GoodWs
  <2> QED BY <1>7, <1>9, <2>2, <2>5
<1> QED BY <1>8, <1>9

LEMMA MarkIs ==
  ASSUME NEW w, GoodWs(w), NEW s \in 1 .. Len(w.marks), NEW v, v = MarkVisited(w, s)
  PROVE  GoodWs(v) /\ Len(v.marks) = Len(w.marks) /\ Marked(v) = Marked(w) \cup {s}
<1>1. w \in Workspace /\ w.marks \in Seq(Nat) /\ w.epoch \in Nat /\ Len(w.marks) \in Nat
  BY DEF GoodWs, Workspace
<1>2. PICK z : z = [w.marks EXCEPT ![s] = w.epoch]
  OBVIOUS
<1>3. z \in Seq(Nat) /\ Len(z) = Len(w.marks) /\ z[s] = w.epoch /\ \A i \in 1 .. Len(z) : i # s => z[i] = w.marks[i]
  BY <1>1, <1>2
<1>4. v = [marks |-> z, epoch |-> w.epoch]
  <2>1. v = [w EXCEPT !.marks = z]
    BY <1>2 DEF MarkVisited
  <2> QED BY <1>1, <2>1 DEF Workspace
<1>5. v \in Workspace /\ v.marks = z /\ v.epoch = w.epoch
  BY <1>1, <1>3, <1>4 DEF Workspace
<1>6. \A i \in 1 .. Len(z) : z[i] <= w.epoch
  BY <1>1, <1>3 DEF GoodWs
<1>7. GoodWs(v)
  BY <1>5, <1>6 DEF GoodWs
<1>8. \A i \in 1 .. Len(z) : z[i] = w.epoch <=> w.marks[i] = w.epoch \/ i = s
  BY <1>3
<1>9. Marked(v) = Marked(w) \cup {s}
  BY <1>3, <1>5, <1>8 DEF Marked
<1> QED BY <1>3, <1>5, <1>7, <1>9

----------------------------------------------------------------------------
(* The graph.                                                              *)

GraphNode == [id : ID, vec : Vectors, nbrs : Seq(Nat)]

\* The neighbours of a node are other nodes, each once.
GoodLinks(ns, s) ==
  /\ \A i \in 1 .. Len(ns[s].nbrs) : ns[s].nbrs[i] \in 1 .. Len(ns) /\ ns[s].nbrs[i] # s
  /\ \A i, j \in 1 .. Len(ns[s].nbrs) : ns[s].nbrs[i] = ns[s].nbrs[j] => i = j

Graph(ns, dm) ==
  ns \in Seq(GraphNode) /\ \A s \in 1 .. Len(ns) : Len(ns[s].vec) = dm /\ GoodLinks(ns, s)

LEMMA NodeIs ==
  ASSUME NEW ns, NEW dm, Graph(ns, dm), NEW s \in 1 .. Len(ns)
  PROVE  /\ ns[s] \in GraphNode /\ ns[s].id \in ID /\ ns[s].vec \in Vectors /\ Len(ns[s].vec) = dm
         /\ ns[s].nbrs \in Seq(Nat) /\ Len(ns[s].nbrs) \in Nat
         /\ Range(ns[s].nbrs) = {ns[s].nbrs[i] : i \in 1 .. Len(ns[s].nbrs)}
         /\ Range(ns[s].nbrs) \subseteq 1 .. Len(ns)
<1>1. ns[s] \in GraphNode /\ Len(ns[s].vec) = dm /\ GoodLinks(ns, s)
  BY DEF Graph
<1>2. ns[s].id \in ID /\ ns[s].vec \in Vectors /\ ns[s].nbrs \in Seq(Nat)
  BY <1>1 DEF GraphNode
<1>3. Len(ns[s].nbrs) \in Nat
  BY <1>2
<1>4. Range(ns[s].nbrs) = {ns[s].nbrs[i] : i \in 1 .. Len(ns[s].nbrs)}
  BY <1>2, RangeIs
<1> QED BY <1>1, <1>2, <1>3, <1>4 DEF GoodLinks

Dists(ns, q) == [s \in 1 .. Len(ns) |-> SquaredDistance(q, ns[s].vec)]

LEMMA DistsAre ==
  ASSUME NEW ns, NEW dm, Graph(ns, dm), NEW q \in Vectors, Len(q) = dm
  PROVE  /\ \A s \in 1 .. Len(ns) : Dists(ns, q)[s] \in Int
         /\ \A s \in 1 .. Len(ns) : Pair(ns, s, q) = [id |-> s, distance |-> Dists(ns, q)[s]]
<1>1. q \in Seq(Int)
  BY AnnAssumption
<1>2. ASSUME NEW s \in 1 .. Len(ns) PROVE Dists(ns, q)[s] = SquaredDistance(q, ns[s].vec) /\ Dists(ns, q)[s] \in Int
  <2>1. Dists(ns, q)[s] = SquaredDistance(q, ns[s].vec)
    BY DEF Dists
  <2>2. ns[s].vec \in Vectors /\ Len(ns[s].vec) = dm
    BY NodeIs
  <2>3. ns[s].vec \in Seq(Int)
    BY <2>2, AnnAssumption
  <2> QED BY <1>1, <2>1, <2>2, <2>3, DistanceType
<1> QED BY <1>2 DEF Pair

\* Reachable, of a graph and an entry point.
Reach(ns, e) ==
  {s \in DOMAIN ns : \A S \in SUBSET DOMAIN ns : e \in S /\ (\A t \in S : Range(ns[t].nbrs) \subseteq S) => s \in S}

LEMMA ReachIs ==
  ASSUME NEW ns, NEW dm, Graph(ns, dm), NEW e \in 1 .. Len(ns)
  PROVE  /\ e \in Reach(ns, e) /\ Reach(ns, e) \subseteq 1 .. Len(ns) /\ IsFiniteSet(Reach(ns, e))
         /\ \A s \in Reach(ns, e) : Range(ns[s].nbrs) \subseteq Reach(ns, e)
<1>1. DOMAIN ns = 1 .. Len(ns) /\ Len(ns) \in Nat
  BY DEF Graph
<1>2. Reach(ns, e) \subseteq 1 .. Len(ns)
  BY <1>1 DEF Reach
<1>3. e \in Reach(ns, e)
  BY <1>1 DEF Reach
<1>4. IsFiniteSet(Reach(ns, e))
  <2>1. IsFiniteSet(1 .. Len(ns))
    BY <1>1, FS_Interval
  <2> QED BY <1>2, <2>1, FS_Subset
<1>5. ASSUME NEW s \in Reach(ns, e), NEW v \in Range(ns[s].nbrs) PROVE v \in Reach(ns, e)
  <2>1. v \in DOMAIN ns
    BY <1>1, <1>2, NodeIs
  <2>2. ASSUME NEW S \in SUBSET DOMAIN ns, e \in S, \A t \in S : Range(ns[t].nbrs) \subseteq S PROVE v \in S
    <3>1. s \in S
      BY <2>2 DEF Reach
    <3> QED BY <2>2, <3>1
  <2> QED BY <2>1, <2>2 DEF Reach
<1> QED BY <1>2, <1>3, <1>4, <1>5

LEMMA ReachLeast ==
  ASSUME NEW ns, NEW dm, Graph(ns, dm), NEW e, NEW S, S \subseteq 1 .. Len(ns), e \in S,
         \A t \in S : Range(ns[t].nbrs) \subseteq S
  PROVE  Reach(ns, e) \subseteq S
<1>1. DOMAIN ns = 1 .. Len(ns)
  BY DEF Graph
<1> QED BY <1>1 DEF Reach

----------------------------------------------------------------------------
(* The loop of searchCandidates32WithWorkspaceLocked.                      *)

SearchState(I, d) == [ws : Workspace, minQ : Seq(Items(I, d)), maxQ : Seq(Items(I, d))]

\* maxQ has the ef nearest of the visited nodes; and if ef is enough for every
\* node that can be reached, each visited node outside X waits in minQ or has had
\* its neighbours visited.
LoopAt(ns, e, q, ef, s, X) ==
  /\ s \in SearchState(1 .. Len(ns), Dists(ns, q))
  /\ GoodWs(s.ws) /\ Len(s.ws.marks) = Len(ns)
  /\ KBest(1 .. Len(ns), Dists(ns, q), s.maxQ, ef, Marked(s.ws))
  /\ GoodHeap(1, s.minQ) /\ Ids(s.minQ) \subseteq Marked(s.ws)
  /\ e \in Marked(s.ws) /\ Marked(s.ws) \subseteq Reach(ns, e)
  /\ Cardinality(Reach(ns, e)) <= ef =>
       \A t \in Marked(s.ws) \ X : t \in Ids(s.minQ) \/ Range(ns[t].nbrs) \subseteq Marked(s.ws)

\* Pushing an item of an id that is not in the heap.
LEMMA PushMin ==
  ASSUME NEW I, NEW d, \A v \in I : d[v] \in Int, NEW h \in Seq(Items(I, d)), GoodHeap(1, h),
         NEW t \in I, t \notin Ids(h), NEW p, p = [id |-> t, distance |-> d[t]]
  PROVE  /\ Push(1, h, p) \in Seq(Items(I, d)) /\ GoodHeap(1, Push(1, h, p))
         /\ Ids(Push(1, h, p)) = Ids(h) \cup {t}
<1> DEFINE R == Items(I, d)
<1>1. Comparable(R) /\ p \in R /\ 1 \in {1, -1}
  BY ItemsAre
<1> HIDE DEF R
<1>2. Ids(h) = {y.id : y \in Range(h)} /\ h \in Seq(R)
  <2>1. h \in Seq(R)
    BY DEF R
  <2> QED BY <2>1, IdsAre
<1>3. \A y \in Range(h) : y.id # p.id
  BY <1>2
<1>4. PICK u : u = Push(1, h, p)
  OBVIOUS
<1>5. u \in Seq(R) /\ GoodHeap(1, u) /\ Range(u) = Range(h) \cup {p}
  BY <1>1, <1>2, <1>3, <1>4, PushIs
<1>6. Ids(u) = {y.id : y \in Range(u)}
  BY <1>5, IdsAre
<1>7. Ids(u) = Ids(h) \cup {t}
  BY <1>2, <1>5, <1>6
<1> QED BY <1>4, <1>5, <1>7 DEF R

\* One neighbour.
Offered(ns, e, q, ef, s, X, t, u) ==
  LoopAt(ns, e, q, ef, u, X) /\ Marked(s.ws) \subseteq Marked(u.ws) /\ t \in Marked(u.ws)

LEMMA OfferIs ==
  ASSUME NEW dm, Graph(nodes, dm), op.query \in Vectors, Len(op.query) = dm, op.ef \in Nat \ {0},
         NEW e \in 1 .. Len(nodes), NEW s, NEW X, LoopAt(nodes, e, op.query, op.ef, s, X),
         NEW t \in Reach(nodes, e)
  PROVE  Offered(nodes, e, op.query, op.ef, s, X, t, Offer(s, t))
<1>1. PICK ns, q, ef : ns = nodes /\ q = op.query /\ ef = op.ef
  OBVIOUS
<1>2. Graph(ns, dm) /\ q \in Vectors /\ Len(q) = dm /\ ef \in Nat \ {0} /\ ef \in Nat
  BY <1>1
<1>3. PICK I, d, V, Z : I = 1 .. Len(ns) /\ d = Dists(ns, q) /\ V = Marked(s.ws) /\ Z = Reach(ns, e)
  OBVIOUS
<1>4. /\ s \in SearchState(I, d) /\ GoodWs(s.ws) /\ Len(s.ws.marks) = Len(ns) /\ KBest(I, d, s.maxQ, ef, V)
      /\ GoodHeap(1, s.minQ) /\ Ids(s.minQ) \subseteq V /\ e \in V /\ V \subseteq Z
      /\ Cardinality(Z) <= ef => \A v \in V \ X : v \in Ids(s.minQ) \/ Range(ns[v].nbrs) \subseteq V
  BY <1>1, <1>3 DEF LoopAt
<1>5. s.ws \in Workspace /\ s.minQ \in Seq(Items(I, d)) /\ s.maxQ \in Seq(Items(I, d))
  BY <1>4 DEF SearchState
<1>6. /\ \A v \in I : d[v] \in Int
      /\ \A v \in I : Pair(ns, v, q) = [id |-> v, distance |-> d[v]]
  BY <1>2, <1>3, DistsAre
<1>7. Z \subseteq I /\ IsFiniteSet(Z) /\ t \in Z /\ t \in I
  <2>1. e \in 1 .. Len(ns)
    BY <1>1
  <2>2. Reach(ns, e) \subseteq 1 .. Len(ns) /\ IsFiniteSet(Reach(ns, e))
    BY <1>2, <2>1, ReachIs
  <2> QED BY <1>1, <1>3, <2>2
<1>8. PICK p, w : p = Pair(ns, t, q) /\ w = MarkVisited(s.ws, t)
  OBVIOUS
<1>9. p = [id |-> t, distance |-> d[t]] /\ p.distance \in Int
  BY <1>6, <1>7, <1>8
<1>10. t \in V <=> IsVisited(s.ws, t)
  BY <1>3, <1>4, <1>7 DEF Marked, IsVisited
<1>11. CASE t \in V
  <2>1. Offer(s, t) = s
    BY <1>10, <1>11 DEF Offer
  <2> QED BY <1>1, <1>3, <1>11, <2>1 DEF Offered
<1>12. CASE t \notin V
  <2>1. GoodWs(w) /\ Len(w.marks) = Len(ns) /\ Marked(w) = V \cup {t} /\ w \in Workspace
    <3>1. t \in 1 .. Len(s.ws.marks)
      BY <1>3, <1>4, <1>7
    <3>2. GoodWs(w) /\ Len(w.marks) = Len(s.ws.marks) /\ Marked(w) = Marked(s.ws) \cup {t}
      BY <1>4, <1>8, <3>1, MarkIs
    <3> QED BY <1>3, <1>4, <3>2 DEF GoodWs
  <2>2. Offer(s, t) =
          IF Len(s.maxQ) < ef
          THEN [ws |-> w, minQ |-> Push(1, s.minQ, p), maxQ |-> Push(-1, s.maxQ, p)]
          ELSE IF p.distance < s.maxQ[1].distance
          THEN [ws |-> w, minQ |-> Push(1, s.minQ, p), maxQ |-> ReplaceTop(-1, s.maxQ, p)]
          ELSE [s EXCEPT !.ws = w]
    BY <1>1, <1>8, <1>10, <1>12 DEF Offer
  <2>3. PICK mn, mx : mn = s.minQ /\ mx = s.maxQ
    OBVIOUS
  <2>4. /\ Push(1, mn, p) \in Seq(Items(I, d)) /\ GoodHeap(1, Push(1, mn, p))
        /\ Ids(Push(1, mn, p)) = Ids(mn) \cup {t}
    BY <1>4, <1>5, <1>6, <1>7, <1>9, <1>12, <2>3, PushMin
  <2>5. V \subseteq I
    BY <1>4, <1>7
  <2>6. /\ Len(mx) < ef => KBest(I, d, Push(-1, mx, p), ef, V \cup {t})
        /\ Len(mx) >= ef /\ p.distance < mx[1].distance => KBest(I, d, ReplaceTop(-1, mx, p), ef, V \cup {t})
        /\ Len(mx) >= ef /\ p.distance >= mx[1].distance => KBest(I, d, mx, ef, V \cup {t})
    BY <1>2, <1>4, <1>6, <1>7, <1>9, <1>12, <2>3, <2>5, KBestAdd
  <2>7. Len(mx) \in Nat /\ (Len(mx) >= 1 => mx[1].distance \in Int)
    <3>1. Len(mx) \in Nat /\ TopIsWorst(I, d, mx)
      BY <1>4, <1>6, <2>3, KBestTop
    <3> QED BY <3>1 DEF TopIsWorst
  \* Whichever way the item goes.
  <2>8. ASSUME NEW u, NEW a, NEW b, u = [ws |-> w, minQ |-> a, maxQ |-> b],
               a \in Seq(Items(I, d)), GoodHeap(1, a), KBest(I, d, b, ef, V \cup {t}),
               \/ Ids(a) = Ids(mn) \cup {t}
               \/ Ids(a) = Ids(mn) /\ Cardinality(Z) > ef
        PROVE  Offered(ns, e, q, ef, s, X, t, u)
    <3>1. b \in Seq(Items(I, d))
      BY <2>8 DEF KBest
    <3>2. u.ws = w /\ u.minQ = a /\ u.maxQ = b /\ u \in SearchState(I, d)
      BY <2>1, <2>8, <3>1 DEF SearchState
    <3>3. Ids(a) \subseteq V \cup {t} /\ V \cup {t} \subseteq Z /\ e \in V \cup {t} /\ Ids(mn) \subseteq Ids(a)
      BY <1>4, <1>7, <2>3, <2>8
    <3>4. ASSUME Cardinality(Z) <= ef, NEW v \in (V \cup {t}) \ X
          PROVE  v \in Ids(a) \/ Range(ns[v].nbrs) \subseteq V \cup {t}
      <4>1. Cardinality(Z) \in Nat
        BY <1>7, FS_CardinalityType
      <4>2. Ids(a) = Ids(mn) \cup {t}
        BY <1>2, <2>8, <3>4, <4>1
      <4>3. CASE v = t
        BY <4>2, <4>3
      <4>4. CASE v # t
        BY <1>4, <2>3, <3>4, <4>2, <4>4
      <4> QED BY <4>3, <4>4
    <3>5. LoopAt(ns, e, q, ef, u, X)
      BY <1>3, <2>1, <2>8, <3>2, <3>3, <3>4 DEF LoopAt
    <3> QED BY <1>3, <2>1, <3>2, <3>5 DEF Offered
  <2>9. CASE Len(mx) < ef
    <3>1. Offer(s, t) = [ws |-> w, minQ |-> Push(1, mn, p), maxQ |-> Push(-1, mx, p)]
      BY <2>2, <2>3, <2>9
    <3> QED BY <1>1, <2>4, <2>6, <2>8, <2>9, <3>1
  <2>10. CASE Len(mx) >= ef /\ p.distance < mx[1].distance
    <3>1. Offer(s, t) = [ws |-> w, minQ |-> Push(1, mn, p), maxQ |-> ReplaceTop(-1, mx, p)]
      BY <1>2, <2>2, <2>3, <2>7, <2>10
    <3> QED BY <1>1, <2>4, <2>6, <2>8, <2>10, <3>1
  <2>11. CASE Len(mx) >= ef /\ ~ (p.distance < mx[1].distance)
    <3>1. Offer(s, t) = [s EXCEPT !.ws = w]
      BY <1>2, <2>2, <2>3, <2>7, <2>11
    <3>2. Offer(s, t) = [ws |-> w, minQ |-> mn, maxQ |-> mx]
      BY <1>4, <2>3, <3>1 DEF SearchState
    <3>3. Len(mx) >= 1 /\ p.distance >= mx[1].distance
      BY <1>2, <1>9, <2>7, <2>11
    <3>4. KBest(I, d, mx, ef, V \cup {t})
      BY <2>6, <2>11, <3>3
    <3>5. Cardinality(Z) > ef
      <4>1. Ids(mx) \subseteq V /\ mx \in Seq(Items(I, d)) /\ Distinct(mx)
        BY <1>4, <2>3 DEF KBest, GoodHeap
      <4>2. IsFiniteSet(Ids(mx)) /\ Cardinality(Ids(mx)) = Len(mx)
        BY <4>1, CountIds
      <4>3. Ids(mx) \cup {t} \subseteq Z /\ t \notin Ids(mx)
        BY <1>4, <1>7, <1>12, <4>1
      <4>4. Cardinality(Ids(mx) \cup {t}) = Len(mx) + 1
        BY <4>2, <4>3, FS_AddElement
      <4>5. Cardinality(Ids(mx) \cup {t}) <= Cardinality(Z) /\ Cardinality(Z) \in Nat
        BY <1>7, <4>3, FS_Subset, FS_CardinalityType
      <4> QED BY <1>2, <2>7, <2>11, <4>4, <4>5
    <3>6. Offered(ns, e, q, ef, s, X, t, Offer(s, t))
      BY <1>4, <1>5, <2>3, <2>8, <3>2, <3>4, <3>5
    <3> QED BY <1>1, <3>6
  <2> QED BY <1>2, <2>7, <2>9, <2>10, <2>11
<1> QED BY <1>11, <1>12

\* s after the first i neighbours of x.
OfferedTo(e, x, nbrs, i, s) ==
  LoopAt(nodes, e, op.query, op.ef, s, {x}) /\ \A j \in 1 .. i : nbrs[j] \in Marked(s.ws)

LEMMA OfferStepIs ==
  ASSUME NEW dm, Graph(nodes, dm), op.query \in Vectors, Len(op.query) = dm, op.ef \in Nat \ {0},
         NEW e \in 1 .. Len(nodes), NEW s, NEW x, NEW nbrs \in Seq(Reach(nodes, e)),
         NEW i \in 1 .. Len(nbrs), OfferedTo(e, x, nbrs, i - 1, s)
  PROVE  OfferedTo(e, x, nbrs, i, Offer(s, nbrs[i]))
<1>1. LoopAt(nodes, e, op.query, op.ef, s, {x}) /\ \A j \in 1 .. i - 1 : nbrs[j] \in Marked(s.ws)
  BY DEF OfferedTo
<1>2. PICK t \in Reach(nodes, e) : t = nbrs[i]
  OBVIOUS
<1>3. PICK u : u = Offer(s, t)
  OBVIOUS
<1>4. Offered(nodes, e, op.query, op.ef, s, {x}, t, u)
  BY <1>1, <1>3, OfferIs
<1>5. LoopAt(nodes, e, op.query, op.ef, u, {x}) /\ Marked(s.ws) \subseteq Marked(u.ws) /\ t \in Marked(u.ws)
  BY <1>4 DEF Offered
<1>6. \A j \in 1 .. i : j \in 1 .. i - 1 \/ j = i
  OBVIOUS
<1>7. \A j \in 1 .. i : nbrs[j] \in Marked(u.ws)
  BY <1>1, <1>2, <1>5, <1>6
<1> QED BY <1>2, <1>3, <1>5, <1>7 DEF OfferedTo

OfferRun(s, nbrs) ==
  CHOOSE offered : offered = [i \in 0 .. Len(nbrs) |-> IF i = 0 THEN s ELSE Offer(offered[i - 1], nbrs[i])]

LEMMA OfferAllIs == ASSUME NEW s, NEW nbrs PROVE OfferAll(s, nbrs) = OfferRun(s, nbrs)[Len(nbrs)]
BY DEF OfferAll, OfferRun

\* All of them.
LEMMA OffersAll ==
  ASSUME NEW dm, Graph(nodes, dm), op.query \in Vectors, Len(op.query) = dm, op.ef \in Nat \ {0},
         NEW e \in 1 .. Len(nodes), NEW x, NEW nbrs \in Seq(Reach(nodes, e)),
         NEW z, LoopAt(nodes, e, op.query, op.ef, z, {x})
  PROVE  OfferedTo(e, x, nbrs, Len(nbrs), OfferAll(z, nbrs))
<1>1. PICK m : m = Len(nbrs)
  OBVIOUS
<1>2. m \in Nat
  BY <1>1
<1>3. PICK Y : Y = SearchState(1 .. Len(nodes), Dists(nodes, op.query))
  OBVIOUS
<1> DEFINE Ds(i) == {s \in Y : OfferedTo(e, x, nbrs, i, s)}
           D == [i \in 0 .. m |-> Ds(i)]
           F == [i \in 1 .. m |-> [s \in Ds(i - 1) |-> Offer(s, nbrs[i])]]
<1>4. \A i \in 1 .. m : i - 1 \in 0 .. m /\ i \in 0 .. m
  BY <1>2
<1>5. ASSUME NEW i \in 1 .. m, NEW s \in Ds(i - 1) PROVE Offer(s, nbrs[i]) \in Ds(i)
  <2>1. OfferedTo(e, x, nbrs, i, Offer(s, nbrs[i]))
    BY <1>1, OfferStepIs
  <2> QED BY <1>3, <2>1 DEF OfferedTo, LoopAt
<1>6. z \in Ds(0)
  <2>1. 1 .. 0 = {}
    OBVIOUS
  <2> QED BY <1>3, <2>1 DEF OfferedTo, LoopAt
<1> HIDE DEF Ds
<1>7. \A i \in 0 .. m : D[i] = Ds(i)
  OBVIOUS
<1>8. \A i \in 1 .. m : F[i] \in [Ds(i - 1) -> Ds(i)] /\ \A s \in Ds(i - 1) : F[i][s] = Offer(s, nbrs[i])
  BY <1>5
<1> HIDE DEF D, F
<1>9. PICK f : IsRunIn(m, D, z, F, f)
  <2>1. \A i \in 1 .. m : F[i] \in [D[i - 1] -> D[i]]
    BY <1>4, <1>7, <1>8
  <2>2. z \in D[0]
    BY <1>2, <1>6, <1>7
  <2> QED BY <1>2, <2>1, <2>2, RunIn
<1>10. /\ f = [i \in 0 .. m |-> f[i]] /\ f[0] = z /\ \A i \in 0 .. m : f[i] \in D[i]
       /\ \A i \in 1 .. m : f[i] = F[i][f[i - 1]]
  BY <1>9 DEF IsRunIn
<1>11. ASSUME NEW i \in 1 .. m PROVE f[i] = Offer(f[i - 1], nbrs[i])
  <2>1. f[i - 1] \in Ds(i - 1)
    BY <1>4, <1>7, <1>10
  <2> QED BY <1>8, <1>10, <2>1
<1>12. f = [i \in 0 .. m |-> IF i = 0 THEN z ELSE Offer(f[i - 1], nbrs[i])]
  <2>1. ASSUME NEW i \in 0 .. m PROVE f[i] = IF i = 0 THEN z ELSE Offer(f[i - 1], nbrs[i])
    <3>1. i = 0 \/ i \in 1 .. m
      BY <1>2
    <3> QED BY <1>10, <1>11, <3>1
  <2> QED BY <1>10, <2>1
<1>13. PICK run : run = OfferRun(z, nbrs)
  OBVIOUS
<1>14. run = [i \in 0 .. m |-> IF i = 0 THEN z ELSE Offer(run[i - 1], nbrs[i])]
  BY <1>1, <1>12, <1>13 DEF OfferRun
<1> DEFINE G == {i \in 0 .. m : run[i] \in Ds(i)}
<1>15. \A i \in 0 .. m : i \in G
  <2>1. 0 \in G
    BY <1>2, <1>6, <1>14
  <2>2. ASSUME NEW i \in 1 .. m, i - 1 \in G PROVE i \in G
    <3>1. run[i - 1] \in Ds(i - 1)
      BY <2>2
    <3>2. run[i] = Offer(run[i - 1], nbrs[i])
      BY <1>4, <1>14
    <3> QED BY <1>4, <1>5, <3>1, <3>2
  <2> HIDE DEF G
  <2> QED BY <1>2, <2>1, <2>2, Rounds
<1>16. run[m] \in Ds(m)
  BY <1>2, <1>15
<1> QED BY <1>1, <1>13, <1>16, OfferAllIs DEF Ds

\* A round of the loop keeps what the loop keeps.
LEMMA ExpandIs ==
  ASSUME NEW dm, Graph(nodes, dm), op.query \in Vectors, Len(op.query) = dm, op.ef \in Nat \ {0},
         NEW e \in 1 .. Len(nodes), NEW y, LoopAt(nodes, e, op.query, op.ef, y, {}), y.minQ # <<>>
  PROVE  LoopAt(nodes, e, op.query, op.ef,
                OfferAll([ws |-> y.ws, minQ |-> PopRest(1, y.minQ), maxQ |-> y.maxQ], nodes[y.minQ[1].id].nbrs), {})
<1>1. PICK ns, q, ef : ns = nodes /\ q = op.query /\ ef = op.ef
  OBVIOUS
<1>2. Graph(ns, dm) /\ q \in Vectors /\ Len(q) = dm /\ ef \in Nat \ {0} /\ ef \in Nat
  BY <1>1
<1>3. PICK I, d, V, Z : I = 1 .. Len(ns) /\ d = Dists(ns, q) /\ V = Marked(y.ws) /\ Z = Reach(ns, e)
  OBVIOUS
<1>4. /\ y \in SearchState(I, d) /\ GoodWs(y.ws) /\ Len(y.ws.marks) = Len(ns) /\ KBest(I, d, y.maxQ, ef, V)
      /\ GoodHeap(1, y.minQ) /\ Ids(y.minQ) \subseteq V /\ e \in V /\ V \subseteq Z
      /\ Cardinality(Z) <= ef => \A v \in V \ {} : v \in Ids(y.minQ) \/ Range(ns[v].nbrs) \subseteq V
  BY <1>1, <1>3 DEF LoopAt
<1>5. y.ws \in Workspace /\ y.minQ \in Seq(Items(I, d)) /\ y.maxQ \in Seq(Items(I, d))
  BY <1>4 DEF SearchState
<1>6. \A v \in I : d[v] \in Int
  BY <1>2, <1>3, DistsAre
<1>7. PICK mn : mn = y.minQ
  OBVIOUS
<1>8. PICK x, r : x = mn[1].id /\ r = PopRest(1, mn)
  OBVIOUS
<1>9. /\ r \in Seq(Items(I, d)) /\ GoodHeap(1, r) /\ Ids(mn) \subseteq Ids(r) \cup {x} /\ Ids(r) \subseteq Ids(mn)
      /\ x \in Ids(mn)
  <2> DEFINE R == Items(I, d)
  <2>1. Comparable(R) /\ mn \in Seq(R) /\ GoodHeap(1, mn) /\ mn # <<>> /\ 1 \in {1, -1}
    BY <1>4, <1>5, <1>6, <1>7, ItemsAre
  <2> HIDE DEF R
  <2>2. PopRest(1, mn) \in Seq(R) /\ GoodHeap(1, PopRest(1, mn)) /\ Range(PopRest(1, mn)) = Range(mn) \ {mn[1]}
    BY <2>1, PopRestIs
  <2>3. Ids(mn) = {v.id : v \in Range(mn)} /\ Ids(r) = {v.id : v \in Range(r)}
    BY <1>8, <2>1, <2>2, IdsAre
  <2>4. Range(mn) = {mn[i] : i \in 1 .. Len(mn)} /\ 1 \in 1 .. Len(mn)
    BY <2>1, RangeIs
  <2>5. x \in Ids(mn)
    BY <1>8, <2>3, <2>4
  <2>6. Ids(r) \subseteq Ids(mn)
    BY <1>8, <2>2, <2>3
  <2>7. Ids(mn) \subseteq Ids(r) \cup {x}
    BY <1>8, <2>2, <2>3
  <2> QED BY <1>8, <2>2, <2>5, <2>6, <2>7 DEF R
<1>10. PICK z : z = [ws |-> y.ws, minQ |-> r, maxQ |-> y.maxQ]
  OBVIOUS
<1>11. z.ws = y.ws /\ z.minQ = r /\ z.maxQ = y.maxQ /\ z \in SearchState(I, d)
  BY <1>5, <1>9, <1>10 DEF SearchState
<1>12. LoopAt(ns, e, q, ef, z, {x})
  <2>1. Ids(r) \subseteq V
    BY <1>4, <1>7, <1>9
  <2>2. ASSUME Cardinality(Z) <= ef, NEW v \in V \ {x} PROVE v \in Ids(r) \/ Range(ns[v].nbrs) \subseteq V
    BY <1>4, <1>7, <1>9, <2>2
  <2> QED BY <1>3, <1>4, <1>9, <1>11, <2>1, <2>2 DEF LoopAt
<1>13. PICK nbrs : nbrs = ns[x].nbrs
  OBVIOUS
<1>14. /\ nbrs \in Seq(Reach(ns, e)) /\ Len(nbrs) \in Nat /\ Range(nbrs) = {nbrs[i] : i \in 1 .. Len(nbrs)}
  <2>1. x \in Z /\ e \in 1 .. Len(ns)
    BY <1>1, <1>4, <1>7, <1>9
  <2>2. Z \subseteq 1 .. Len(ns) /\ \A s \in Z : Range(ns[s].nbrs) \subseteq Z
    BY <1>2, <1>3, <2>1, ReachIs
  <2>3. nbrs \in Seq(Nat) /\ Len(nbrs) \in Nat /\ Range(nbrs) = {nbrs[i] : i \in 1 .. Len(nbrs)}
    <3>1. x \in 1 .. Len(ns)
      BY <2>1, <2>2
    <3>2. /\ ns[x].nbrs \in Seq(Nat) /\ Len(ns[x].nbrs) \in Nat
          /\ Range(ns[x].nbrs) = {ns[x].nbrs[i] : i \in 1 .. Len(ns[x].nbrs)}
      BY <1>2, <3>1, NodeIs
    <3> QED BY <1>13, <3>2
  <2>4. \A i \in 1 .. Len(nbrs) : nbrs[i] \in Z
    BY <1>13, <2>1, <2>2, <2>3
  <2>5. nbrs \in Seq(Z)
    BY <2>3, <2>4
  <2> QED BY <1>3, <2>3, <2>5
<1>15. PICK u : u = OfferAll(z, nbrs)
  OBVIOUS
<1>16. OfferedTo(e, x, nbrs, Len(nbrs), u)
  <2>1. nbrs \in Seq(Reach(nodes, e)) /\ LoopAt(nodes, e, op.query, op.ef, z, {x})
    BY <1>1, <1>12, <1>14
  <2>2. OfferedTo(e, x, nbrs, Len(nbrs), OfferAll(z, nbrs))
    BY <2>1, OffersAll
  <2> QED BY <1>15, <2>2
<1>17. LoopAt(ns, e, q, ef, u, {x}) /\ \A j \in 1 .. Len(nbrs) : nbrs[j] \in Marked(u.ws)
  BY <1>1, <1>16 DEF OfferedTo
<1>18. Range(ns[x].nbrs) \subseteq Marked(u.ws)
  BY <1>13, <1>14, <1>17
<1>19. LoopAt(ns, e, q, ef, u, {})
  <2>1. ASSUME Cardinality(Reach(ns, e)) <= ef, NEW t \in Marked(u.ws) \ {}
        PROVE  t \in Ids(u.minQ) \/ Range(ns[t].nbrs) \subseteq Marked(u.ws)
    <3>1. \A v \in Marked(u.ws) \ {x} : v \in Ids(u.minQ) \/ Range(ns[v].nbrs) \subseteq Marked(u.ws)
      BY <1>17, <2>1 DEF LoopAt
    <3> QED BY <1>18, <3>1
  <2> QED BY <1>17, <2>1 DEF LoopAt
<1> QED BY <1>1, <1>7, <1>8, <1>10, <1>13, <1>15, <1>19

\* Up to the loop.
LEMMA BeginIs ==
  ASSUME NEW ns, NEW dm, Graph(ns, dm), NEW q \in Vectors, Len(q) = dm, NEW ef \in Nat \ {0},
         NEW e \in 1 .. Len(ns), NEW w, GoodWs(w), Len(w.marks) <= Len(ns),
         NEW p, p = Pair(ns, e, q)
  PROVE  LoopAt(ns, e, q, ef,
                [ws |-> MarkVisited(Reset(w, Len(ns)), e), minQ |-> Push(1, <<>>, p), maxQ |-> Push(-1, <<>>, p)], {})
<1>1. PICK I, d : I = 1 .. Len(ns) /\ d = Dists(ns, q)
  OBVIOUS
<1>2. Len(ns) \in Nat /\ (\A v \in I : d[v] \in Int) /\ p = [id |-> e, distance |-> d[e]] /\ e \in I
  <2>1. /\ \A s \in 1 .. Len(ns) : Dists(ns, q)[s] \in Int
        /\ \A s \in 1 .. Len(ns) : Pair(ns, s, q) = [id |-> s, distance |-> Dists(ns, q)[s]]
    BY DistsAre
  <2>2. Len(ns) \in Nat
    BY DEF Graph
  <2> QED BY <1>1, <2>1, <2>2
<1>3. PICK f, v : f = Reset(w, Len(ns)) /\ v = MarkVisited(f, e)
  OBVIOUS
<1>4. GoodWs(f) /\ Len(f.marks) = Len(ns) /\ Marked(f) = {}
  <2>1. Fresh(f, Len(ns))
    BY <1>2, <1>3, ResetIs
  <2> QED BY <2>1 DEF Fresh, Marked
<1>5. GoodWs(v) /\ Len(v.marks) = Len(ns) /\ Marked(v) = {e} /\ v \in Workspace
  <2>1. GoodWs(v) /\ Len(v.marks) = Len(f.marks) /\ Marked(v) = Marked(f) \cup {e}
    BY <1>3, <1>4, MarkIs
  <2> QED BY <1>4, <2>1 DEF GoodWs
<1>6. PICK a, b : a = Push(1, <<>>, p) /\ b = Push(-1, <<>>, p)
  OBVIOUS
<1>7. <<>> \in Seq(Items(I, d)) /\ Ids(<<>>) = {} /\ Len(<<>>) = 0
  <2>1. <<>> \in Seq(Items(I, d)) /\ Len(<<>>) = 0 /\ 1 .. 0 = {}
    OBVIOUS
  <2> QED BY <2>1 DEF Ids
<1>8. a \in Seq(Items(I, d)) /\ GoodHeap(1, a) /\ Ids(a) = {e}
  <2>1. PICK h : h = <<>>
    OBVIOUS
  <2>2. h \in Seq(Items(I, d)) /\ GoodHeap(1, h) /\ e \notin Ids(h)
    BY <1>7, <2>1, EmptyHeap
  <2>3. Push(1, h, p) \in Seq(Items(I, d)) /\ GoodHeap(1, Push(1, h, p)) /\ Ids(Push(1, h, p)) = Ids(h) \cup {e}
    BY <1>2, <2>2, PushMin
  <2> QED BY <1>6, <1>7, <2>1, <2>3
<1>9. KBest(I, d, b, ef, {e}) /\ b \in Seq(Items(I, d))
  <2>1. PICK h, E : h = <<>> /\ E = {}
    OBVIOUS
  <2>2. KBest(I, d, h, ef, E) /\ E \subseteq I /\ e \notin E /\ Len(h) < ef
    BY <1>7, <2>1, KBestEmpty
  <2>3. KBest(I, d, Push(-1, h, p), ef, E \cup {e})
    BY <1>2, <2>2, KBestAdd
  <2>4. KBest(I, d, b, ef, {e})
    BY <1>6, <2>1, <2>3
  <2> QED BY <2>4 DEF KBest
<1>10. PICK s : s = [ws |-> v, minQ |-> a, maxQ |-> b]
  OBVIOUS
<1>11. s.ws = v /\ s.minQ = a /\ s.maxQ = b /\ s \in SearchState(I, d)
  BY <1>5, <1>8, <1>9, <1>10 DEF SearchState
<1>12. e \in Reach(ns, e)
  BY ReachIs
<1>13. LoopAt(ns, e, q, ef, s, {})
  BY <1>1, <1>5, <1>8, <1>9, <1>11, <1>12 DEF LoopAt
<1> QED BY <1>3, <1>6, <1>10, <1>13

----------------------------------------------------------------------------
(* The links of a new node.                                                *)

\* u is the graph ms with other links at s.
Relinked(dm, ms, s, u) ==
  Graph(u, dm) /\ Len(u) = Len(ms) /\ \A t \in 1 .. Len(ms) : t # s => u[t] = ms[t]

\* What may be the neighbours of s.
Linkable(ms, s, L) ==
  L \in Seq(1 .. Len(ms)) /\ (\A i \in 1 .. Len(L) : L[i] # s) /\ \A i, j \in 1 .. Len(L) : L[i] = L[j] => i = j

LEMMA ReplacedAt ==
  ASSUME NEW S, NEW ms \in Seq(S), NEW s \in 1 .. Len(ms), NEW x \in S, NEW u, u = [ms EXCEPT ![s] = x]
  PROVE  /\ u \in Seq(S) /\ Len(u) = Len(ms) /\ u[s] = x
         /\ \A t \in 1 .. Len(ms) : t # s => u[t] = ms[t]
OBVIOUS

\* u is ms with the neighbours L at s.
Relinks(ms, s, L, u) ==
  /\ u \in Seq(GraphNode) /\ Len(u) = Len(ms) /\ u[s].nbrs = L /\ u[s].vec = ms[s].vec
  /\ \A t \in 1 .. Len(ms) : t # s => u[t] = ms[t]

LEMMA RelinkIs ==
  ASSUME NEW ms, NEW dm, Graph(ms, dm), NEW s \in 1 .. Len(ms), NEW L, Linkable(ms, s, L),
         NEW u, Relinks(ms, s, L, u)
  PROVE  Relinked(dm, ms, s, u) /\ u[s].nbrs = L
<1>1. L \in Seq(1 .. Len(ms)) /\ (\A i \in 1 .. Len(L) : L[i] # s) /\ \A i, j \in 1 .. Len(L) : L[i] = L[j] => i = j
  BY DEF Linkable
<1>2. /\ u \in Seq(GraphNode) /\ Len(u) = Len(ms) /\ u[s].nbrs = L /\ u[s].vec = ms[s].vec
      /\ \A t \in 1 .. Len(ms) : t # s => u[t] = ms[t]
  BY DEF Relinks
<1>3. ASSUME NEW t \in 1 .. Len(u) PROVE Len(u[t].vec) = dm /\ GoodLinks(u, t)
  <2>1. CASE t = s
    <3>1. \A i \in 1 .. Len(L) : L[i] \in 1 .. Len(u)
      BY <1>1, <1>2
    <3>2. Len(ms[s].vec) = dm
      BY NodeIs
    <3> QED BY <1>1, <1>2, <2>1, <3>1, <3>2 DEF GoodLinks
  <2>2. CASE t # s
    <3>1. Len(ms[t].vec) = dm /\ GoodLinks(ms, t)
      BY <1>2 DEF Graph
    <3> QED BY <1>2, <2>2, <3>1 DEF GoodLinks
  <2> QED BY <2>1, <2>2
<1>4. Graph(u, dm)
  BY <1>2, <1>3 DEF Graph
<1> QED BY <1>2, <1>4 DEF Relinked

\* node.addNeighbor.
LEMMA AddNeighborIs ==
  ASSUME NEW ms, NEW dm, Graph(ms, dm), NEW s \in 1 .. Len(ms), NEW t \in 1 .. Len(ms), s # t,
         NEW u, u = AddNeighbor(ms, s, t)
  PROVE  Relinked(dm, ms, s, u) /\ u[s].nbrs # <<>>
<1>1. PICK l : l = ms[s].nbrs
  OBVIOUS
<1>2. l \in Seq(1 .. Len(ms)) /\ Len(l) \in Nat
  <2>1. ms[s].nbrs \in Seq(Nat) /\ Len(ms[s].nbrs) \in Nat
    BY NodeIs
  <2>2. \A i \in 1 .. Len(ms[s].nbrs) : ms[s].nbrs[i] \in 1 .. Len(ms)
    BY DEF Graph, GoodLinks
  <2> QED BY <1>1, <2>1, <2>2
<1>3. (\A i \in 1 .. Len(l) : l[i] # s) /\ \A i, j \in 1 .. Len(l) : l[i] = l[j] => i = j
  BY <1>1 DEF Graph, GoodLinks
<1>4. Contains(l, t) <=> \E i \in 1 .. Len(l) : l[i] = t
  BY DEF Contains
<1>5. CASE Contains(l, t)
  <2>1. u = ms
    BY <1>1, <1>5 DEF AddNeighbor
  <2>2. l # <<>>
    BY <1>4, <1>5
  <2> QED BY <1>1, <2>1, <2>2 DEF Relinked
<1>6. CASE ~Contains(l, t)
  <2>1. PICK L : L = Append(l, t)
    OBVIOUS
  <2>2. /\ L \in Seq(1 .. Len(ms)) /\ Len(L) = Len(l) + 1 /\ L[Len(L)] = t /\ L # <<>>
        /\ \A i \in 1 .. Len(l) : L[i] = l[i]
    BY <1>2, <2>1
  <2>3. \A i \in 1 .. Len(L) : i \in 1 .. Len(l) \/ i = Len(L)
    BY <1>2, <2>2
  <2>4. \A i \in 1 .. Len(L) : L[i] # s
    BY <1>3, <2>2, <2>3
  <2>5. \A i, j \in 1 .. Len(L) : L[i] = L[j] => i = j
    BY <1>3, <1>4, <1>6, <2>2, <2>3
  <2>6. u = [ms EXCEPT ![s].nbrs = L]
    BY <1>1, <1>6, <2>1 DEF AddNeighbor
  <2>7. Relinked(dm, ms, s, u) /\ u[s].nbrs = L
    <3>1. Linkable(ms, s, L)
      BY <2>2, <2>4, <2>5 DEF Linkable
    <3>2. PICK x : x = [ms[s] EXCEPT !.nbrs = L]
      OBVIOUS
    <3>3. u = [ms EXCEPT ![s] = x]
      BY <2>6, <3>2
    <3>4. ms[s] \in GraphNode
      BY NodeIs
    <3>5. L \in Seq(Nat)
      BY <3>1 DEF Linkable
    <3>6. x \in GraphNode /\ x.nbrs = L /\ x.vec = ms[s].vec
      BY <3>2, <3>4, <3>5 DEF GraphNode
    <3>7. ms \in Seq(GraphNode)
      BY DEF Graph
    <3>8. /\ u \in Seq(GraphNode) /\ Len(u) = Len(ms) /\ u[s] = x
          /\ \A v \in 1 .. Len(ms) : v # s => u[v] = ms[v]
      BY <3>3, <3>6, <3>7, ReplacedAt
    <3>9. Relinks(ms, s, L, u)
      BY <3>6, <3>8 DEF Relinks
    <3> QED BY <3>1, <3>9, RelinkIs
  <2> QED BY <2>2, <2>7
<1> QED BY <1>5, <1>6

\* pruneNeighborsLocked.
LEMMA PruneIs ==
  ASSUME NEW ms, NEW dm, Graph(ms, dm), NEW s \in 1 .. Len(ms), NEW u, u = Prune(ms, s)
  PROVE  Relinked(dm, ms, s, u) /\ Len(u[s].nbrs) <= M /\ (ms[s].nbrs # <<>> => u[s].nbrs # <<>>)
<1>1. PICK l, q, pairs : l = ms[s].nbrs /\ q = ms[s].vec /\ pairs = [i \in DOMAIN l |-> Pair(ms, l[i], q)]
  OBVIOUS
<1>2. l \in Seq(Nat) /\ Len(l) \in Nat /\ q \in Vectors /\ Len(q) = dm /\ DOMAIN l = 1 .. Len(l)
  <2>1. ms[s].nbrs \in Seq(Nat) /\ Len(ms[s].nbrs) \in Nat /\ ms[s].vec \in Vectors /\ Len(ms[s].vec) = dm
    BY NodeIs
  <2> QED BY <1>1, <2>1
<1>3. (\A i \in 1 .. Len(l) : l[i] \in 1 .. Len(ms) /\ l[i] # s) /\ \A i, j \in 1 .. Len(l) : l[i] = l[j] => i = j
  BY <1>1 DEF Graph, GoodLinks
<1>4. u = IF Len(pairs) <= M THEN ms ELSE [ms EXCEPT ![s].nbrs = Slot(Nearest(pairs, M))]
  BY <1>1 DEF Prune
<1>5. PICK I, d, R : I = 1 .. Len(ms) /\ d = Dists(ms, q) /\ R = Items(I, d)
  OBVIOUS
<1>6. /\ \A v \in I : d[v] \in Int
      /\ \A v \in I : Pair(ms, v, q) = [id |-> v, distance |-> d[v]]
  BY <1>2, <1>5, DistsAre
<1>7. Comparable(R) /\ \A v \in I : Pair(ms, v, q) \in R /\ Pair(ms, v, q).id = v
  <2>1. Comparable(Items(I, d)) /\ \A v \in I : [id |-> v, distance |-> d[v]] \in Items(I, d)
    BY <1>6, ItemsAre
  <2> QED BY <1>5, <1>6, <2>1
<1>8. pairs \in Seq(R) /\ Len(pairs) = Len(l) /\ \A i \in 1 .. Len(l) : pairs[i].id = l[i]
  <2>1. pairs = [i \in 1 .. Len(l) |-> Pair(ms, l[i], q)]
    BY <1>1, <1>2
  <2>2. \A i \in 1 .. Len(l) : Pair(ms, l[i], q) \in R /\ Pair(ms, l[i], q).id = l[i]
    BY <1>3, <1>5, <1>7
  <2>3. pairs \in [1 .. Len(l) -> R]
    BY <2>1, <2>2
  <2>4. pairs \in Seq(R) /\ Len(pairs) = Len(l)
    <3>1. PICK g \in Nat : g = Len(l)
      BY <1>2
    <3>2. pairs \in [1 .. g -> R]
      BY <2>3, <3>1
    <3> QED BY <3>1, <3>2
  <2> QED BY <2>1, <2>2, <2>4
<1>9. Distinct(pairs)
  BY <1>3, <1>8 DEF Distinct
<1>10. M \in Nat /\ M >= 1
  BY AnnAssumption
<1>11. CASE Len(pairs) <= M
  BY <1>1, <1>4, <1>8, <1>11 DEF Relinked
<1>12. CASE ~ (Len(pairs) <= M)
  <2>1. PICK r, L : r = Nearest(pairs, M) /\ L = Slot(r)
    OBVIOUS
  <2>2. r \in Seq(R) /\ Len(r) = M /\ Distinct(r) /\ Range(r) \subseteq Range(pairs)
    <3>1. IsNearest(R, pairs, M, r)
      BY <1>7, <1>8, <1>9, <1>10, <2>1, NearestIs
    <3>2. /\ r \in Seq(R) /\ Distinct(r) /\ Range(r) \subseteq Range(pairs)
          /\ Len(r) = IF M <= Len(pairs) THEN M ELSE Len(pairs)
      BY <3>1 DEF IsNearest
    <3>3. M <= Len(pairs)
      BY <1>2, <1>8, <1>10, <1>12
    <3> QED BY <3>2, <3>3
  <2>3. Len(L) = M /\ L = [i \in 1 .. M |-> r[i].id]
    <3>1. Slot(r) = [i \in 1 .. Len(r) |-> r[i].id] /\ Len(Slot(r)) = Len(r)
      BY <2>2, SlotIs
    <3> QED BY <2>1, <2>2, <3>1
  <2>4. \A i \in 1 .. M : L[i] \in 1 .. Len(ms) /\ L[i] # s
    <3>1. Range(r) = {r[i] : i \in 1 .. Len(r)} /\ Range(pairs) = {pairs[i] : i \in 1 .. Len(pairs)}
      BY <1>8, <2>2, RangeIs
    <3>2. ASSUME NEW i \in 1 .. M PROVE L[i] \in 1 .. Len(ms) /\ L[i] # s
      <4>1. PICK j \in 1 .. Len(l) : r[i] = pairs[j]
        BY <1>8, <2>2, <3>1
      <4>2. L[i] = l[j]
        BY <1>8, <2>3, <4>1
      <4> QED BY <1>3, <4>2
    <3> QED BY <3>2
  <2>5. \A i, j \in 1 .. M : L[i] = L[j] => i = j
    BY <2>2, <2>3 DEF Distinct
  <2>6. L \in Seq(1 .. Len(ms)) /\ L # <<>>
    <3>1. M \in Nat /\ M # 0
      BY <1>10
    <3>2. L \in [1 .. M -> 1 .. Len(ms)]
      BY <2>3, <2>4
    <3>3. L \in Seq(1 .. Len(ms))
      BY <3>1, <3>2
    <3>4. Len(L) # 0
      BY <2>3, <3>1
    <3> QED BY <3>3, <3>4
  <2>7. u = [ms EXCEPT ![s].nbrs = L]
    BY <1>4, <1>12, <2>1
  <2>8. Relinked(dm, ms, s, u) /\ u[s].nbrs = L
    <3>1. Linkable(ms, s, L)
      BY <2>3, <2>4, <2>5, <2>6 DEF Linkable
    <3>2. PICK x : x = [ms[s] EXCEPT !.nbrs = L]
      OBVIOUS
    <3>3. u = [ms EXCEPT ![s] = x]
      BY <2>7, <3>2
    <3>4. ms[s] \in GraphNode
      BY NodeIs
    <3>5. L \in Seq(Nat)
      BY <3>1 DEF Linkable
    <3>6. x \in GraphNode /\ x.nbrs = L /\ x.vec = ms[s].vec
      BY <3>2, <3>4, <3>5 DEF GraphNode
    <3>7. ms \in Seq(GraphNode)
      BY DEF Graph
    <3>8. /\ u \in Seq(GraphNode) /\ Len(u) = Len(ms) /\ u[s] = x
          /\ \A v \in 1 .. Len(ms) : v # s => u[v] = ms[v]
      BY <3>3, <3>6, <3>7, ReplacedAt
    <3>9. Relinks(ms, s, L, u)
      BY <3>6, <3>8 DEF Relinks
    <3> QED BY <3>1, <3>9, RelinkIs
  <2> QED BY <1>10, <2>3, <2>6, <2>8
<1> QED BY <1>11, <1>12

\* ms is what is linked with the first i of slots; the last node is the new one.
LinkedTo(ns, dm, slots, i, ms) ==
  /\ Graph(ms, dm) /\ Len(ms) = Len(ns)
  /\ \A s \in 1 .. Len(ns) - 1 : Len(ms[s].nbrs) <= M
  /\ \A s \in 1 .. Len(ns) : ns[s].nbrs # <<>> => ms[s].nbrs # <<>>
  /\ \A j \in 1 .. i : ms[slots[j]].nbrs # <<>>
  /\ i >= 1 => ms[Len(ns)].nbrs # <<>>

LEMMA LinkBothIs ==
  ASSUME NEW ns, NEW dm, NEW slots \in Seq(1 .. Len(ns) - 1), NEW i \in 1 .. Len(slots),
         NEW ms, LinkedTo(ns, dm, slots, i - 1, ms)
  PROVE  LinkedTo(ns, dm, slots, i, LinkBoth(ms, slots[i]))
<1>1. PICK K, t : K = Len(ns) /\ t = slots[i]
  OBVIOUS
<1>2. /\ Graph(ms, dm) /\ Len(ms) = K
      /\ \A s \in 1 .. K - 1 : Len(ms[s].nbrs) <= M
      /\ \A s \in 1 .. K : ns[s].nbrs # <<>> => ms[s].nbrs # <<>>
      /\ \A j \in 1 .. i - 1 : ms[slots[j]].nbrs # <<>>
  BY <1>1 DEF LinkedTo
<1>3. K \in Nat /\ t \in 1 .. K - 1 /\ t \in 1 .. K /\ K \in 1 .. K /\ t # K
  <2>1. K \in Nat
    BY <1>2 DEF Graph
  <2>2. t \in 1 .. K - 1
    BY <1>1
  <2> QED BY <2>1, <2>2
<1>4. PICK a, b, c : a = AddNeighbor(ms, K, t) /\ b = AddNeighbor(a, t, K) /\ c = Prune(b, t)
  OBVIOUS
<1>5. Relinked(dm, ms, K, a) /\ a[K].nbrs # <<>>
  BY <1>2, <1>3, <1>4, AddNeighborIs
<1>6. Graph(a, dm) /\ Len(a) = K /\ \A s \in 1 .. K : s # K => a[s] = ms[s]
  BY <1>2, <1>5 DEF Relinked
<1>7. Relinked(dm, a, t, b) /\ b[t].nbrs # <<>>
  BY <1>3, <1>4, <1>6, AddNeighborIs
<1>8. Graph(b, dm) /\ Len(b) = K /\ \A s \in 1 .. K : s # t => b[s] = a[s]
  BY <1>6, <1>7 DEF Relinked
<1>9. Relinked(dm, b, t, c) /\ Len(c[t].nbrs) <= M /\ (b[t].nbrs # <<>> => c[t].nbrs # <<>>)
  <2>1. Graph(b, dm) /\ t \in 1 .. Len(b) /\ c = Prune(b, t)
    BY <1>3, <1>4, <1>8
  <2> QED BY ONLY <2>1, PruneIs
<1>10. Graph(c, dm) /\ Len(c) = K /\ \A s \in 1 .. K : s # t => c[s] = b[s]
  BY <1>8, <1>9 DEF Relinked
<1>11. LinkBoth(ms, t) = c
  BY <1>2, <1>3, <1>4 DEF LinkBoth
<1>12. c[t].nbrs # <<>> /\ c[K].nbrs # <<>> /\ \A s \in 1 .. K : s # t /\ s # K => c[s] = ms[s]
  BY <1>3, <1>5, <1>6, <1>7, <1>8, <1>9, <1>10
<1>13. \A s \in 1 .. K - 1 : s \in 1 .. K /\ s # K
  BY <1>3
<1>14. \A s \in 1 .. K - 1 : Len(c[s].nbrs) <= M
  BY <1>2, <1>9, <1>12, <1>13
<1>15. \A s \in 1 .. K : ns[s].nbrs # <<>> => c[s].nbrs # <<>>
  BY <1>2, <1>12
<1>16. ASSUME NEW j \in 1 .. i PROVE c[slots[j]].nbrs # <<>>
  <2>1. CASE slots[j] = t
    BY <1>12, <2>1
  <2>2. CASE slots[j] # t
    <3>1. j \in 1 .. i - 1 /\ slots[j] \in 1 .. K - 1
      BY <1>1, <2>2
    <3> QED BY <1>2, <1>12, <1>13, <2>2, <3>1
  <2> QED BY <2>1, <2>2
<1>17. LinkedTo(ns, dm, slots, i, c)
  BY <1>1, <1>10, <1>12, <1>14, <1>15, <1>16 DEF LinkedTo
<1> QED BY <1>1, <1>11, <1>17

LinkRun(ns, slots) ==
  CHOOSE linked : linked = [i \in 0 .. Len(slots) |-> IF i = 0 THEN ns ELSE LinkBoth(linked[i - 1], slots[i])]

LEMMA LinkAllIs == ASSUME NEW ns, NEW slots PROVE LinkAll(ns, slots) = LinkRun(ns, slots)[Len(slots)]
BY DEF LinkAll, LinkRun

LEMMA LinksAll ==
  ASSUME NEW ns, NEW dm, Graph(ns, dm), \A s \in 1 .. Len(ns) - 1 : Len(ns[s].nbrs) <= M,
         NEW slots \in Seq(1 .. Len(ns) - 1)
  PROVE  LinkedTo(ns, dm, slots, Len(slots), LinkAll(ns, slots))
<1>1. PICK m : m = Len(slots)
  OBVIOUS
<1>2. m \in Nat
  BY <1>1
<1> DEFINE Ds(i) == {s \in Seq(GraphNode) : LinkedTo(ns, dm, slots, i, s)}
           D == [i \in 0 .. m |-> Ds(i)]
           F == [i \in 1 .. m |-> [s \in Ds(i - 1) |-> LinkBoth(s, slots[i])]]
<1>3. \A i \in 1 .. m : i - 1 \in 0 .. m /\ i \in 0 .. m
  BY <1>2
<1>4. ASSUME NEW i \in 1 .. m, NEW s \in Ds(i - 1) PROVE LinkBoth(s, slots[i]) \in Ds(i)
  <2>1. LinkedTo(ns, dm, slots, i, LinkBoth(s, slots[i]))
    BY <1>1, LinkBothIs
  <2> QED BY <2>1 DEF LinkedTo, Graph
<1>5. ns \in Ds(0)
  <2>1. 1 .. 0 = {}
    OBVIOUS
  <2> QED BY <2>1 DEF LinkedTo, Graph
<1> HIDE DEF Ds
<1>6. \A i \in 0 .. m : D[i] = Ds(i)
  OBVIOUS
<1>7. \A i \in 1 .. m : F[i] \in [Ds(i - 1) -> Ds(i)] /\ \A s \in Ds(i - 1) : F[i][s] = LinkBoth(s, slots[i])
  BY <1>4
<1> HIDE DEF D, F
<1>8. PICK f : IsRunIn(m, D, ns, F, f)
  <2>1. \A i \in 1 .. m : F[i] \in [D[i - 1] -> D[i]]
    BY <1>3, <1>6, <1>7
  <2>2. ns \in D[0]
    BY <1>2, <1>5, <1>6
  <2> QED BY <1>2, <2>1, <2>2, RunIn
<1>9. /\ f = [i \in 0 .. m |-> f[i]] /\ f[0] = ns /\ \A i \in 0 .. m : f[i] \in D[i]
      /\ \A i \in 1 .. m : f[i] = F[i][f[i - 1]]
  BY <1>8 DEF IsRunIn
<1>10. ASSUME NEW i \in 1 .. m PROVE f[i] = LinkBoth(f[i - 1], slots[i])
  <2>1. f[i - 1] \in Ds(i - 1)
    BY <1>3, <1>6, <1>9
  <2> QED BY <1>7, <1>9, <2>1
<1>11. f = [i \in 0 .. m |-> IF i = 0 THEN ns ELSE LinkBoth(f[i - 1], slots[i])]
  <2>1. ASSUME NEW i \in 0 .. m PROVE f[i] = IF i = 0 THEN ns ELSE LinkBoth(f[i - 1], slots[i])
    <3>1. i = 0 \/ i \in 1 .. m
      BY <1>2
    <3> QED BY <1>9, <1>10, <3>1
  <2> QED BY <1>9, <2>1
<1>12. PICK run : run = LinkRun(ns, slots)
  OBVIOUS
<1>13. run = [i \in 0 .. m |-> IF i = 0 THEN ns ELSE LinkBoth(run[i - 1], slots[i])]
  BY <1>1, <1>11, <1>12 DEF LinkRun
<1> DEFINE G == {i \in 0 .. m : run[i] \in Ds(i)}
<1>14. \A i \in 0 .. m : i \in G
  <2>1. 0 \in G
    BY <1>2, <1>5, <1>13
  <2>2. ASSUME NEW i \in 1 .. m, i - 1 \in G PROVE i \in G
    <3>1. run[i - 1] \in Ds(i - 1)
      BY <2>2
    <3>2. run[i] = LinkBoth(run[i - 1], slots[i])
      BY <1>3, <1>13
    <3> QED BY <1>3, <1>4, <3>1, <3>2
  <2> HIDE DEF G
  <2> QED BY <1>2, <2>1, <2>2, Rounds
<1>15. run[m] \in Ds(m)
  BY <1>2, <1>14
<1> QED BY <1>1, <1>12, <1>15, LinkAllIs DEF Ds

----------------------------------------------------------------------------
(* What AddVector keeps of the graph.                                      *)

\* The first o nodes are linked among themselves, within M neighbours, and
\* each has a way out; the entry point is one of them.
IndexAt(ns, dm, e, o) ==
  /\ Graph(ns, dm) /\ dm \in Nat
  /\ ns = <<>> => dm = 0 /\ e = 0
  /\ ns # <<>> => e \in 1 .. o
  /\ \A s \in 1 .. Len(ns) : Range(ns[s].nbrs) \subseteq 1 .. o
  /\ \A s \in 1 .. o : Len(ns[s].nbrs) <= M
  /\ o > 1 => \A s \in 1 .. o : ns[s].nbrs # <<>>

LEMMA VectorIs == ASSUME NEW v \in Vectors PROVE Len(v) \in Nat /\ Len(v) # 0
BY AnnAssumption

\* Once there is a node, the vectors have the length of dim.
LEMMA DimIs ==
  ASSUME NEW ns, NEW dm, Graph(ns, dm), ns # <<>>
  PROVE  dm \in Nat /\ dm # 0 /\ Len(ns) \in Nat /\ Len(ns) >= 1 /\ DOMAIN ns = 1 .. Len(ns)
<1>1. Len(ns) \in Nat /\ Len(ns) >= 1 /\ DOMAIN ns = 1 .. Len(ns)
  BY DEF Graph
<1>2. 1 \in 1 .. Len(ns)
  BY <1>1
<1>3. ns[1].vec \in Vectors /\ Len(ns[1].vec) = dm
  BY <1>2, NodeIs
<1> QED BY <1>1, <1>3, VectorIs

LEMMA NodeNew ==
  ASSUME NEW id \in ID, NEW v \in Vectors
  PROVE  Node(id, v) \in GraphNode /\ Node(id, v).nbrs = <<>> /\ Node(id, v).vec = v
<1>1. <<>> \in Seq(Nat)
  OBVIOUS
<1> QED BY <1>1 DEF Node, GraphNode

LEMMA EmptyList == Len(<<>>) = 0 /\ 1 .. 0 = {} /\ Range(<<>>) = {}
<1>1. Len(<<>>) = 0 /\ 1 .. 0 = {} /\ DOMAIN <<>> = {}
  OBVIOUS
<1> QED BY <1>1 DEF Range

LEMMA FirstNode ==
  ASSUME NEW id \in ID, NEW v \in Vectors
  PROVE  IndexAt(<<Node(id, v)>>, Len(v), 1, 1)
<1>1. PICK x : x = Node(id, v)
  OBVIOUS
<1>2. x \in GraphNode /\ x.nbrs = <<>> /\ x.vec = v
  BY <1>1, NodeNew
<1>3. PICK ns : ns = <<x>>
  OBVIOUS
<1>4. ns \in Seq(GraphNode) /\ Len(ns) = 1 /\ ns[1] = x /\ ns # <<>> /\ 1 .. 1 = {1}
  BY <1>2, <1>3
<1>5. GoodLinks(ns, 1)
  BY <1>2, <1>4, EmptyList DEF GoodLinks
<1>6. Graph(ns, Len(v))
  BY <1>2, <1>4, <1>5 DEF Graph
<1>7. M \in Nat /\ Len(v) \in Nat
  BY AnnAssumption, VectorIs
<1>8. IndexAt(ns, Len(v), 1, 1)
  BY <1>2, <1>4, <1>6, <1>7, EmptyList DEF IndexAt
<1> QED BY <1>1, <1>3, <1>8

\* us is ns and the new node.
Appended(ns, id, v, us) ==
  /\ us \in Seq(GraphNode) /\ Len(us) = Len(ns) + 1 /\ us[Len(ns) + 1] = Node(id, v)
  /\ \A s \in 1 .. Len(ns) : us[s] = ns[s]

LEMMA AppendNode ==
  ASSUME NEW ns, NEW dm, NEW e, IndexAt(ns, dm, e, Len(ns)), ns # <<>>,
         NEW id \in ID, NEW v \in Vectors, Len(v) = dm, NEW u, Appended(ns, id, v, u)
  PROVE  IndexAt(u, dm, e, Len(u) - 1) /\ Len(u) = Len(ns) + 1 /\ u # <<>>
<1>1. PICK x, o : x = Node(id, v) /\ o = Len(ns)
  OBVIOUS
<1>2. x \in GraphNode /\ x.nbrs = <<>> /\ x.vec = v
  BY <1>1, NodeNew
<1>3. /\ Graph(ns, dm) /\ dm \in Nat /\ e \in 1 .. o
      /\ \A s \in 1 .. o : Range(ns[s].nbrs) \subseteq 1 .. o
      /\ \A s \in 1 .. o : Len(ns[s].nbrs) <= M
      /\ o > 1 => \A s \in 1 .. o : ns[s].nbrs # <<>>
  BY <1>1 DEF IndexAt
<1>4. ns \in Seq(GraphNode) /\ o \in Nat
  BY <1>1, <1>3 DEF Graph
<1>5. u \in Seq(GraphNode) /\ Len(u) = o + 1 /\ u[o + 1] = x /\ u # <<>> /\ \A s \in 1 .. o : u[s] = ns[s]
  <2>1. u \in Seq(GraphNode) /\ Len(u) = o + 1 /\ u[o + 1] = x /\ \A s \in 1 .. o : u[s] = ns[s]
    BY <1>1 DEF Appended
  <2> QED BY <1>4, <2>1, EmptyList
<1>6. \A s \in 1 .. Len(u) : s \in 1 .. o \/ s = o + 1
  BY <1>4, <1>5
<1>7. ASSUME NEW s \in 1 .. Len(u) PROVE Len(u[s].vec) = dm /\ GoodLinks(u, s)
  <2>1. CASE s \in 1 .. o
    <3>1. Len(ns[s].vec) = dm /\ GoodLinks(ns, s)
      BY <1>1, <1>3, <2>1 DEF Graph
    <3>2. 1 .. Len(ns) \subseteq 1 .. Len(u)
      BY <1>1, <1>4, <1>5
    <3> QED BY <1>5, <2>1, <3>1, <3>2 DEF GoodLinks
  <2>2. CASE s = o + 1
    BY <1>2, <1>5, <2>2, EmptyList DEF GoodLinks
  <2> QED BY <1>6, <2>1, <2>2
<1>8. Graph(u, dm)
  BY <1>5, <1>7 DEF Graph
<1>9. \A s \in 1 .. Len(u) : Range(u[s].nbrs) \subseteq 1 .. o
  BY <1>2, <1>3, <1>5, <1>6, EmptyList
<1>10. IndexAt(u, dm, e, o)
  BY <1>3, <1>5, <1>8, <1>9 DEF IndexAt
<1>11. Len(u) - 1 = o
  BY <1>4, <1>5
<1> QED BY <1>1, <1>5, <1>10, <1>11

\* us is ns with another vector at s.
Revector(ns, s, v, us) ==
  /\ us \in Seq(GraphNode) /\ Len(us) = Len(ns) /\ us[s].vec = v /\ us[s].nbrs = ns[s].nbrs
  /\ \A t \in 1 .. Len(ns) : t # s => us[t] = ns[t]

LEMMA NewVector ==
  ASSUME NEW ns, NEW dm, NEW e, IndexAt(ns, dm, e, Len(ns)), NEW s \in 1 .. Len(ns),
         NEW v \in Vectors, Len(v) = dm, NEW u, Revector(ns, s, v, u)
  PROVE  IndexAt(u, dm, e, Len(u)) /\ Len(u) = Len(ns)
<1>1. PICK o : o = Len(ns)
  OBVIOUS
<1>2. /\ Graph(ns, dm) /\ dm \in Nat /\ (ns # <<>> => e \in 1 .. o)
      /\ \A t \in 1 .. o : Range(ns[t].nbrs) \subseteq 1 .. o
      /\ \A t \in 1 .. o : Len(ns[t].nbrs) <= M
      /\ o > 1 => \A t \in 1 .. o : ns[t].nbrs # <<>>
  BY <1>1 DEF IndexAt
<1>3. ns \in Seq(GraphNode) /\ o \in Nat /\ ns[s] \in GraphNode /\ ns # <<>>
  BY <1>1, <1>2 DEF Graph
<1>6. /\ u \in Seq(GraphNode) /\ Len(u) = o /\ u[s].vec = v /\ u[s].nbrs = ns[s].nbrs
      /\ \A t \in 1 .. o : t # s => u[t] = ns[t]
  BY <1>1 DEF Revector
<1>7. \A t \in 1 .. o : u[t].nbrs = ns[t].nbrs
  BY <1>6
<1>8. ASSUME NEW t \in 1 .. Len(u) PROVE Len(u[t].vec) = dm /\ GoodLinks(u, t)
  <2>1. t \in 1 .. o /\ Len(ns[t].vec) = dm /\ GoodLinks(ns, t)
    BY <1>1, <1>2, <1>6 DEF Graph
  <2>2. Len(u[t].vec) = dm
    BY <1>6, <2>1
  <2>3. u[t].nbrs = ns[t].nbrs /\ Len(u) = Len(ns)
    BY <1>1, <1>6, <1>7, <2>1
  <2> QED BY <2>1, <2>2, <2>3 DEF GoodLinks
<1>9. Graph(u, dm) /\ u # <<>>
  <2>1. Graph(u, dm)
    BY <1>6, <1>8 DEF Graph
  <2>2. o # 0
    BY <1>1, <1>3
  <2> QED BY <1>6, <2>1, <2>2, EmptyList
<1>10. IndexAt(u, dm, e, o)
  BY <1>2, <1>3, <1>6, <1>7, <1>9 DEF IndexAt
<1> QED BY <1>1, <1>6, <1>10

\* Linking the new node leaves no node without a neighbour and none with too many.
LEMMA LinkNode ==
  ASSUME NEW ns, NEW dm, NEW e, IndexAt(ns, dm, e, Len(ns) - 1), ns # <<>>,
         NEW slots \in Seq(1 .. Len(ns) - 1), slots # <<>>,
         NEW u, u = Prune(LinkAll(ns, slots), Len(ns)), NEW f \in {e, Len(ns)}
  PROVE  IndexAt(u, dm, f, Len(u)) /\ Len(u) = Len(ns)
<1>1. PICK K, ms : K = Len(ns) /\ ms = LinkAll(ns, slots)
  OBVIOUS
<1>2. /\ Graph(ns, dm) /\ dm \in Nat /\ e \in 1 .. K - 1
      /\ \A s \in 1 .. K - 1 : Len(ns[s].nbrs) <= M
      /\ K - 1 > 1 => \A s \in 1 .. K - 1 : ns[s].nbrs # <<>>
  BY <1>1 DEF IndexAt
<1>3. K \in Nat /\ K >= 1 /\ K \in 1 .. K /\ K - 1 \in Nat /\ f \in 1 .. K
  <2>1. K \in Nat /\ K >= 1
    BY <1>1, <1>2, DimIs
  <2> QED BY <1>1, <1>2, <2>1
<1>4. LinkedTo(ns, dm, slots, Len(slots), ms)
  BY <1>1, <1>2, LinksAll
<1>5. /\ Graph(ms, dm) /\ Len(ms) = K
      /\ \A s \in 1 .. K - 1 : Len(ms[s].nbrs) <= M
      /\ \A s \in 1 .. K : ns[s].nbrs # <<>> => ms[s].nbrs # <<>>
      /\ \A j \in 1 .. Len(slots) : ms[slots[j]].nbrs # <<>>
      /\ Len(slots) >= 1 => ms[K].nbrs # <<>>
  BY <1>1, <1>4 DEF LinkedTo
<1>6. Len(slots) >= 1 /\ 1 \in 1 .. Len(slots) /\ slots[1] \in 1 .. K - 1
  BY <1>1
<1>7. Relinked(dm, ms, K, u) /\ Len(u[K].nbrs) <= M /\ (ms[K].nbrs # <<>> => u[K].nbrs # <<>>)
  BY <1>1, <1>3, <1>5, PruneIs
<1>8. Graph(u, dm) /\ Len(u) = K /\ \A s \in 1 .. K : s # K => u[s] = ms[s]
  BY <1>5, <1>7 DEF Relinked
<1>9. \A s \in 1 .. K : s = K \/ (s # K /\ s \in 1 .. K - 1)
  BY <1>3
<1>10. \A s \in 1 .. K : Len(u[s].nbrs) <= M
  BY <1>5, <1>7, <1>8, <1>9
<1>11. ASSUME NEW s \in 1 .. K PROVE u[s].nbrs # <<>>
  <2>1. CASE s = K
    BY <1>5, <1>6, <1>7, <2>1
  <2>2. CASE s # K
    <3>1. ms[s].nbrs # <<>>
      <4>1. CASE K - 1 > 1
        BY <1>2, <1>5, <1>9, <2>2, <4>1
      <4>2. CASE ~ (K - 1 > 1)
        <5>1. s = 1 /\ slots[1] = 1
          BY <1>3, <1>6, <1>9, <2>2, <4>2
        <5> QED BY <1>5, <1>6, <5>1
      <4> QED BY <4>1, <4>2
    <3> QED BY <1>8, <2>2, <3>1
  <2> QED BY <2>1, <2>2
<1>12. \A s \in 1 .. K : Range(u[s].nbrs) \subseteq 1 .. K
  <2>1. ASSUME NEW s \in 1 .. Len(u) PROVE Range(u[s].nbrs) \subseteq 1 .. Len(u)
    BY <1>8, NodeIs
  <2> QED BY <1>8, <2>1
<1>13. u # <<>>
  BY <1>3, <1>8, EmptyList
<1>14. IndexAt(u, dm, f, K)
  BY <1>2, <1>3, <1>8, <1>10, <1>11, <1>12, <1>13 DEF IndexAt
<1> QED BY <1>1, <1>8, <1>14

\* What can be reached is among the first o nodes.
LEMMA ReachWithin ==
  ASSUME NEW ns, NEW dm, NEW e, NEW o \in Int, o <= Len(ns), IndexAt(ns, dm, e, o), ns # <<>>
  PROVE  Reach(ns, e) \subseteq 1 .. o /\ e \in 1 .. Len(ns)
<1>1. Graph(ns, dm) /\ e \in 1 .. o /\ \A s \in 1 .. Len(ns) : Range(ns[s].nbrs) \subseteq 1 .. o
  BY DEF IndexAt
<1>2. 1 .. o \subseteq 1 .. Len(ns)
  <2>1. Len(ns) \in Nat
    BY <1>1, DimIs
  <2> QED BY <2>1
<1>3. PICK S : S = 1 .. o
  OBVIOUS
<1>4. S \subseteq 1 .. Len(ns) /\ e \in S /\ \A t \in S : Range(ns[t].nbrs) \subseteq S
  BY <1>1, <1>2, <1>3
<1>5. Reach(ns, e) \subseteq S
  BY <1>1, <1>4, ReachLeast
<1> QED BY <1>1, <1>2, <1>3, <1>5

\* The nodes that the new one is linked to.
LEMMA LinkSlots ==
  ASSUME NEW ns, NEW dm, NEW e, NEW o \in Int, o <= Len(ns), IndexAt(ns, dm, e, o), ns # <<>>,
         NEW q \in Vectors, Len(q) = dm, NEW ef \in Nat \ {0}, NEW s, LoopAt(ns, e, q, ef, s, {}), s.maxQ = maxQ,
         NEW slots, slots = Slot(Nearest(DrainCandidates, M))
  PROVE  slots \in Seq(1 .. o) /\ slots # <<>>
<1>1. PICK I, d, R : I = 1 .. Len(ns) /\ d = Dists(ns, q) /\ R = Items(I, d)
  OBVIOUS
<1>2. Graph(ns, dm)
  BY DEF IndexAt
<1>3. \A v \in I : d[v] \in Int
  BY <1>1, <1>2, DistsAre
<1>4. Comparable(R)
  BY <1>1, <1>3, ItemsAre
<1>5. PICK V : V = Marked(s.ws)
  OBVIOUS
<1>6. KBest(I, d, maxQ, ef, V) /\ e \in V /\ V \subseteq 1 .. o
  <2>1. KBest(I, d, maxQ, ef, V) /\ e \in V /\ V \subseteq Reach(ns, e)
    BY <1>1, <1>5 DEF LoopAt
  <2> QED BY <2>1, ReachWithin
<1>7. maxQ \in Seq(R) /\ GoodHeap(-1, maxQ) /\ Ids(maxQ) \subseteq 1 .. o /\ Len(maxQ) \in Nat /\ Len(maxQ) >= 1
  <2>1. maxQ \in Seq(Items(I, d)) /\ GoodHeap(-1, maxQ) /\ Ids(maxQ) \subseteq V /\ (Len(maxQ) < ef => Ids(maxQ) = V)
    BY <1>6 DEF KBest
  <2>2. Len(maxQ) \in Nat
    BY <2>1
  <2>3. Len(maxQ) # 0
    <3>1. Len(maxQ) = 0 => Ids(maxQ) = V
      BY <2>1
    <3>2. Len(maxQ) = 0 => Ids(maxQ) = {}
      BY EmptyList DEF Ids
    <3>3. V # {}
      BY <1>6
    <3> QED BY <3>1, <3>2, <3>3
  <2>4. Len(maxQ) >= 1
    BY <2>2, <2>3
  <2>5. Ids(maxQ) \subseteq 1 .. o
    BY <1>6, <2>1
  <2>6. maxQ \in Seq(R)
    BY <1>1, <2>1
  <2> QED BY <2>1, <2>2, <2>4, <2>5, <2>6
<1>8. PICK c, r : c = DrainCandidates /\ r = Nearest(c, M)
  OBVIOUS
<1>9. c \in Seq(R) /\ Len(c) = Len(maxQ) /\ Distinct(c) /\ Range(c) = Range(maxQ)
  <2>1. c = Reverse(PopAll(-1, maxQ))
    BY <1>8 DEF DrainCandidates
  <2> QED BY <1>4, <1>7, <2>1, Drained
<1>10. M \in Nat /\ M >= 1
  BY AnnAssumption
<1>11. r \in Seq(R) /\ Len(r) >= 1 /\ Range(r) \subseteq Range(maxQ)
  <2>1. IsNearest(R, c, M, r)
    BY <1>4, <1>8, <1>9, <1>10, NearestIs
  <2>2. r \in Seq(R) /\ Len(r) = (IF M <= Len(c) THEN M ELSE Len(c)) /\ Range(r) \subseteq Range(c)
    BY <2>1 DEF IsNearest
  <2> QED BY <1>7, <1>9, <1>10, <2>2
<1>12. Ids(r) \subseteq 1 .. o
  <2>1. Ids(r) = {y.id : y \in Range(r)} /\ Ids(maxQ) = {y.id : y \in Range(maxQ)}
    BY <1>7, <1>11, IdsAre
  <2> QED BY <1>7, <1>11, <2>1
<1>13. slots = [i \in 1 .. Len(r) |-> r[i].id] /\ Len(slots) = Len(r)
  <2>1. Slot(r) = [i \in 1 .. Len(r) |-> r[i].id] /\ Len(Slot(r)) = Len(r)
    BY <1>11, SlotIs
  <2> QED BY <1>8, <2>1
<1>14. \A i \in 1 .. Len(r) : slots[i] \in 1 .. o
  BY <1>12, <1>13 DEF Ids
<1>15. Len(r) \in Nat
  BY <1>11
<1>16. slots \in Seq(1 .. o)
  <2>1. PICK g \in Nat : g = Len(r)
    BY <1>15
  <2>2. slots \in [1 .. g -> 1 .. o]
    BY <1>13, <1>14, <2>1
  <2> QED BY <2>2
<1>17. slots # <<>>
  BY <1>11, <1>13, EmptyList
<1> QED BY <1>16, <1>17

----------------------------------------------------------------------------
(* The answer of a search.                                                 *)

\* r has the k nearest of Q, nearest first.
NearestOf(Q, ns, q, m, r) ==
  /\ Range(Slot(r)) \subseteq Q
  /\ Len(r) = Min({m, Cardinality(Q)}) /\ Cardinality(Range(Slot(r))) = Len(r)
  /\ \A i \in DOMAIN r : r[i] = Pair(ns, r[i].id, q)
  /\ \A i \in 1 .. Len(r) - 1 : r[i].distance <= r[i + 1].distance
  /\ r # <<>> => \A s \in Q \ Range(Slot(r)) : Pair(ns, s, q).distance >= Last(r).distance

LEMMA ResultsAre ==
  ASSUME NEW ns, NEW dm, Graph(ns, dm), NEW q \in Vectors, Len(q) = dm, NEW ef, NEW V,
         KBest(1 .. Len(ns), Dists(ns, q), maxQ, ef, V), deletedCount = 0 <=> deleted = {},
         NEW m \in Nat, NEW r, r = Results(m)
  PROVE  NearestOf(Ids(maxQ) \ deleted, ns, q, m, r)
<1>1. PICK I, d, R : I = 1 .. Len(ns) /\ d = Dists(ns, q) /\ R = Items(I, d)
  OBVIOUS
<1>2. /\ \A v \in I : d[v] \in Int
      /\ \A v \in I : Pair(ns, v, q) = [id |-> v, distance |-> d[v]]
  BY <1>1, DistsAre
<1>3. /\ Comparable(R)
      /\ \A x \in R : x.id \in I /\ x.distance = d[x.id] /\ x = [id |-> x.id, distance |-> d[x.id]]
  BY <1>1, <1>2, ItemsAre
<1>4. maxQ \in Seq(R) /\ GoodHeap(-1, maxQ)
  BY <1>1 DEF KBest
<1>5. PICK c, L : c = DrainCandidates /\ L = LiveCandidates(c)
  OBVIOUS
<1>6. c \in Seq(R) /\ Distinct(c) /\ Range(c) = Range(maxQ)
  <2>1. c = Reverse(PopAll(-1, maxQ))
    BY <1>5 DEF DrainCandidates
  <2> QED BY <1>3, <1>4, <2>1, Drained
<1>7. L \in Seq(R) /\ Distinct(L) /\ Ids(L) = Ids(maxQ) \ deleted
  <2>1. L \in Seq(R) /\ Distinct(L) /\ Ids(L) = Ids(c) \ deleted
    BY <1>5, <1>6, LiveIs
  <2>2. Ids(c) = {y.id : y \in Range(c)} /\ Ids(maxQ) = {y.id : y \in Range(maxQ)}
    BY <1>4, <1>6, IdsAre
  <2> QED BY <1>6, <2>1, <2>2
<1>8. PICK Q : Q = Ids(maxQ) \ deleted
  OBVIOUS
<1>9. Cardinality(Q) = Len(L) /\ Len(L) \in Nat
  <2>1. Cardinality(Ids(L)) = Len(L)
    BY <1>7, CountIds
  <2> QED BY <1>7, <1>8, <2>1
<1>10. r = Nearest(L, m)
  BY <1>5 DEF Results
<1>11. /\ r \in Seq(R) /\ Len(r) = (IF m <= Len(L) THEN m ELSE Len(L)) /\ Distinct(r) /\ Range(r) \subseteq Range(L)
       /\ \A i \in 1 .. Len(r) - 1 : r[i].distance <= r[i + 1].distance
       /\ \A y \in Range(L) \ Range(r) : Len(r) >= 1 => r[Len(r)].distance <= y.distance
  <2>1. IsNearest(R, L, m, r)
    BY <1>3, <1>7, <1>10, NearestIs
  <2> QED BY <2>1 DEF IsNearest
<1>12. Ids(r) = {y.id : y \in Range(r)} /\ Ids(L) = {y.id : y \in Range(L)}
  BY <1>7, <1>11, IdsAre
<1>13. Range(Slot(r)) = Ids(r) /\ Cardinality(Ids(r)) = Len(r)
  BY <1>11, SlotIs, CountIds
<1>14. Range(Slot(r)) \subseteq Q
  BY <1>7, <1>8, <1>11, <1>12, <1>13
<1>15. Len(r) = Min({m, Cardinality(Q)})
  <2>1. PICK g \in Int : g = Cardinality(Q)
    BY <1>9
  <2>2. Min({m, g}) = IF m <= g THEN m ELSE g
    BY MinOfTwo
  <2> QED BY <1>9, <1>11, <2>1, <2>2
<1>16. ASSUME NEW x \in R PROVE x = Pair(ns, x.id, q)
  BY <1>2, <1>3
<1>17. ASSUME NEW i \in DOMAIN r PROVE r[i] = Pair(ns, r[i].id, q)
  <2>1. r[i] \in R
    BY <1>11
  <2> QED BY <1>16, <2>1
<1>18. ASSUME r # <<>>, NEW s \in Q \ Range(Slot(r)) PROVE Pair(ns, s, q).distance >= Last(r).distance
  <2>1. PICK y \in Range(L) : s = y.id
    BY <1>7, <1>8, <1>12
  <2>2. y \notin Range(r)
    BY <1>12, <1>13, <1>18, <2>1
  <2>3. Len(r) \in Nat /\ Len(r) >= 1 /\ Len(r) \in 1 .. Len(r)
    BY <1>11, <1>18
  <2>4. r[Len(r)].distance <= y.distance
    BY <1>11, <2>1, <2>2, <2>3
  <2>5. y \in R /\ r[Len(r)] \in R
    <3>1. Range(L) \subseteq R
      BY <1>7, RangeIs
    <3>2. r[Len(r)] \in R
      BY <1>11, <2>3
    <3> QED BY <2>1, <3>1, <3>2
  <2>6. y = Pair(ns, s, q) /\ y.distance \in Int /\ r[Len(r)].distance \in Int
    BY <1>3, <1>16, <2>1, <2>5 DEF Comparable
  <2>7. Last(r) = r[Len(r)]
    BY DEF Last
  <2> QED BY <2>4, <2>6, <2>7
<1>19. NearestOf(Q, ns, q, m, r)
  BY <1>11, <1>13, <1>14, <1>15, <1>17, <1>18 DEF NearestOf
<1> QED BY <1>8, <1>19

\* When the loop ends and ef was enough, every node that can be reached is a candidate.
LEMMA AllReached ==
  ASSUME NEW dm, Graph(nodes, dm), op.query \in Vectors, Len(op.query) = dm, op.ef \in Nat \ {0},
         NEW e \in 1 .. Len(nodes), NEW s, LoopAt(nodes, e, op.query, op.ef, s, {}), s.minQ = minQ, s.maxQ = maxQ,
         LoopEnds, Cardinality(Reach(nodes, e)) <= op.ef
  PROVE  Ids(maxQ) = Reach(nodes, e)
<1>1. PICK I, d, V, Z, ef : I = 1 .. Len(nodes) /\ d = Dists(nodes, op.query) /\ V = Marked(s.ws) /\ Z = Reach(nodes, e) /\ ef = op.ef
  OBVIOUS
<1>2. /\ KBest(I, d, maxQ, ef, V) /\ GoodHeap(1, minQ) /\ Ids(minQ) \subseteq V /\ e \in V /\ V \subseteq Z
      /\ minQ \in Seq(Items(I, d))
      /\ \A t \in V \ {} : t \in Ids(minQ) \/ Range(nodes[t].nbrs) \subseteq V
  BY <1>1 DEF LoopAt, SearchState
<1>3. maxQ \in Seq(Items(I, d)) /\ Distinct(maxQ) /\ Ids(maxQ) \subseteq V /\ Len(maxQ) <= ef /\ (Len(maxQ) < ef => Ids(maxQ) = V)
  BY <1>2 DEF KBest, GoodHeap
<1>4. Len(maxQ) \in Nat /\ ef \in Nat
  BY <1>1, <1>3
<1>5. IsFiniteSet(Z) /\ Z \subseteq I /\ Cardinality(Z) \in Nat /\ Cardinality(Z) <= ef
  <2>1. IsFiniteSet(Z) /\ Z \subseteq I
    BY <1>1, ReachIs
  <2> QED BY <1>1, <2>1, FS_CardinalityType
<1>6. CASE Len(maxQ) < ef
  <2>1. minQ = <<>>
    BY <1>1, <1>4, <1>6 DEF LoopEnds
  <2>2. Ids(minQ) = {}
    BY <2>1, EmptyList DEF Ids
  <2>3. \A t \in V : Range(nodes[t].nbrs) \subseteq V
    BY <1>2, <2>2
  <2>4. V \subseteq 1 .. Len(nodes)
    BY <1>1, <1>2, <1>5
  <2>5. Reach(nodes, e) \subseteq V
    BY <1>2, <2>3, <2>4, ReachLeast
  <2>6. Ids(maxQ) = V
    BY <1>3, <1>6
  <2> QED BY <1>1, <1>2, <2>5, <2>6
<1>7. CASE Len(maxQ) = ef
  <2>1. Cardinality(Ids(maxQ)) = ef
    BY <1>3, <1>7, CountIds
  <2>2. PICK X \in SUBSET Z : X = Ids(maxQ)
    BY <1>2, <1>3
  <2>3. Cardinality(X) <= Cardinality(Z) /\ (Cardinality(Z) = Cardinality(X) => Z = X)
    BY <1>5, FS_Subset
  <2>4. Cardinality(X) = ef
    BY <2>1, <2>2
  <2>5. Cardinality(Z) = Cardinality(X)
    BY <1>4, <1>5, <2>3, <2>4
  <2> QED BY <1>1, <2>2, <2>3, <2>5
<1> QED BY <1>3, <1>4, <1>6, <1>7

\* What tombstones cost.
LEMMA TombstonesCost ==
  ASSUME NEW I, NEW d, NEW ef \in Nat, NEW m \in Nat, NEW V, IsFiniteSet(V), KBest(I, d, maxQ, ef, V),
         IsFiniteSet(deleted), NEW ns, NEW q, NEW r, NearestOf(Ids(maxQ) \ deleted, ns, q, m, r)
  PROVE  /\ Range(Slot(r)) \cap deleted = {}
         /\ Len(r) >= Min({m, Min({ef, Cardinality(V)}) - Cardinality(deleted)})
<1>1. PICK X : X = Ids(maxQ)
  OBVIOUS
<1>2. Range(Slot(r)) \subseteq X \ deleted /\ Len(r) = Min({m, Cardinality(X \ deleted)})
  BY <1>1 DEF NearestOf
<1>3. /\ Len(maxQ) = (IF ef <= Cardinality(V) THEN ef ELSE Cardinality(V))
      /\ Cardinality(X) = Len(maxQ) /\ Cardinality(V) \in Nat
  BY <1>1, KBestCount
<1>4. IsFiniteSet(X)
  <2>1. X \subseteq V
    BY <1>1 DEF KBest
  <2> QED BY <2>1, FS_Subset
<1>5. /\ Cardinality(X \ deleted) = Cardinality(X) - Cardinality(X \cap deleted) /\ IsFiniteSet(X \ deleted)
      /\ Cardinality(X \cap deleted) <= Cardinality(deleted)
      /\ Cardinality(X \cap deleted) \in Nat /\ Cardinality(deleted) \in Nat /\ Cardinality(X) \in Nat
      /\ Cardinality(X \ deleted) \in Nat
  <2>1. IsFiniteSet(X \ deleted) /\ Cardinality(X \ deleted) = Cardinality(X) - Cardinality(X \cap deleted)
    BY <1>4, FS_Difference
  <2>2. PICK Y \in SUBSET deleted : Y = X \cap deleted
    OBVIOUS
  <2>3. IsFiniteSet(Y) /\ Cardinality(Y) <= Cardinality(deleted)
    BY FS_Subset
  <2>4. Cardinality(Y) \in Nat /\ Cardinality(deleted) \in Nat /\ Cardinality(X) \in Nat
    BY <1>4, <2>3, FS_CardinalityType
  <2>5. Cardinality(X \ deleted) \in Nat
    BY <2>1, FS_CardinalityType
  <2> QED BY <2>1, <2>2, <2>3, <2>4, <2>5
<1>6. PICK v, a, b \in Int : v = Cardinality(V) /\ a = Cardinality(X \ deleted) /\ b = Cardinality(deleted)
  BY <1>3, <1>5
<1>7. PICK g \in Int : g = Min({ef, v})
  <2>1. Min({ef, v}) = IF ef <= v THEN ef ELSE v
    BY MinOfTwo
  <2> QED BY <2>1
<1>8. g = Cardinality(X)
  <2>1. Min({ef, v}) = IF ef <= v THEN ef ELSE v
    BY MinOfTwo
  <2> QED BY <1>3, <1>6, <1>7, <2>1
<1>9. a \in Int /\ g - b <= a
  BY <1>5, <1>6, <1>8
<1>10. PICK h \in Int : h = g - b
  BY <1>6, <1>7
<1>11. Min({m, a}) >= Min({m, h})
  <2>1. Min({m, a}) = IF m <= a THEN m ELSE a
    BY MinOfTwo
  <2>2. Min({m, h}) = IF m <= h THEN m ELSE h
    BY MinOfTwo
  <2> QED BY <1>9, <1>10, <2>1, <2>2
<1> QED BY <1>2, <1>6, <1>7, <1>10, <1>11

----------------------------------------------------------------------------
(* The inductive invariant.                                                *)

IsOp(o) ==
  \/ o = NoCall
  \/ \E q \in Vectors, ef \in Nat \ {0} : o = [kind |-> "add", query |-> q, ef |-> ef]
  \/ \E q \in Vectors, ef \in Nat \ {0}, m \in Nat \ {0}, kd \in {"search", "answered"} :
       o = [kind |-> kd, query |-> q, ef |-> ef, k |-> m]

\* While a node is being added, it is the last, and no other has a link to it.
Linked(o, ns) == IF o.kind = "add" THEN Len(ns) - 1 ELSE Len(ns)

TombsAt(ns, del, count) == del \subseteq 1 .. Len(ns) /\ count = Cardinality(del)

\* A call has a workspace with a mark for each node.
CallAt(o, ns, dm, w) ==
  /\ IsOp(o) /\ GoodWs(w) /\ Len(w.marks) <= Len(ns)
  /\ o.kind # "none" => ns # <<>> /\ Len(o.query) = dm /\ Len(w.marks) = Len(ns)

RoundAt(o, ns, e, w, a, b) ==
  o.kind \in {"add", "search"} => LoopAt(ns, e, o.query, o.ef, [ws |-> w, minQ |-> a, maxQ |-> b], {})

AnnInv ==
  /\ IndexAt(nodes, dim, entrypoint, Linked(op, nodes))
  /\ TombsAt(nodes, deleted, deletedCount)
  /\ changes \in 0 .. MaxChanges
  /\ CallAt(op, nodes, dim, ws)
  /\ RoundAt(op, nodes, entrypoint, ws, minQ, maxQ)
  /\ AnswerExact
  /\ TombstonesBounded

LEMMA OpIs ==
  ASSUME NEW o, IsOp(o)
  PROVE  /\ o.kind \in {"none", "add", "search", "answered"} /\ (o.kind = "none" <=> o = NoCall)
         /\ o.kind # "none" => o.query \in Vectors /\ o.ef \in Nat \ {0}
         /\ o.kind \in {"search", "answered"} =>
              /\ o.k \in Nat \ {0}
              /\ o = [kind |-> o.kind, query |-> o.query, ef |-> o.ef, k |-> o.k]
<1>1. CASE o = NoCall
  BY <1>1 DEF NoCall
<1>2. ASSUME NEW q \in Vectors, NEW ef \in Nat \ {0}, o = [kind |-> "add", query |-> q, ef |-> ef]
      PROVE  o.kind = "add" /\ o.query = q /\ o.ef = ef /\ o # NoCall
  BY <1>2 DEF NoCall
<1>3. ASSUME NEW q \in Vectors, NEW ef \in Nat \ {0}, NEW m \in Nat \ {0}, NEW kd \in {"search", "answered"},
             o = [kind |-> kd, query |-> q, ef |-> ef, k |-> m]
      PROVE  o.kind = kd /\ o.query = q /\ o.ef = ef /\ o.k = m /\ o # NoCall
  BY <1>3 DEF NoCall
<1> QED BY <1>1, <1>2, <1>3 DEF IsOp

LEMMA CallIs ==
  ASSUME NEW o, NEW ns, NEW dm, NEW w, CallAt(o, ns, dm, w)
  PROVE  /\ o.kind \in {"none", "add", "search", "answered"} /\ (o.kind = "none" <=> o = NoCall)
         /\ GoodWs(w) /\ Len(w.marks) <= Len(ns) /\ Len(w.marks) \in Nat
         /\ o.kind # "none" => /\ ns # <<>> /\ Len(o.query) = dm /\ Len(w.marks) = Len(ns)
                               /\ o.query \in Vectors /\ o.ef \in Nat \ {0}
         /\ o.kind \in {"search", "answered"} =>
              /\ o.k \in Nat \ {0}
              /\ o = [kind |-> o.kind, query |-> o.query, ef |-> o.ef, k |-> o.k]
<1>1. IsOp(o) /\ GoodWs(w) /\ Len(w.marks) <= Len(ns)
  BY DEF CallAt
<1>2. Len(w.marks) \in Nat
  BY <1>1 DEF GoodWs, Workspace
<1>3. o.kind # "none" => ns # <<>> /\ Len(o.query) = dm /\ Len(w.marks) = Len(ns)
  BY DEF CallAt
<1> QED BY <1>1, <1>2, <1>3, OpIs

LEMMA NoCallIs == NoCall.kind = "none" /\ IsOp(NoCall)
BY DEF NoCall, IsOp

LEMMA TombsAre ==
  ASSUME NEW ns, NEW dm, Graph(ns, dm), NEW del, NEW count, TombsAt(ns, del, count)
  PROVE  /\ IsFiniteSet(del) /\ count \in Nat /\ count <= Len(ns) /\ (count = 0 <=> del = {})
<1>1. del \in SUBSET (1 .. Len(ns)) /\ count = Cardinality(del) /\ Len(ns) \in Nat
  BY DEF TombsAt, Graph
<1>2. IsFiniteSet(1 .. Len(ns)) /\ Cardinality(1 .. Len(ns)) = Len(ns)
  <2>1. IsFiniteSet(1 .. Len(ns)) /\ Cardinality(1 .. Len(ns)) = IF 1 > Len(ns) THEN 0 ELSE Len(ns) - 1 + 1
    BY <1>1, FS_Interval
  <2> QED BY <1>1, <2>1
<1>3. IsFiniteSet(del) /\ Cardinality(del) <= Len(ns)
  BY <1>1, <1>2, FS_Subset
<1>4. Cardinality(del) \in Nat /\ (Cardinality(del) = 0 <=> del = {})
  BY <1>3, FS_CardinalityType, FS_EmptySet
<1> QED BY <1>1, <1>3, <1>4

LEMMA TombsKeep ==
  ASSUME NEW ns, NEW us, Len(ns) <= Len(us), Len(ns) \in Nat, Len(us) \in Nat, NEW del, NEW count, TombsAt(ns, del, count)
  PROVE  TombsAt(us, del, count)
<1>1. 1 .. Len(ns) \subseteq 1 .. Len(us)
  OBVIOUS
<1> QED BY <1>1 DEF TombsAt

LEMMA AcceptsIs ==
  ASSUME NEW e, NEW o, IndexAt(nodes, dim, e, o), nodes # <<>>, NEW v, Accepts(v)
  PROVE  Len(v) = dim
<1>1. dim # 0
  BY DimIs DEF IndexAt
<1> QED BY <1>1 DEF Accepts

LEMMA SlotOfIs == ASSUME NEW id, Known(id) PROVE SlotOf(id) \in DOMAIN nodes
BY DEF Known, SlotOf, Slots

LEMMA NotAnswered == op'.kind # "answered" => AnswerExact' /\ TombstonesBounded'
BY DEF AnswerExact, TombstonesBounded

LEMMA AnnStarts == Init => AnnInv
<1> SUFFICES ASSUME Init PROVE AnnInv
  OBVIOUS
<1>1. /\ nodes = <<>> /\ dim = 0 /\ entrypoint = 0 /\ deleted = {} /\ deletedCount = 0
      /\ ws = NewWorkspace /\ op = NoCall /\ changes = 0
  BY DEF Init
<1>2. MaxChanges \in Nat /\ M \in Nat
  BY AnnAssumption
<1>3. Graph(nodes, 0) /\ Len(nodes) = 0
  <2>1. nodes \in Seq(GraphNode) /\ Len(nodes) = 0
    BY <1>1
  <2> QED BY <2>1, EmptyList DEF Graph
<1>4. op.kind = "none" /\ IsOp(op)
  BY <1>1, NoCallIs
<1>5. IndexAt(nodes, dim, entrypoint, Linked(op, nodes))
  <2>1. Linked(op, nodes) = 0
    BY <1>3, <1>4 DEF Linked
  <2>2. IndexAt(nodes, dim, entrypoint, 0)
    BY <1>1, <1>3, EmptyList DEF IndexAt
  <2> QED BY <2>1, <2>2
<1>6. TombsAt(nodes, deleted, deletedCount)
  BY <1>1, FS_EmptySet DEF TombsAt
<1>7. CallAt(op, nodes, dim, ws)
  BY <1>1, <1>3, <1>4, NewIs DEF CallAt
<1>8. RoundAt(op, nodes, entrypoint, ws, minQ, maxQ)
  BY <1>4 DEF RoundAt
<1>9. AnswerExact /\ TombstonesBounded
  BY <1>4 DEF AnswerExact, TombstonesBounded
<1> QED BY <1>1, <1>2, <1>5, <1>6, <1>7, <1>8, <1>9 DEF AnnInv

LEMMA AnnStutters == AnnInv /\ UNCHANGED vars => AnnInv'
<1> SUFFICES ASSUME AnnInv, UNCHANGED vars PROVE AnnInv'
  OBVIOUS
<1>1. /\ nodes' = nodes /\ dim' = dim /\ entrypoint' = entrypoint /\ deleted' = deleted /\ deletedCount' = deletedCount
      /\ ws' = ws /\ op' = op /\ minQ' = minQ /\ maxQ' = maxQ /\ answer' = answer /\ changes' = changes
  BY DEF vars, graphVars, tombVars, callVars
<1>2. AnswerExact' /\ TombstonesBounded'
  <2>1. AnswerExact /\ TombstonesBounded
    BY DEF AnnInv
  <2>2. Reachable' = Reachable /\ Visited' = Visited
    BY <1>1 DEF Reachable, Closed, Visited, Slots, IsVisited
  <2>3. AnswerExact'
    BY <1>1, <2>1, <2>2 DEF AnswerExact
  <2>4. TombstonesBounded'
    BY <1>1, <2>1, <2>2 DEF TombstonesBounded
  <2> QED BY <2>3, <2>4
<1> QED BY <1>1, <1>2 DEF AnnInv

\* Calls without a search: AddVector of the first vector and of a known id, and
\* DeleteVector.
LEMMA AddFirstKeeps == ASSUME NEW id \in ID, NEW v \in Vectors PROVE AnnInv /\ AddFirst(id, v) => AnnInv'
<1> SUFFICES ASSUME AnnInv, AddFirst(id, v) PROVE AnnInv'
  OBVIOUS
<1>1. /\ op = NoCall /\ nodes = <<>> /\ nodes' = <<Node(id, v)>> /\ dim' = Len(v) /\ entrypoint' = 1
      /\ deleted' = deleted /\ deletedCount' = deletedCount
      /\ ws' = ws /\ op' = op /\ minQ' = minQ /\ maxQ' = maxQ /\ changes' = changes
  BY DEF AddFirst, tombVars, callVars
<1>2. /\ TombsAt(nodes, deleted, deletedCount) /\ changes \in 0 .. MaxChanges /\ CallAt(op, nodes, dim, ws)
  BY DEF AnnInv
<1>3. op.kind = "none" /\ IsOp(op)
  BY <1>1, NoCallIs
<1>4. PICK us : us = nodes'
  OBVIOUS
<1>5. Len(us) = 1 /\ Len(nodes) = 0
  BY <1>1, <1>4
<1>6. IndexAt(us, Len(v), 1, 1)
  BY <1>1, <1>4, FirstNode
<1>7. IndexAt(nodes', dim', entrypoint', Linked(op', nodes'))
  <2>1. Linked(op', nodes') = 1
    BY <1>1, <1>3, <1>4, <1>5 DEF Linked
  <2> QED BY <1>1, <1>4, <1>6, <2>1
<1>8. TombsAt(nodes', deleted', deletedCount')
  <2>1. TombsAt(us, deleted, deletedCount)
    BY <1>2, <1>5, TombsKeep
  <2> QED BY <1>1, <1>4, <2>1
<1>9. CallAt(op', nodes', dim', ws')
  <2>1. GoodWs(ws) /\ Len(ws.marks) <= Len(us)
    <3>1. GoodWs(ws) /\ Len(ws.marks) <= 0 /\ Len(ws.marks) \in Nat
      BY <1>2, <1>5, CallIs
    <3> QED BY <1>5, <3>1
  <2> QED BY <1>1, <1>3, <1>4, <2>1 DEF CallAt
<1>10. RoundAt(op', nodes', entrypoint', ws', minQ', maxQ') /\ AnswerExact' /\ TombstonesBounded'
  BY <1>1, <1>3, NotAnswered DEF RoundAt
<1> QED BY <1>1, <1>2, <1>7, <1>8, <1>9, <1>10 DEF AnnInv

LEMMA ReplaceKeeps == ASSUME NEW id \in ID, NEW v \in Vectors PROVE AnnInv /\ ReplaceVector(id, v) => AnnInv'
<1> SUFFICES ASSUME AnnInv, ReplaceVector(id, v) PROVE AnnInv'
  OBVIOUS
<1>1. PICK s : s = SlotOf(id)
  OBVIOUS
<1>2. /\ op = NoCall /\ Known(id) /\ Accepts(v) /\ changes < MaxChanges /\ changes' = changes + 1
      /\ nodes' = [nodes EXCEPT ![s].vec = v] /\ deleted' = deleted \ {s}
      /\ deletedCount' = (IF s \in deleted THEN deletedCount - 1 ELSE deletedCount)
      /\ dim' = dim /\ entrypoint' = entrypoint
      /\ ws' = ws /\ op' = op /\ minQ' = minQ /\ maxQ' = maxQ
  BY <1>1 DEF ReplaceVector, callVars
<1>3. /\ IndexAt(nodes, dim, entrypoint, Linked(op, nodes))
      /\ TombsAt(nodes, deleted, deletedCount) /\ changes \in 0 .. MaxChanges /\ CallAt(op, nodes, dim, ws)
  BY DEF AnnInv
<1>4. op.kind = "none" /\ IsOp(op)
  BY <1>2, NoCallIs
<1>5. Graph(nodes, dim) /\ IndexAt(nodes, dim, entrypoint, Len(nodes))
  BY <1>3, <1>4 DEF IndexAt, Linked
<1>6. s \in 1 .. Len(nodes) /\ nodes # <<>>
  <2>1. s \in DOMAIN nodes
    BY <1>1, <1>2, SlotOfIs
  <2>2. DOMAIN nodes = 1 .. Len(nodes) /\ nodes # <<>>
    BY <1>5, <2>1 DEF Graph
  <2> QED BY <2>1, <2>2
<1>7. Len(v) = dim
  BY <1>2, <1>5, <1>6, AcceptsIs
<1>8. PICK us : us = nodes'
  OBVIOUS
<1>9. IndexAt(us, dim, entrypoint, Len(us)) /\ Len(us) = Len(nodes)
  <2>1. us = [nodes EXCEPT ![s].vec = v]
    BY <1>2, <1>8
  <2>2. PICK x : x = [nodes[s] EXCEPT !.vec = v]
    OBVIOUS
  <2>3. us = [nodes EXCEPT ![s] = x]
    BY <2>1, <2>2
  <2>4. nodes[s] \in GraphNode
    BY <1>5, <1>6, NodeIs
  <2>5. x \in GraphNode /\ x.nbrs = nodes[s].nbrs /\ x.vec = v
    BY <2>2, <2>4 DEF GraphNode
  <2>6. nodes \in Seq(GraphNode)
    BY <1>5 DEF Graph
  <2>7. /\ us \in Seq(GraphNode) /\ Len(us) = Len(nodes) /\ us[s] = x
        /\ \A t \in 1 .. Len(nodes) : t # s => us[t] = nodes[t]
    BY <1>6, <2>3, <2>5, <2>6, ReplacedAt
  <2>8. Revector(nodes, s, v, us)
    BY <2>5, <2>7 DEF Revector
  <2> QED BY <1>5, <1>6, <1>7, <2>8, NewVector
<1>10. IndexAt(nodes', dim', entrypoint', Linked(op', nodes'))
  <2>1. Linked(op', nodes') = Len(us)
    BY <1>2, <1>4, <1>8 DEF Linked
  <2> QED BY <1>2, <1>8, <1>9, <2>1
<1>11. TombsAt(nodes', deleted', deletedCount')
  <2>1. deleted \subseteq 1 .. Len(us) /\ deletedCount = Cardinality(deleted)
    BY <1>3, <1>9 DEF TombsAt
  <2>2. IsFiniteSet(deleted)
    BY <1>3, <1>5, TombsAre
  <2>3. Cardinality(deleted \ {s}) = IF s \in deleted THEN Cardinality(deleted) - 1 ELSE Cardinality(deleted)
    BY <2>2, FS_RemoveElement
  <2>4. TombsAt(us, deleted', deletedCount')
    BY <1>2, <2>1, <2>3 DEF TombsAt
  <2> QED BY <1>8, <2>4
<1>12. CallAt(op', nodes', dim', ws')
  <2>1. GoodWs(ws) /\ Len(ws.marks) <= Len(us)
    BY <1>3, <1>9, CallIs
  <2> QED BY <1>2, <1>4, <1>8, <2>1 DEF CallAt
<1>13. RoundAt(op', nodes', entrypoint', ws', minQ', maxQ') /\ AnswerExact' /\ TombstonesBounded'
  BY <1>2, <1>4, NotAnswered DEF RoundAt
<1>14. changes' \in 0 .. MaxChanges
  BY <1>2, <1>3, AnnAssumption
<1> QED BY <1>10, <1>11, <1>12, <1>13, <1>14 DEF AnnInv

LEMMA DeleteKeeps == ASSUME NEW id \in ID PROVE AnnInv /\ DeleteVector(id) => AnnInv'
<1> SUFFICES ASSUME AnnInv, DeleteVector(id) PROVE AnnInv'
  OBVIOUS
<1>1. PICK s : s = SlotOf(id)
  OBVIOUS
<1>2. /\ op = NoCall /\ Known(id) /\ s \notin deleted /\ changes < MaxChanges /\ changes' = changes + 1
      /\ deleted' = deleted \cup {s} /\ deletedCount' = deletedCount + 1
      /\ nodes' = nodes /\ dim' = dim /\ entrypoint' = entrypoint
      /\ ws' = ws /\ op' = op /\ minQ' = minQ /\ maxQ' = maxQ
  BY <1>1 DEF DeleteVector, graphVars, callVars
<1>3. /\ IndexAt(nodes, dim, entrypoint, Linked(op, nodes))
      /\ TombsAt(nodes, deleted, deletedCount) /\ changes \in 0 .. MaxChanges /\ CallAt(op, nodes, dim, ws)
  BY DEF AnnInv
<1>4. op.kind = "none"
  BY <1>2, NoCallIs
<1>5. Graph(nodes, dim)
  BY <1>3 DEF IndexAt
<1>6. s \in 1 .. Len(nodes)
  <2>1. s \in DOMAIN nodes
    BY <1>1, <1>2, SlotOfIs
  <2> QED BY <1>5, <2>1 DEF Graph
<1>7. TombsAt(nodes', deleted', deletedCount')
  <2>1. deleted \subseteq 1 .. Len(nodes) /\ deletedCount = Cardinality(deleted)
    BY <1>3 DEF TombsAt
  <2>2. IsFiniteSet(deleted)
    BY <1>3, <1>5, TombsAre
  <2>3. Cardinality(deleted \cup {s}) = IF s \in deleted THEN Cardinality(deleted) ELSE Cardinality(deleted) + 1
    BY <2>2, FS_AddElement
  <2> QED BY <1>2, <1>6, <2>1, <2>3 DEF TombsAt
<1>8. RoundAt(op', nodes', entrypoint', ws', minQ', maxQ') /\ AnswerExact' /\ TombstonesBounded'
  BY <1>2, <1>4, NotAnswered DEF RoundAt
<1>9. changes' \in 0 .. MaxChanges
  BY <1>2, <1>3, AnnAssumption
<1> QED BY <1>2, <1>3, <1>7, <1>8, <1>9 DEF AnnInv

\* A search begins, in the workspace of an earlier call or in a new one.
LEMMA Begins ==
  ASSUME NEW ns, NEW dm, NEW o, NEW e \in 1 .. Len(ns), Graph(ns, dm), IsOp(o), o.kind \in {"add", "search"}, Len(o.query) = dm,
         NEW w, GoodWs(w), Len(w.marks) <= Len(ns), ns # <<>>,
         NEW v, v = MarkVisited(Reset(w, Len(ns)), e), NEW p, p = Pair(ns, e, o.query),
         NEW a, a = Push(1, <<>>, p), NEW b, b = Push(-1, <<>>, p)
  PROVE  CallAt(o, ns, dm, v) /\ RoundAt(o, ns, e, v, a, b)
<1>1. o.query \in Vectors /\ o.ef \in Nat \ {0}
  BY OpIs
<1>2. PICK s : s = [ws |-> v, minQ |-> a, maxQ |-> b]
  OBVIOUS
<1>3. LoopAt(ns, e, o.query, o.ef, s, {})
  <2>1. LoopAt(ns, e, o.query, o.ef,
               [ws |-> MarkVisited(Reset(w, Len(ns)), e), minQ |-> Push(1, <<>>, p), maxQ |-> Push(-1, <<>>, p)], {})
    BY <1>1, BeginIs
  <2> QED BY <1>2, <2>1
<1>4. s.ws = v
  BY <1>2
<1>5. GoodWs(v) /\ Len(v.marks) = Len(ns)
  BY <1>3, <1>4 DEF LoopAt
<1>6. Len(ns) \in Nat
  BY DEF Graph
<1>7. CallAt(o, ns, dm, v)
  BY <1>5, <1>6 DEF CallAt
<1>8. RoundAt(o, ns, e, v, a, b)
  BY <1>2, <1>3 DEF RoundAt
<1> QED BY <1>7, <1>8

LEMMA AddNodeKeeps == ASSUME NEW id \in ID, NEW v \in Vectors PROVE AnnInv /\ AddNode(id, v) => AnnInv'
<1> SUFFICES ASSUME AnnInv, AddNode(id, v) PROVE AnnInv'
  OBVIOUS
<1>1. PICK us, o, p : us = nodes' /\ o = [kind |-> "add", query |-> v, ef |-> EfConstruction]
                      /\ p = Pair(us, entrypoint, o.query)
  OBVIOUS
<1>2. /\ op = NoCall /\ nodes # <<>> /\ Accepts(v) /\ us = Append(nodes, Node(id, v))
      /\ op' = o /\ minQ' = Push(1, <<>>, p) /\ maxQ' = Push(-1, <<>>, p)
      /\ \E w \in {ws, NewWorkspace} : ws' = MarkVisited(Reset(w, Len(us)), entrypoint)
      /\ dim' = dim /\ entrypoint' = entrypoint /\ deleted' = deleted /\ deletedCount' = deletedCount
      /\ changes' = changes
  BY <1>1 DEF AddNode, Begin, tombVars
<1>3. /\ IndexAt(nodes, dim, entrypoint, Linked(op, nodes))
      /\ TombsAt(nodes, deleted, deletedCount) /\ changes \in 0 .. MaxChanges /\ CallAt(op, nodes, dim, ws)
  BY DEF AnnInv
<1>4. op.kind = "none"
  BY <1>2, NoCallIs
<1>5. Graph(nodes, dim) /\ IndexAt(nodes, dim, entrypoint, Len(nodes)) /\ Len(nodes) \in Nat
  BY <1>3, <1>4 DEF IndexAt, Linked, Graph
<1>6. Len(v) = dim
  BY <1>2, <1>5, AcceptsIs
<1>7. IndexAt(us, dim, entrypoint, Len(us) - 1) /\ Len(us) = Len(nodes) + 1 /\ us # <<>>
  <2>1. PICK x : x = Node(id, v)
    OBVIOUS
  <2>2. us = Append(nodes, x)
    BY <1>2, <2>1
  <2>3. IndexAt(nodes, dim, entrypoint, Len(nodes)) /\ nodes # <<>> /\ Len(v) = dim
    BY <1>2, <1>5, <1>6
  <2>4. nodes \in Seq(GraphNode) /\ x \in GraphNode
    BY <1>5, <2>1, NodeNew DEF Graph
  <2>5. us \in Seq(GraphNode) /\ Len(us) = Len(nodes) + 1 /\ us[Len(nodes) + 1] = x /\ \A s \in 1 .. Len(nodes) : us[s] = nodes[s]
    BY <2>2, <2>4
  <2>6. Appended(nodes, id, v, us)
    BY <2>1, <2>5 DEF Appended
  <2> QED BY <2>3, <2>6, AppendNode
<1>8. o.kind = "add" /\ o.query = v /\ IsOp(o)
  BY <1>1, AnnAssumption DEF IsOp
<1>9. IndexAt(nodes', dim', entrypoint', Linked(op', nodes'))
  <2>1. Linked(op', nodes') = Len(us) - 1
    BY <1>1, <1>2, <1>8 DEF Linked
  <2> QED BY <1>1, <1>2, <1>7, <2>1
<1>10. TombsAt(nodes', deleted', deletedCount')
  <2>1. Len(us) \in Nat /\ Len(nodes) <= Len(us)
    BY <1>5, <1>7
  <2>2. TombsAt(us, deleted, deletedCount)
    BY <1>3, <1>5, <2>1, TombsKeep
  <2> QED BY <1>1, <1>2, <2>2
<1>11. CallAt(op', nodes', dim', ws') /\ RoundAt(op', nodes', entrypoint', ws', minQ', maxQ')
  <2>1. PICK w \in {ws, NewWorkspace} : ws' = MarkVisited(Reset(w, Len(us)), entrypoint)
    BY <1>2
  <2>2. GoodWs(w) /\ Len(w.marks) <= Len(us)
    <3>1. GoodWs(ws) /\ Len(ws.marks) <= Len(nodes) /\ Len(ws.marks) \in Nat
      BY <1>3, CallIs
    <3> QED BY <1>5, <1>7, <2>1, <3>1, NewIs
  <2>3. Graph(us, dim) /\ entrypoint \in 1 .. Len(us)
    <3>1. Graph(us, dim) /\ entrypoint \in 1 .. Len(us) - 1
      BY <1>7 DEF IndexAt
    <3> QED BY <1>5, <1>7, <3>1
  <2>4. PICK z, a, b : z = MarkVisited(Reset(w, Len(us)), entrypoint) /\ a = Push(1, <<>>, p) /\ b = Push(-1, <<>>, p)
    OBVIOUS
  <2>5. CallAt(o, us, dim, z) /\ RoundAt(o, us, entrypoint, z, a, b)
    BY <1>1, <1>6, <1>7, <1>8, <2>2, <2>3, <2>4, Begins
  <2>6. op' = o /\ nodes' = us /\ dim' = dim /\ entrypoint' = entrypoint /\ ws' = z /\ minQ' = a /\ maxQ' = b
    BY <1>1, <1>2, <2>1, <2>4
  <2> QED BY <2>5, <2>6
<1>12. AnswerExact' /\ TombstonesBounded'
  BY <1>2, <1>8, NotAnswered
<1> QED BY <1>2, <1>3, <1>9, <1>10, <1>11, <1>12 DEF AnnInv

LEMMA SearchKeeps == ASSUME NEW q \in Vectors, NEW m \in Ks PROVE AnnInv /\ Search(q, m) => AnnInv'
<1> SUFFICES ASSUME AnnInv, Search(q, m) PROVE AnnInv'
  OBVIOUS
<1>1. PICK o, p : o = [kind |-> "search", query |-> q, ef |-> EfSearch, k |-> m] /\ p = Pair(nodes, entrypoint, o.query)
  OBVIOUS
<1>2. /\ op = NoCall /\ nodes # <<>> /\ Len(q) = dim
      /\ op' = o /\ minQ' = Push(1, <<>>, p) /\ maxQ' = Push(-1, <<>>, p)
      /\ \E w \in {ws, NewWorkspace} : ws' = MarkVisited(Reset(w, Len(nodes)), entrypoint)
      /\ nodes' = nodes /\ dim' = dim /\ entrypoint' = entrypoint /\ deleted' = deleted /\ deletedCount' = deletedCount
      /\ changes' = changes
  BY <1>1 DEF Search, Begin, tombVars, graphVars
<1>3. /\ IndexAt(nodes, dim, entrypoint, Linked(op, nodes))
      /\ TombsAt(nodes, deleted, deletedCount) /\ changes \in 0 .. MaxChanges /\ CallAt(op, nodes, dim, ws)
  BY DEF AnnInv
<1>4. op.kind = "none"
  BY <1>2, NoCallIs
<1>5. Graph(nodes, dim) /\ IndexAt(nodes, dim, entrypoint, Len(nodes)) /\ entrypoint \in 1 .. Len(nodes)
  BY <1>2, <1>3, <1>4 DEF IndexAt, Linked
<1>6. o.kind = "search" /\ o.query = q /\ IsOp(o)
  BY <1>1, AnnAssumption DEF IsOp
<1>7. IndexAt(nodes', dim', entrypoint', Linked(op', nodes'))
  <2>1. Linked(op', nodes') = Len(nodes)
    BY <1>2, <1>6 DEF Linked
  <2> QED BY <1>2, <1>5, <2>1
<1>8. CallAt(op', nodes', dim', ws') /\ RoundAt(op', nodes', entrypoint', ws', minQ', maxQ')
  <2>1. PICK w \in {ws, NewWorkspace} : ws' = MarkVisited(Reset(w, Len(nodes)), entrypoint)
    BY <1>2
  <2>2. GoodWs(w) /\ Len(w.marks) <= Len(nodes)
    <3>1. GoodWs(ws) /\ Len(ws.marks) <= Len(nodes) /\ Len(ws.marks) \in Nat /\ Len(nodes) \in Nat
      BY <1>3, <1>5, CallIs DEF Graph
    <3> QED BY <2>1, <3>1, NewIs
  <2>3. PICK z, a, b : z = MarkVisited(Reset(w, Len(nodes)), entrypoint) /\ a = Push(1, <<>>, p) /\ b = Push(-1, <<>>, p)
    OBVIOUS
  <2>4. CallAt(o, nodes, dim, z) /\ RoundAt(o, nodes, entrypoint, z, a, b)
    BY <1>1, <1>2, <1>5, <1>6, <2>2, <2>3, Begins
  <2>5. op' = o /\ nodes' = nodes /\ dim' = dim /\ entrypoint' = entrypoint /\ ws' = z /\ minQ' = a /\ maxQ' = b
    BY <1>2, <2>1, <2>3
  <2> QED BY <2>4, <2>5
<1>9. AnswerExact' /\ TombstonesBounded'
  BY <1>2, <1>6, NotAnswered
<1> QED BY <1>2, <1>3, <1>7, <1>8, <1>9 DEF AnnInv

\* What a round of the loop and the step after it start from.
LEMMA InLoop ==
  ASSUME AnnInv, op.kind \in {"add", "search"}
  PROVE  /\ Graph(nodes, dim) /\ nodes # <<>> /\ Len(nodes) \in Nat /\ entrypoint \in 1 .. Len(nodes)
         /\ op.query \in Vectors /\ Len(op.query) = dim /\ op.ef \in Nat \ {0}
         /\ GoodWs(ws) /\ Len(ws.marks) = Len(nodes)
         /\ LoopAt(nodes, entrypoint, op.query, op.ef, [ws |-> ws, minQ |-> minQ, maxQ |-> maxQ], {})
<1>1. /\ IndexAt(nodes, dim, entrypoint, Linked(op, nodes)) /\ CallAt(op, nodes, dim, ws)
      /\ RoundAt(op, nodes, entrypoint, ws, minQ, maxQ)
  BY DEF AnnInv
<1>2. /\ nodes # <<>> /\ op.query \in Vectors /\ Len(op.query) = dim /\ op.ef \in Nat \ {0}
      /\ GoodWs(ws) /\ Len(ws.marks) = Len(nodes)
  BY <1>1, CallIs
<1>3. Graph(nodes, dim) /\ entrypoint \in 1 .. Linked(op, nodes)
  BY <1>1, <1>2 DEF IndexAt
<1>4. Len(nodes) \in Nat
  BY <1>3 DEF Graph
<1>5. entrypoint \in 1 .. Len(nodes)
  BY <1>3, <1>4 DEF Linked
<1>6. LoopAt(nodes, entrypoint, op.query, op.ef, [ws |-> ws, minQ |-> minQ, maxQ |-> maxQ], {})
  BY <1>1 DEF RoundAt
<1> QED BY <1>2, <1>3, <1>4, <1>5, <1>6

LEMMA ExpandKeeps == AnnInv /\ Expand => AnnInv'
<1> SUFFICES ASSUME AnnInv, Expand PROVE AnnInv'
  OBVIOUS
<1>1. PICK y : y = [ws |-> ws, minQ |-> minQ, maxQ |-> maxQ]
  OBVIOUS
<1>2. PICK u : u = OfferAll([ws |-> y.ws, minQ |-> PopRest(1, y.minQ), maxQ |-> y.maxQ], nodes[y.minQ[1].id].nbrs)
  OBVIOUS
<1>3. y.ws = ws /\ y.minQ = minQ /\ y.maxQ = maxQ
  BY <1>1
<1>4. /\ op.kind \in {"add", "search"} /\ ~LoopEnds /\ ws' = u.ws /\ minQ' = u.minQ /\ maxQ' = u.maxQ
      /\ nodes' = nodes /\ dim' = dim /\ entrypoint' = entrypoint /\ deleted' = deleted /\ deletedCount' = deletedCount
      /\ op' = op /\ changes' = changes
  BY <1>2, <1>3 DEF Expand, graphVars, tombVars
<1>5. /\ Graph(nodes, dim) /\ nodes # <<>> /\ Len(nodes) \in Nat /\ entrypoint \in 1 .. Len(nodes)
      /\ op.query \in Vectors /\ Len(op.query) = dim /\ op.ef \in Nat \ {0}
      /\ LoopAt(nodes, entrypoint, op.query, op.ef, y, {})
  BY <1>1, <1>4, InLoop
<1>6. y.minQ # <<>>
  BY <1>3, <1>4 DEF LoopEnds
<1>7. LoopAt(nodes, entrypoint, op.query, op.ef, u, {})
  <2>1. LoopAt(nodes, entrypoint, op.query, op.ef,
               OfferAll([ws |-> y.ws, minQ |-> PopRest(1, y.minQ), maxQ |-> y.maxQ], nodes[y.minQ[1].id].nbrs), {})
    BY <1>5, <1>6, ExpandIs
  <2> QED BY <1>2, <2>1
<1>8. GoodWs(u.ws) /\ Len(u.ws.marks) = Len(nodes) /\ u = [ws |-> u.ws, minQ |-> u.minQ, maxQ |-> u.maxQ]
  BY <1>7 DEF LoopAt, SearchState
<1>9. IsOp(op)
  BY DEF AnnInv, CallAt
<1>10. CallAt(op', nodes', dim', ws')
  BY <1>4, <1>5, <1>8, <1>9 DEF CallAt
<1>11. RoundAt(op', nodes', entrypoint', ws', minQ', maxQ')
  <2>1. RoundAt(op, nodes, entrypoint, u.ws, u.minQ, u.maxQ)
    BY <1>7, <1>8 DEF RoundAt
  <2> QED BY <1>4, <2>1
<1>12. AnswerExact' /\ TombstonesBounded'
  BY <1>4, NotAnswered
<1>13. IndexAt(nodes', dim', entrypoint', Linked(op', nodes')) /\ TombsAt(nodes', deleted', deletedCount')
       /\ changes' \in 0 .. MaxChanges
  BY <1>4 DEF AnnInv
<1> QED BY <1>10, <1>11, <1>12, <1>13 DEF AnnInv

LEMMA LinkKeeps == AnnInv /\ Link => AnnInv'
<1> SUFFICES ASSUME AnnInv, Link PROVE AnnInv'
  OBVIOUS
<1>1. PICK y, slots, us : y = [ws |-> ws, minQ |-> minQ, maxQ |-> maxQ]
                          /\ slots = Slot(Nearest(DrainCandidates, M)) /\ us = nodes'
  OBVIOUS
<1>2. /\ op.kind = "add" /\ us = Prune(LinkAll(nodes, slots), Len(nodes)) /\ entrypoint' \in {entrypoint, Len(nodes)}
      /\ op' = NoCall /\ dim' = dim /\ deleted' = deleted /\ deletedCount' = deletedCount /\ ws' = ws
      /\ changes' = changes
  BY <1>1 DEF Link, tombVars
<1>3. /\ Graph(nodes, dim) /\ nodes # <<>> /\ Len(nodes) \in Nat /\ entrypoint \in 1 .. Len(nodes)
      /\ op.query \in Vectors /\ Len(op.query) = dim /\ op.ef \in Nat \ {0}
      /\ GoodWs(ws) /\ Len(ws.marks) = Len(nodes) /\ LoopAt(nodes, entrypoint, op.query, op.ef, y, {})
  BY <1>1, <1>2, InLoop
<1>4. /\ IndexAt(nodes, dim, entrypoint, Len(nodes) - 1) /\ TombsAt(nodes, deleted, deletedCount)
      /\ changes \in 0 .. MaxChanges
  BY <1>2 DEF AnnInv, Linked
<1>5. slots \in Seq(1 .. Len(nodes) - 1) /\ slots # <<>>
  <2>1. PICK ns, o, q, ef : ns = nodes /\ o = Len(nodes) - 1 /\ q = op.query /\ ef = op.ef
    OBVIOUS
  <2>2. /\ o \in Int /\ o <= Len(ns) /\ IndexAt(ns, dim, entrypoint, o) /\ ns # <<>> /\ q \in Vectors
        /\ Len(q) = dim /\ ef \in Nat \ {0} /\ LoopAt(ns, entrypoint, q, ef, y, {}) /\ y.maxQ = maxQ
    BY <1>1, <1>3, <1>4, <2>1
  <2>3. slots \in Seq(1 .. o) /\ slots # <<>>
    BY <1>1, <2>2, LinkSlots
  <2> QED BY <2>1, <2>3
<1>6. PICK f : f = entrypoint'
  OBVIOUS
<1>7. IndexAt(us, dim, f, Len(us)) /\ Len(us) = Len(nodes)
  BY <1>2, <1>3, <1>4, <1>5, <1>6, LinkNode
<1>8. op'.kind = "none" /\ IsOp(op')
  BY <1>2, NoCallIs
<1>9. IndexAt(nodes', dim', entrypoint', Linked(op', nodes'))
  <2>1. Linked(op', nodes') = Len(us)
    BY <1>1, <1>8 DEF Linked
  <2> QED BY <1>1, <1>2, <1>6, <1>7, <2>1
<1>10. TombsAt(nodes', deleted', deletedCount')
  <2>1. TombsAt(us, deleted, deletedCount)
    BY <1>4, <1>7 DEF TombsAt
  <2> QED BY <1>1, <1>2, <2>1
<1>11. CallAt(op', nodes', dim', ws')
  BY <1>1, <1>2, <1>3, <1>7, <1>8 DEF CallAt
<1>12. RoundAt(op', nodes', entrypoint', ws', minQ', maxQ') /\ AnswerExact' /\ TombstonesBounded'
  BY <1>8, NotAnswered DEF RoundAt
<1> QED BY <1>2, <1>4, <1>9, <1>10, <1>11, <1>12 DEF AnnInv

LEMMA ReturnKeeps == AnnInv /\ Return => AnnInv'
<1> SUFFICES ASSUME AnnInv, Return PROVE AnnInv'
  OBVIOUS
<1>1. /\ op.kind = "answered" /\ op' = NoCall /\ nodes' = nodes /\ dim' = dim /\ entrypoint' = entrypoint
      /\ deleted' = deleted /\ deletedCount' = deletedCount /\ ws' = ws /\ changes' = changes
  BY DEF Return, graphVars, tombVars
<1>2. op'.kind = "none" /\ IsOp(op')
  BY <1>1, NoCallIs
<1>3. /\ IndexAt(nodes, dim, entrypoint, Len(nodes)) /\ TombsAt(nodes, deleted, deletedCount)
      /\ changes \in 0 .. MaxChanges /\ CallAt(op, nodes, dim, ws)
  BY <1>1 DEF AnnInv, Linked
<1>4. IndexAt(nodes', dim', entrypoint', Linked(op', nodes'))
  <2>1. Linked(op', nodes') = Len(nodes)
    BY <1>1, <1>2 DEF Linked
  <2> QED BY <1>1, <1>3, <2>1
<1>5. CallAt(op', nodes', dim', ws')
  <2>1. GoodWs(ws) /\ Len(ws.marks) <= Len(nodes)
    BY <1>3, CallIs
  <2> QED BY <1>1, <1>2, <2>1 DEF CallAt
<1>6. RoundAt(op', nodes', entrypoint', ws', minQ', maxQ') /\ AnswerExact' /\ TombstonesBounded'
  BY <1>2, NotAnswered DEF RoundAt
<1> QED BY <1>1, <1>3, <1>4, <1>5, <1>6 DEF AnnInv

\* The nodes that this search visited.
LEMMA VisitedIs ==
  ASSUME NEW dm, Graph(nodes, dm), GoodWs(ws), Len(ws.marks) = Len(nodes)
  PROVE  Visited = Marked(ws) /\ IsFiniteSet(Visited)
<1>1. DOMAIN nodes = 1 .. Len(nodes) /\ Len(nodes) \in Nat
  BY DEF Graph
<1>2. Visited = Marked(ws)
  BY <1>1 DEF Visited, Marked, Slots, IsVisited
<1>3. IsFiniteSet(1 .. Len(nodes))
  BY <1>1, FS_Interval
<1>4. Visited \subseteq 1 .. Len(nodes)
  BY <1>1 DEF Visited, Slots
<1> QED BY <1>2, <1>3, <1>4, FS_Subset

LEMMA AnswerKeeps == AnnInv /\ Answer => AnnInv'
<1> SUFFICES ASSUME AnnInv, Answer PROVE AnnInv'
  OBVIOUS
<1>1. PICK y, r : y = [ws |-> ws, minQ |-> minQ, maxQ |-> maxQ] /\ r = Results(op.k)
  OBVIOUS
<1>2. /\ op.kind = "search" /\ LoopEnds /\ answer' = r /\ op' = [op EXCEPT !.kind = "answered"]
      /\ nodes' = nodes /\ dim' = dim /\ entrypoint' = entrypoint /\ deleted' = deleted /\ deletedCount' = deletedCount
      /\ ws' = ws /\ changes' = changes
  BY <1>1 DEF Answer, graphVars, tombVars
<1>3. /\ Graph(nodes, dim) /\ nodes # <<>> /\ Len(nodes) \in Nat /\ entrypoint \in 1 .. Len(nodes)
      /\ op.query \in Vectors /\ Len(op.query) = dim /\ op.ef \in Nat \ {0}
      /\ GoodWs(ws) /\ Len(ws.marks) = Len(nodes) /\ LoopAt(nodes, entrypoint, op.query, op.ef, y, {})
  BY <1>1, <1>2, InLoop
<1>4. /\ IndexAt(nodes, dim, entrypoint, Len(nodes)) /\ TombsAt(nodes, deleted, deletedCount)
      /\ changes \in 0 .. MaxChanges /\ CallAt(op, nodes, dim, ws)
  BY <1>2 DEF AnnInv, Linked
<1>5. PICK q, ef, m : q = op.query /\ ef = op.ef /\ m = op.k
  OBVIOUS
<1>6. m \in Nat \ {0} /\ op = [kind |-> "search", query |-> q, ef |-> ef, k |-> m]
  <2>1. op.k \in Nat \ {0} /\ op = [kind |-> op.kind, query |-> op.query, ef |-> op.ef, k |-> op.k]
    BY <1>2, <1>4, CallIs
  <2> QED BY <1>2, <1>5, <2>1
<1>7. op' = [kind |-> "answered", query |-> q, ef |-> ef, k |-> m]
  BY <1>2, <1>6
<1>8. op'.kind = "answered" /\ op'.query = q /\ op'.ef = ef /\ op'.k = m
  BY <1>7
<1>9. q \in Vectors /\ Len(q) = dim /\ ef \in Nat \ {0} /\ ef \in Nat /\ m \in Nat
  BY <1>3, <1>5, <1>6
<1>10. IsOp(op')
  BY <1>6, <1>7, <1>9 DEF IsOp
<1>11. IndexAt(nodes', dim', entrypoint', Linked(op', nodes'))
  <2>1. Linked(op', nodes') = Len(nodes)
    BY <1>2, <1>8 DEF Linked
  <2> QED BY <1>2, <1>4, <2>1
<1>12. CallAt(op', nodes', dim', ws')
  BY <1>2, <1>3, <1>8, <1>9, <1>10 DEF CallAt
<1>13. RoundAt(op', nodes', entrypoint', ws', minQ', maxQ')
  BY <1>8 DEF RoundAt
<1>14. PICK I, d, V, Z : I = 1 .. Len(nodes) /\ d = Dists(nodes, q) /\ V = Marked(ws) /\ Z = Reach(nodes, entrypoint)
  OBVIOUS
<1>15. y.ws = ws /\ y.minQ = minQ /\ y.maxQ = maxQ /\ KBest(I, d, maxQ, ef, V)
  <2>1. y.ws = ws /\ y.minQ = minQ /\ y.maxQ = maxQ
    BY <1>1
  <2>2. KBest(I, d, y.maxQ, ef, Marked(y.ws))
    BY <1>3, <1>5, <1>14 DEF LoopAt
  <2> QED BY <1>14, <2>1, <2>2
<1>16. IsFiniteSet(deleted) /\ (deletedCount = 0 <=> deleted = {})
  BY <1>3, <1>4, TombsAre
<1>17. NearestOf(Ids(maxQ) \ deleted, nodes, q, m, r)
  BY <1>1, <1>3, <1>5, <1>9, <1>14, <1>15, <1>16, ResultsAre
<1>18. ASSUME Cardinality(Z) <= ef PROVE NearestOf(Z \ deleted, nodes, q, m, r)
  <2>1. Ids(maxQ) = Z
    BY <1>2, <1>3, <1>5, <1>14, <1>15, <1>18, AllReached
  <2> QED BY <1>17, <2>1
<1>19. Reachable' = Z /\ Visited' = V /\ IsFiniteSet(V)
  <2>1. Visited = V /\ IsFiniteSet(V)
    BY <1>3, <1>14, VisitedIs
  <2>2. Visited' = Visited
    BY <1>2 DEF Visited, Slots, IsVisited
  <2>3. Reachable' = Z
    BY <1>2, <1>14 DEF Reachable, Closed, Slots, Reach
  <2> QED BY <2>1, <2>2, <2>3
<1>20. AnswerExact'
  <2>1. Cardinality(Z) <= ef => NearestOf(Z \ deleted, nodes, q, m, r)
    BY <1>18
  <2> QED BY <1>2, <1>8, <1>19, <2>1 DEF AnswerExact, NearestOf, Pair
<1>21. TombstonesBounded'
  <2>1. /\ Range(Slot(r)) \cap deleted = {}
        /\ Len(r) >= Min({m, Min({ef, Cardinality(V)}) - Cardinality(deleted)})
    BY <1>9, <1>15, <1>16, <1>17, <1>19, TombstonesCost
  <2> QED BY <1>2, <1>8, <1>19, <2>1 DEF TombstonesBounded
<1> QED BY <1>2, <1>4, <1>11, <1>12, <1>13, <1>20, <1>21 DEF AnnInv

LEMMA AnnKeeps == AnnInv /\ [Next]_vars => AnnInv'
<1> SUFFICES ASSUME AnnInv, [Next]_vars PROVE AnnInv'
  OBVIOUS
<1>1. ASSUME NEW id \in ID, NEW v \in Vectors, AddFirst(id, v) PROVE AnnInv'
  BY <1>1, AddFirstKeeps
<1>2. ASSUME NEW id \in ID, NEW v \in Vectors, AddNode(id, v) PROVE AnnInv'
  BY <1>2, AddNodeKeeps
<1>3. ASSUME NEW id \in ID, NEW v \in Vectors, ReplaceVector(id, v) PROVE AnnInv'
  BY <1>3, ReplaceKeeps
<1>4. ASSUME NEW id \in ID, DeleteVector(id) PROVE AnnInv'
  BY <1>4, DeleteKeeps
<1>5. ASSUME NEW q \in Vectors, NEW m \in Ks, Search(q, m) PROVE AnnInv'
  BY <1>5, SearchKeeps
<1>6. CASE Expand
  BY <1>6, ExpandKeeps
<1>7. CASE Link
  BY <1>7, LinkKeeps
<1>8. CASE Answer
  BY <1>8, AnswerKeeps
<1>9. CASE Return
  BY <1>9, ReturnKeeps
<1>10. CASE UNCHANGED vars
  BY <1>10, AnnStutters
<1> QED BY <1>1, <1>2, <1>3, <1>4, <1>5, <1>6, <1>7, <1>8, <1>9, <1>10 DEF Next

----------------------------------------------------------------------------
(* Theorems.                                                               *)

\* The graph, its tombstones, the workspace and the search in progress keep
\* their invariant under every sequence of AddVector, DeleteVector and Search
\* and every round of searchCandidates32WithWorkspaceLocked.
THEOREM AnnInvHolds == Spec => []AnnInv
BY AnnStarts, AnnKeeps, PTL DEF Spec

LEMMA DegreesBounded == AnnInv => DegreeBounded
<1> SUFFICES ASSUME AnnInv PROVE DegreeBounded
  OBVIOUS
<1>1. /\ IndexAt(nodes, dim, entrypoint, Linked(op, nodes)) /\ TombsAt(nodes, deleted, deletedCount)
      /\ changes \in 0 .. MaxChanges /\ CallAt(op, nodes, dim, ws)
  BY DEF AnnInv
<1>2. /\ op.kind \in {"none", "add", "search", "answered"} /\ (op.kind = "none" <=> op = NoCall)
      /\ GoodWs(ws) /\ Len(ws.marks) <= Len(nodes) /\ (op.kind # "none" => nodes # <<>>)
  BY <1>1, CallIs
<1>3. /\ Graph(nodes, dim) /\ dim \in Nat /\ (nodes = <<>> => entrypoint = 0)
      /\ nodes # <<>> => entrypoint \in 1 .. Linked(op, nodes)
      /\ \A s \in 1 .. Linked(op, nodes) : Len(nodes[s].nbrs) <= M
  BY <1>1 DEF IndexAt
<1>4. DOMAIN nodes = 1 .. Len(nodes) /\ Len(nodes) \in Nat
  BY <1>3 DEF Graph
<1>5. entrypoint \in 1 .. Len(nodes) \cup {0}
  BY <1>3, <1>4 DEF Linked
<1>6. AnnTypeOK
  <2>1. \A s \in Slots : nodes[s].id \in ID /\ nodes[s].vec \in Vectors /\ Range(nodes[s].nbrs) \subseteq Slots
    <3>1. ASSUME NEW s \in 1 .. Len(nodes)
          PROVE  nodes[s].id \in ID /\ nodes[s].vec \in Vectors /\ Range(nodes[s].nbrs) \subseteq 1 .. Len(nodes)
      BY <1>3, NodeIs
    <3> QED BY <1>4, <3>1 DEF Slots
  <2>2. deleted \subseteq Slots
    BY <1>1, <1>4 DEF TombsAt, Slots
  <2>3. deletedCount \in 0 .. Len(nodes)
    <3>1. deletedCount \in Nat /\ deletedCount <= Len(nodes)
      BY <1>1, <1>3, TombsAre
    <3> QED BY <1>4, <3>1
  <2>4. ws.epoch \in 0 .. Epochs - 1
    BY <1>2, AnnAssumption DEF GoodWs, Workspace
  <2>5. entrypoint \in Slots \cup {0}
    BY <1>4, <1>5 DEF Slots
  <2> QED BY <1>1, <1>2, <1>3, <2>1, <2>2, <2>3, <2>4, <2>5 DEF AnnTypeOK
<1>7. ASSUME op = NoCall, NEW s \in Slots
      PROVE  Len(nodes[s].nbrs) <= M /\ s \notin Range(nodes[s].nbrs) /\ IsInjective(nodes[s].nbrs)
  <2>1. s \in 1 .. Len(nodes) /\ Linked(op, nodes) = Len(nodes)
    BY <1>2, <1>4, <1>7 DEF Slots, Linked
  <2>2. Len(nodes[s].nbrs) <= M
    BY <1>3, <2>1
  <2>3. /\ \A i \in 1 .. Len(nodes[s].nbrs) : nodes[s].nbrs[i] # s
        /\ \A i, j \in 1 .. Len(nodes[s].nbrs) : nodes[s].nbrs[i] = nodes[s].nbrs[j] => i = j
    BY <1>3, <2>1 DEF Graph, GoodLinks
  <2>4. /\ nodes[s].nbrs \in Seq(Nat)
        /\ Range(nodes[s].nbrs) = {nodes[s].nbrs[i] : i \in 1 .. Len(nodes[s].nbrs)}
    BY <1>3, <2>1, NodeIs
  <2>5. DOMAIN nodes[s].nbrs = 1 .. Len(nodes[s].nbrs)
    BY <2>4
  <2>6. s \notin Range(nodes[s].nbrs)
    BY <2>3, <2>4
  <2>7. IsInjective(nodes[s].nbrs)
    BY <2>3, <2>5 DEF IsInjective
  <2> QED BY <2>2, <2>6, <2>7
<1> QED BY <1>6, <1>7 DEF DegreeBounded

\* Between calls every node has at most M neighbours, none twice and not itself
\* (AddVector, addNeighbor, pruneNeighborsLocked), for every M and ef.
THEOREM DegreeBoundedHolds == Spec => []DegreeBounded
BY AnnInvHolds, DegreesBounded, PTL

LEMMA NoDeadEnds == AnnInv => NoDeadEnd
<1> SUFFICES ASSUME AnnInv, op = NoCall, Len(nodes) > 1, NEW s \in Slots PROVE nodes[s].nbrs # <<>>
  BY DEF NoDeadEnd
<1>1. IndexAt(nodes, dim, entrypoint, Len(nodes))
  <2>1. op.kind = "none"
    BY NoCallIs
  <2> QED BY <2>1 DEF AnnInv, Linked
<1>2. DOMAIN nodes = 1 .. Len(nodes)
  BY <1>1 DEF IndexAt, Graph
<1> QED BY <1>1, <1>2 DEF IndexAt, Slots

\* Once there are two nodes each has a neighbour, whatever linking and pruning
\* did since (AddVector, pruneNeighborsLocked).
THEOREM NoDeadEndHolds == Spec => []NoDeadEnd
BY AnnInvHolds, NoDeadEnds, PTL

LEMMA CandidatesNearest == AnnInv => CandidatesAreNearest
<1> SUFFICES ASSUME AnnInv, op.kind \in {"add", "search"} PROVE CandidatesAreNearest
  BY DEF CandidatesAreNearest
<1>1. PICK y, q, ef : y = [ws |-> ws, minQ |-> minQ, maxQ |-> maxQ] /\ q = op.query /\ ef = op.ef
  OBVIOUS
<1>2. /\ Graph(nodes, dim) /\ Len(nodes) \in Nat /\ q \in Vectors /\ Len(q) = dim /\ ef \in Nat
      /\ GoodWs(ws) /\ Len(ws.marks) = Len(nodes) /\ LoopAt(nodes, entrypoint, q, ef, y, {})
  BY <1>1, InLoop
<1>3. PICK I, d, V : I = 1 .. Len(nodes) /\ d = Dists(nodes, q) /\ V = Marked(ws)
  OBVIOUS
<1>4. Visited = V /\ IsFiniteSet(V) /\ V \subseteq I
  <2>1. Visited = Marked(ws) /\ IsFiniteSet(Visited)
    BY <1>2, VisitedIs
  <2>2. Marked(ws) \subseteq 1 .. Len(nodes)
    BY <1>2 DEF Marked
  <2> QED BY <1>3, <2>1, <2>2
<1>5. KBest(I, d, maxQ, ef, V)
  <2>1. y.ws = ws /\ y.maxQ = maxQ
    BY <1>1
  <2>2. KBest(I, d, y.maxQ, ef, Marked(y.ws))
    BY <1>2, <1>3 DEF LoopAt
  <2> QED BY <1>3, <2>1, <2>2
<1>6. /\ \A v \in I : d[v] \in Int
      /\ \A v \in I : Pair(nodes, v, q) = [id |-> v, distance |-> d[v]]
  BY <1>2, <1>3, DistsAre
<1>7. /\ maxQ \in Seq(Items(I, d)) /\ Ids(maxQ) \subseteq V
      /\ \A v \in V \ Ids(maxQ) : d[v] >= maxQ[1].distance
  BY <1>5 DEF KBest
<1>8. Range(Slot(maxQ)) = Ids(maxQ) /\ DOMAIN maxQ = 1 .. Len(maxQ)
  BY <1>7, SlotIs
<1>9. /\ Len(maxQ) = (IF ef <= Cardinality(V) THEN ef ELSE Cardinality(V))
      /\ Cardinality(Ids(maxQ)) = Len(maxQ) /\ Cardinality(V) \in Nat
  BY <1>2, <1>4, <1>5, KBestCount
<1>10. Len(maxQ) = Min({ef, Cardinality(V)})
  <2>1. PICK g \in Int : g = Cardinality(V)
    BY <1>9
  <2>2. Min({ef, g}) = IF ef <= g THEN ef ELSE g
    BY <1>2, MinOfTwo
  <2> QED BY <1>9, <2>1, <2>2
<1>11. \A c \in 1 .. Len(maxQ) : maxQ[c].distance <= maxQ[1].distance /\ maxQ[c].id \in I /\ maxQ[c].distance = d[maxQ[c].id]
  BY <1>5, <1>6, KBestTop DEF TopIsWorst
<1>12. ASSUME NEW i \in DOMAIN maxQ PROVE maxQ[i] = Pair(nodes, maxQ[i].id, q)
  <2>1. maxQ[i] \in Items(I, d)
    BY <1>7
  <2>2. maxQ[i].id \in I /\ maxQ[i] = [id |-> maxQ[i].id, distance |-> d[maxQ[i].id]]
    BY <1>6, <2>1, ItemsAre
  <2> QED BY <1>6, <2>2
<1>13. ASSUME NEW s \in Ids(maxQ) PROVE Pair(nodes, s, q).distance <= maxQ[1].distance
  <2>1. PICK c \in 1 .. Len(maxQ) : s = maxQ[c].id
    BY DEF Ids
  <2>2. s \in I /\ d[s] <= maxQ[1].distance
    BY <1>11, <2>1
  <2>3. Pair(nodes, s, q).distance = d[s]
    BY <1>6, <2>2
  <2> QED BY <2>2, <2>3
<1>14. ASSUME NEW s \in V \ Ids(maxQ) PROVE Pair(nodes, s, q).distance >= maxQ[1].distance
  <2>1. Pair(nodes, s, q).distance = d[s]
    BY <1>4, <1>6
  <2> QED BY <1>7, <2>1
<1> QED BY <1>1, <1>4, <1>7, <1>8, <1>9, <1>10, <1>12, <1>13, <1>14 DEF CandidatesAreNearest

\* In every round of the loop of searchCandidates32WithWorkspaceLocked maxQ has
\* the ef nearest of the nodes visited so far, with the worst on top, whatever
\* earlier calls left in the workspace and however often its epoch wrapped round.
THEOREM CandidatesAreNearestHolds == Spec => []CandidatesAreNearest
BY AnnInvHolds, CandidatesNearest, PTL

\* A search whose ef covers what it can reach answers with the k nearest of the
\* reachable vectors that are not deleted, nearest first (Search,
\* SearchWithDistancesInto, searchResults64Locked).
THEOREM AnswerExactHolds == Spec => []AnswerExact
<1>1. AnnInv => AnswerExact
  BY DEF AnnInv
<1> QED BY <1>1, AnnInvHolds, PTL

\* No deleted vector is returned, and tombstones cost at most as many results as
\* there are (liveCandidates after drainCandidates).
THEOREM TombstonesBoundedHolds == Spec => []TombstonesBounded
<1>1. AnnInv => TombstonesBounded
  BY DEF AnnInv
<1> QED BY <1>1, AnnInvHolds, PTL

----------------------------------------------------------------------------
(* Batches: BatchSearch.                                                   *)


----------------------------------------------------------------------------
(* The state of a call.                                                    *)

BusyAts == {"search", "ann", "asked", "hit", "sample", "fallback", "count", "exact"}
AnnAts == BusyAts \cup {"recv", "exit"}

\* A worker of the pool, and the scan of a chunk.
PoolWorker == [at : AnnAts, job : Nat]
ChunkScan == [at : {"scan", "exit"}, lo : Nat, hi : Nat, todo : SUBSET Stored]

Answers == Range(Queries) \cup {NoResult}

NoBatch == n = 0 /\ acc = <<>> /\ next = 0 /\ work = <<>> /\ results = <<>>

\* In ANN mode: a job that was sent is answered, or a worker has it.
PoolOK ==
  /\ main \in {"idle", "dead", "feed", "closed", "done"}
  /\ main \in {"idle", "dead"} => NoBatch
  /\ main \notin {"idle", "dead"} =>
       /\ n \in 1 .. Len(Queries) /\ next \in 1 .. n + 1 /\ acc = <<>>
       /\ work \in [1 .. Min({n, procs}) -> PoolWorker]
       /\ results \in [1 .. n -> Answers]
       /\ \A j \in 1 .. next - 1 : \/ results[j] = Queries[j]
                                   \/ \E g \in DOMAIN work : work[g].at \in BusyAts /\ work[g].job = j
       /\ \A g \in DOMAIN work : work[g].at \in BusyAts => work[g].job \in 1 .. next - 1
  /\ main \in {"closed", "done"} => next = n + 1
  /\ main = "done" => \A g \in DOMAIN work : work[g].at = "exit"

\* In exact mode: the vectors of the length of query i whose distances are
\* numbers, and the distances.
Same(i) == {x \in Stored : SameLen(i, x) /\ Distance[Queries[i].q][x] # NaN}
Dist(i) == Distance[Queries[i].q]

\* What a scan keeps for query i of the vectors V: the k nearest, unless it met
\* a distance that is no number.
Kept(i, h, V) ==
  \/ KBest(Same(i), Dist(i), h, Queries[i].k, V)
  \/ h = Spoiled /\ ~Numbers(i)

ChunkCount(size) == (size + ChunkSize(size) - 1) \div ChunkSize(size)

\* Each query of a chunk has the k nearest of the vectors its scan met.
ScansOK ==
  /\ main \in {"idle", "wait", "done"}
  /\ main = "idle" => NoBatch
  /\ main # "idle" =>
       /\ n \in 1 .. Len(Queries) /\ next = 0
       /\ work \in [1 .. ChunkCount(n) -> ChunkScan]
       /\ \A g \in DOMAIN work :
            /\ work[g].lo = (g - 1) * ChunkSize(n) /\ work[g].hi = Min({g * ChunkSize(n), n})
            /\ work[g].at = "exit" => work[g].todo = {}
            /\ \A i \in work[g].lo + 1 .. work[g].hi :
                 Kept(i, acc[i], Same(i) \ work[g].todo)
       /\ DOMAIN acc = 1 .. n
  /\ main = "done" => /\ \A g \in DOMAIN work : work[g].at = "exit"
                      /\ results = [i \in 1 .. n |-> SortOf(acc[i])]

CallOK ==
  /\ mode \in {"ann", "exact"} /\ procs \in GoMaxProcs
  /\ stats \in [Counters -> Nat]
  /\ mode = "ann" => PoolOK
  /\ mode = "exact" => ScansOK

----------------------------------------------------------------------------
(* Constants.                                                              *)

LEMMA QueriesAre ==
  /\ Len(Queries) \in Nat /\ DOMAIN Queries = 1 .. Len(Queries)
  /\ \A i \in 1 .. Len(Queries) : /\ Queries[i].k \in Nat \ {0}
                                  /\ Distance[Queries[i].q] \in [Stored -> Nat \cup {NaN}]
BY BatchAssumption

LEMMA ProcsAre == ASSUME NEW p \in GoMaxProcs PROVE p \in Nat \ {0}
BY BatchAssumption

\* The size of the pool.
LEMMA PoolSize ==
  ASSUME NEW p \in GoMaxProcs, NEW m \in 1 .. Len(Queries)
  PROVE  Min({m, p}) \in Nat /\ Min({m, p}) >= 1 /\ Min({m, p}) <= p
BY QueriesAre, ProcsAre, MinOfTwo

----------------------------------------------------------------------------
(* ANN mode.                                                               *)

\* The moves of a worker other than taking a job: only its own record changes.
Moved(N, w, v, g, a) ==
  /\ v \in [1 .. N -> PoolWorker] /\ v[g] = [at |-> a, job |-> w[g].job]
  /\ \A f \in 1 .. N : f # g => v[f] = w[f]

LEMMA WorkerMoves ==
  ASSUME NEW N \in Nat, NEW w \in [1 .. N -> PoolWorker], NEW g \in 1 .. N, NEW a \in AnnAts
  PROVE  Moved(N, w, [w EXCEPT ![g].at = a], g, a)
<1>1. w[g] \in PoolWorker
  OBVIOUS
<1>2. [w[g] EXCEPT !.at = a] = [at |-> a, job |-> w[g].job]
  BY <1>1 DEF PoolWorker
<1>3. [w[g] EXCEPT !.at = a] \in PoolWorker
  BY <1>1, <1>2 DEF PoolWorker
<1>4. [w EXCEPT ![g].at = a] = [f \in 1 .. N |-> IF f = g THEN [w[g] EXCEPT !.at = a] ELSE w[f]]
  OBVIOUS
<1> QED BY <1>2, <1>3, <1>4 DEF Moved

\* A worker that moves without touching the answers keeps the pool in order, if
\* it has a job after the move exactly when it had one before.
LEMMA PoolMoves ==
  ASSUME PoolOK, mode = "ann", procs \in GoMaxProcs, NEW g \in DOMAIN work, NEW a \in AnnAts,
         main # "done", work[g].at \in BusyAts <=> a \in BusyAts,
         work' = [work EXCEPT ![g].at = a], UNCHANGED <<mode, procs, main, n, acc, next, results>>
  PROVE  PoolOK'
<1>1. main \notin {"idle", "dead"}
  BY DEF PoolOK, NoBatch
<1>2. PICK N : N = Min({n, procs})
  OBVIOUS
<1>3. N \in Nat /\ work \in [1 .. N -> PoolWorker] /\ DOMAIN work = 1 .. N
  BY <1>1, <1>2, PoolSize DEF PoolOK
<1>4. PICK w : w = work'
  OBVIOUS
<1>5. /\ w \in [1 .. N -> PoolWorker] /\ w[g] = [at |-> a, job |-> work[g].job]
      /\ \A f \in 1 .. N : f # g => w[f] = work[f]
  <2>1. Moved(N, work, w, g, a)
    BY <1>3, <1>4, WorkerMoves
  <2> QED BY <2>1 DEF Moved
<1>6. \A f \in 1 .. N : w[f].job = work[f].job /\ (w[f].at \in BusyAts <=> work[f].at \in BusyAts)
  BY <1>3, <1>5
<1>7. /\ n \in 1 .. Len(Queries) /\ next \in 1 .. n + 1 /\ acc = <<>> /\ results \in [1 .. n -> Answers]
      /\ \A j \in 1 .. next - 1 : \/ results[j] = Queries[j]
                                  \/ \E f \in 1 .. N : work[f].at \in BusyAts /\ work[f].job = j
      /\ \A f \in 1 .. N : work[f].at \in BusyAts => work[f].job \in 1 .. next - 1
  BY <1>1, <1>3 DEF PoolOK
<1>8. /\ \A j \in 1 .. next - 1 : \/ results[j] = Queries[j]
                                  \/ \E f \in 1 .. N : w[f].at \in BusyAts /\ w[f].job = j
      /\ \A f \in 1 .. N : w[f].at \in BusyAts => w[f].job \in 1 .. next - 1
  BY <1>6, <1>7
<1>9. /\ main \in {"idle", "dead", "feed", "closed", "done"}
      /\ main \in {"closed", "done"} => next = n + 1
  BY DEF PoolOK
<1>10. DOMAIN w = 1 .. N
  BY <1>5
<1> QED BY <1>1, <1>2, <1>4, <1>5, <1>7, <1>8, <1>9, <1>10 DEF PoolOK

\* A worker that puts the answer of its job in its place has no job any more.
LEMMA PoolDelivers ==
  ASSUME PoolOK, mode = "ann", procs \in GoMaxProcs, NEW g \in DOMAIN work,
         work[g].at \in BusyAts, Deliver(g), UNCHANGED <<mode, procs, main, n, acc, next>>
  PROVE  PoolOK'
<1>1. main \notin {"idle", "dead", "done"} /\ n \in 1 .. Len(Queries) /\ next \in 1 .. n + 1 /\ n \in Nat /\ next \in Nat
  BY QueriesAre DEF PoolOK, NoBatch, BusyAts
<1>2. PICK N : N = Min({n, procs})
  OBVIOUS
<1>3. N \in Nat /\ work \in [1 .. N -> PoolWorker] /\ DOMAIN work = 1 .. N
  BY <1>1, <1>2, PoolSize DEF PoolOK
<1>4. PICK w, j : w = work' /\ j = work[g].job
  OBVIOUS
<1>5. w = [work EXCEPT ![g].at = "recv"] /\ "recv" \in AnnAts
  BY <1>4 DEF Deliver, Goto, AnnAts
<1>6. /\ w \in [1 .. N -> PoolWorker] /\ w[g] = [at |-> "recv", job |-> j]
      /\ \A f \in 1 .. N : f # g => w[f] = work[f]
  <2>1. Moved(N, work, w, g, "recv")
    BY <1>3, <1>5, WorkerMoves
  <2> QED BY <1>4, <2>1 DEF Moved
<1>7. j \in 1 .. next - 1 /\ j \in 1 .. n /\ results \in [1 .. n -> Answers]
  BY <1>1, <1>4 DEF PoolOK
<1>8. results' = [results EXCEPT ![j] = Queries[j]]
  BY <1>4 DEF Deliver
<1>9. results' \in [1 .. n -> Answers] /\ results'[j] = Queries[j] /\ \A i \in 1 .. n : i # j => results'[i] = results[i]
  <2>1. Queries[j] \in Answers
    BY <1>1, <1>7, QueriesAre DEF Answers, Range
  <2> QED BY <1>7, <1>8, <2>1
<1>10. w[g].at \notin BusyAts
  BY <1>6 DEF BusyAts
<1>11. ASSUME NEW i \in 1 .. next - 1
       PROVE  results'[i] = Queries[i] \/ \E f \in 1 .. N : w[f].at \in BusyAts /\ w[f].job = i
  <2>1. CASE i = j
    BY <1>9, <2>1
  <2>2. CASE i # j
    <3>1. results'[i] = results[i]
      BY <1>1, <1>9, <2>2
    <3>2. results[i] = Queries[i] \/ \E f \in DOMAIN work : work[f].at \in BusyAts /\ work[f].job = i
      BY <1>1 DEF PoolOK
    <3>3. ASSUME NEW f \in DOMAIN work, work[f].at \in BusyAts, work[f].job = i
          PROVE  f \in 1 .. N /\ w[f].at \in BusyAts /\ w[f].job = i
      BY <1>3, <1>4, <1>6, <2>2, <3>3
    <3> QED BY <3>1, <3>2, <3>3
  <2> QED BY <2>1, <2>2
<1>12. ASSUME NEW f \in 1 .. N, w[f].at \in BusyAts PROVE w[f].job \in 1 .. next - 1
  <2>1. f # g
    BY <1>10, <1>12
  <2> QED BY <1>1, <1>3, <1>6, <1>12, <2>1 DEF PoolOK
<1>13. DOMAIN w = 1 .. N
  BY <1>6
<1> QED BY <1>1, <1>2, <1>4, <1>6, <1>9, <1>11, <1>12, <1>13 DEF PoolOK

LEMMA PoolStarts ==
  ASSUME PoolOK, mode = "ann", procs \in GoMaxProcs, NEW size \in 1 .. Len(Queries), StartANN(size)
  PROVE  PoolOK'
<1>1. PICK N : N = Min({size, procs})
  OBVIOUS
<1>2. N \in Nat /\ size \in Nat
  BY <1>1, PoolSize, QueriesAre
<1>3. /\ main' = "feed" /\ n' = size /\ next' = 1 /\ acc' = <<>> /\ procs' = procs
      /\ results' = [i \in 1 .. size |-> NoResult]
      /\ work' = [g \in 1 .. N |-> [at |-> "recv", job |-> 0]]
  BY <1>1 DEF StartANN, static
<1>4. work' \in [1 .. N -> PoolWorker]
  BY <1>3 DEF PoolWorker, AnnAts, BusyAts
<1>5. \A g \in 1 .. N : work'[g].at \notin BusyAts
  BY <1>3 DEF BusyAts
<1>6. results' \in [1 .. size -> Answers] /\ DOMAIN work' = 1 .. N /\ 1 .. (1 - 1) = {} /\ 1 \in 1 .. size + 1
  BY <1>2, <1>3 DEF Answers
<1> QED BY <1>1, <1>3, <1>4, <1>5, <1>6 DEF PoolOK

LEMMA PoolSends ==
  ASSUME PoolOK, mode = "ann", procs \in GoMaxProcs, NEW g \in DOMAIN work, SendJob(g)
  PROVE  PoolOK'
<1>1. /\ main = "feed" /\ next <= n /\ work[g].at = "recv" /\ next' = next + 1
      /\ work' = [work EXCEPT ![g] = [at |-> "search", job |-> next]]
      /\ UNCHANGED <<mode, procs, main, n, acc, results>>
  BY DEF SendJob, static
<1>2. n \in 1 .. Len(Queries) /\ next \in 1 .. n + 1 /\ n \in Nat /\ next \in Nat /\ results \in [1 .. n -> Answers]
  BY <1>1, QueriesAre DEF PoolOK
<1>3. PICK N : N = Min({n, procs})
  OBVIOUS
<1>4. N \in Nat /\ work \in [1 .. N -> PoolWorker] /\ DOMAIN work = 1 .. N
  BY <1>1, <1>2, <1>3, PoolSize DEF PoolOK
<1>5. PICK w : w = work'
  OBVIOUS
<1>6. [at |-> "search", job |-> next] \in PoolWorker
  BY <1>2 DEF PoolWorker, AnnAts, BusyAts
<1>7. /\ w \in [1 .. N -> PoolWorker] /\ w[g] = [at |-> "search", job |-> next]
      /\ \A f \in 1 .. N : f # g => w[f] = work[f]
  BY <1>1, <1>4, <1>5, <1>6
<1>8. ASSUME NEW i \in 1 .. next
      PROVE  results[i] = Queries[i] \/ \E f \in 1 .. N : w[f].at \in BusyAts /\ w[f].job = i
  <2>1. CASE i = next
    BY <1>4, <1>7, <2>1 DEF BusyAts
  <2>2. CASE i # next
    <3>1. i \in 1 .. next - 1
      BY <1>2, <2>2
    <3>2. results[i] = Queries[i] \/ \E f \in DOMAIN work : work[f].at \in BusyAts /\ work[f].job = i
      BY <1>1, <3>1 DEF PoolOK
    <3>3. ASSUME NEW f \in DOMAIN work, work[f].at \in BusyAts PROVE f \in 1 .. N /\ w[f] = work[f]
      <4>1. f # g
        BY <1>1, <3>3 DEF BusyAts
      <4> QED BY <1>4, <1>7, <4>1
    <3> QED BY <3>2, <3>3
  <2> QED BY <2>1, <2>2
<1>9. ASSUME NEW f \in 1 .. N, w[f].at \in BusyAts PROVE w[f].job \in 1 .. next
  <2>1. CASE f = g
    BY <1>2, <1>7, <2>1
  <2>2. CASE f # g
    <3>1. w[f] = work[f]
      BY <1>7, <2>2
    <3>2. work[f].job \in 1 .. next - 1
      BY <1>1, <1>4, <1>9, <3>1 DEF PoolOK
    <3> QED BY <1>2, <3>1, <3>2
  <2> QED BY <2>1, <2>2
<1>10. DOMAIN w = 1 .. N /\ next' \in 1 .. n + 1 /\ next' - 1 = next
  BY <1>1, <1>2, <1>7
<1> QED BY <1>1, <1>2, <1>3, <1>5, <1>7, <1>8, <1>9, <1>10 DEF PoolOK

\* The main goroutine's other steps and the end of a worker.
LEMMA PoolLeaves ==
  ASSUME PoolOK, mode = "ann", procs \in GoMaxProcs, NEW g \in DOMAIN work, Leave(g)
  PROVE  PoolOK'
<1>1. /\ main = "closed" /\ work[g].at = "recv" /\ work' = [work EXCEPT ![g].at = "exit"]
      /\ UNCHANGED <<mode, procs, main, n, acc, next, results>>
  BY DEF Leave, static
<1>2. work[g].at \notin BusyAts /\ "exit" \notin BusyAts /\ "exit" \in AnnAts
  BY <1>1 DEF BusyAts, AnnAts
<1> QED BY <1>1, <1>2, PoolMoves

LEMMA PoolCloses ==
  ASSUME PoolOK, mode = "ann", procs \in GoMaxProcs, CloseJobs PROVE PoolOK'
<1>1. /\ main = "feed" /\ next > n /\ main' = "closed"
      /\ UNCHANGED <<mode, procs, n, acc, next, work, results>>
  BY DEF CloseJobs, static, batchCall
<1>2. n \in 1 .. Len(Queries) /\ next \in 1 .. n + 1 /\ n \in Nat
  BY <1>1, QueriesAre DEF PoolOK
<1>3. next = n + 1
  BY <1>1, <1>2
<1> QED BY <1>1, <1>3 DEF PoolOK

LEMMA PoolCollects ==
  ASSUME PoolOK, mode = "ann", CollectANN PROVE PoolOK'
<1>1. /\ main = "closed" /\ main' = "done" /\ \A g \in DOMAIN work : work[g].at = "exit"
      /\ UNCHANGED <<mode, procs, n, acc, next, work, results>>
  BY DEF CollectANN, static, batchCall
<1> QED BY <1>1 DEF PoolOK

\* Once every worker left, every job is answered.
LEMMA PoolAnswers ==
  ASSUME PoolOK, main = "done" PROVE results = SubSeq(Queries, 1, n)
<1>1. /\ next = n + 1 /\ n \in 1 .. Len(Queries) /\ results \in [1 .. n -> Answers]
      /\ \A g \in DOMAIN work : work[g].at = "exit"
  BY DEF PoolOK
<1>2. \A g \in DOMAIN work : work[g].at \notin BusyAts
  BY <1>1 DEF BusyAts
<1>3. next - 1 = n /\ n \in Nat
  BY <1>1, QueriesAre
<1>4. \A j \in 1 .. n : results[j] = Queries[j]
  BY <1>2, <1>3 DEF PoolOK
<1>5. results = [j \in 1 .. n |-> Queries[j]]
  BY <1>1, <1>4
<1>6. SubSeq(Queries, 1, n) = [j \in 1 .. n |-> Queries[j]]
  BY <1>1, <1>3, QueriesAre, BatchAssumption
<1> QED BY <1>5, <1>6

----------------------------------------------------------------------------
(* Exact mode: how the queries are cut into chunks.                        *)

LEMMA Division ==
  ASSUME NEW a \in Nat, NEW b \in Nat \ {0}
  PROVE  /\ a \div b \in Nat /\ a % b \in 0 .. b - 1
         /\ a = b * (a \div b) + (a % b)
         /\ b * (a \div b) <= a /\ a < b * (a \div b) + b
OBVIOUS

LEMMA Multiples ==
  ASSUME NEW a \in Nat, NEW b \in Nat, NEW c \in Nat
  PROVE  /\ a <= b => c * a <= c * b
         /\ a < b => c * a + c <= c * b
OBVIOUS

\* scanExactBatch serves every query of a chunk: the blocks of Width and the
\* rest make up the whole.
LEMMA AllScanned ==
  ASSUME NEW len \in Nat
  PROVE  Scanned(len) = 1 .. len
<1>1. Width \in Nat \ {0}
  BY BatchAssumption
<1>2. PICK q, r : q = len \div Width /\ r = len % Width
  OBVIOUS
<1>3. q \in Nat /\ r \in Nat /\ r < Width /\ len = Width * q + r
  BY <1>1, <1>2, Division
<1>4. PICK wq : wq = Width * q
  OBVIOUS
<1>5. wq \in Nat /\ len = wq + r
  BY <1>1, <1>3, <1>4
<1> DEFINE blocks == {i + j : i \in {Width * m : m \in 0 .. q - 1}, j \in 1 .. Width}
           rest == (len - r + 1) .. len
<1>6. Scanned(len) = blocks \cup rest
  BY <1>2 DEF Scanned
<1>7. ASSUME NEW x \in blocks PROVE x \in 1 .. len
  <2>1. PICK m \in 0 .. q - 1, j \in 1 .. Width : x = Width * m + j
    OBVIOUS
  <2>2. PICK wm : wm = Width * m
    OBVIOUS
  <2>3. m \in Nat /\ m < q /\ wm \in Nat
    BY <1>1, <1>3, <2>2
  <2>4. wm + Width <= wq
    BY <1>1, <1>3, <1>4, <2>2, <2>3, Multiples
  <2> QED BY <1>1, <1>3, <1>5, <2>1, <2>2, <2>3, <2>4
<1>8. ASSUME NEW x \in rest PROVE x \in 1 .. len
  BY <1>3, <1>5
<1>9. ASSUME NEW x \in 1 .. len PROVE x \in blocks \/ x \in rest
  <2>1. CASE x > wq
    BY <1>3, <1>5, <2>1
  <2>2. CASE x <= wq
    <3>1. x - 1 \in Nat
      OBVIOUS
    <3>2. PICK m, j : m = (x - 1) \div Width /\ j = ((x - 1) % Width) + 1
      OBVIOUS
    <3>3. PICK wm : wm = Width * m
      OBVIOUS
    <3>4. m \in Nat /\ j \in 1 .. Width /\ x - 1 = wm + (j - 1) /\ wm \in Nat
      <4>1. PICK y \in Nat : y = x - 1
        BY <3>1
      <4>2. y \div Width \in Nat /\ y % Width \in 0 .. Width - 1 /\ y = Width * (y \div Width) + (y % Width)
        BY <1>1, Division
      <4>3. PICK e \in 0 .. Width - 1 : e = y % Width
        BY <4>2
      <4>4. m \in Nat /\ wm \in Nat /\ y = wm + e /\ j = e + 1
        BY <1>1, <3>2, <3>3, <4>1, <4>2, <4>3
      <4> QED BY <1>1, <4>1, <4>3, <4>4
    <3>5. x = wm + j
      BY <1>1, <3>4
    <3>6. m < q
      <4>1. SUFFICES ASSUME q <= m PROVE FALSE
        BY <1>3, <3>4
      <4>2. wq <= wm
        BY <1>1, <1>3, <1>4, <3>3, <3>4, <4>1, Multiples
      <4> QED BY <1>1, <1>5, <2>2, <3>4, <3>5, <4>2
    <3>7. m \in 0 .. q - 1
      BY <1>3, <3>4, <3>6
    <3> QED BY <3>3, <3>4, <3>5, <3>7
  <2> QED BY <1>5, <2>1, <2>2
<1> QED BY <1>6, <1>7, <1>8, <1>9

\* len is a chunk size for size queries that makes C chunks.
Cut(size, len, C) ==
  /\ size \in Nat \ {0} /\ len \in Nat \ {0} /\ C \in Nat \ {0}
  /\ len * (C - 1) < size /\ size <= len * C

\* Rounding up to whole chunks.
LEMMA CutBy ==
  ASSUME NEW size \in Nat \ {0}, NEW len \in Nat \ {0}
  PROVE  Cut(size, len, (size + len - 1) \div len)
<1>1. PICK C : C = (size + len - 1) \div len
  OBVIOUS
<1>2. PICK a : a = len * C
  OBVIOUS
<1>3. size + len - 1 \in Nat
  OBVIOUS
<1>4. C \in Nat /\ a <= size + len - 1 /\ size + len - 1 < a + len
  BY <1>1, <1>2, <1>3, Division
<1>5. C # 0
  BY <1>2, <1>4
<1>6. len * (C - 1) = a - len
  BY <1>2, <1>4
<1> QED BY <1>1, <1>2, <1>4, <1>5, <1>6 DEF Cut

\* A chunk at least as long as the share of each of W workers makes at most W.
LEMMA CutFits ==
  ASSUME NEW size, NEW len, NEW C, Cut(size, len, C), NEW W \in Nat, size <= len * W
  PROVE  C <= W
<1>1. size \in Nat /\ len \in Nat \ {0} /\ C \in Nat \ {0} /\ len * (C - 1) < size
  BY DEF Cut
<1>2. SUFFICES ASSUME W <= C - 1 PROVE FALSE
  BY <1>1
<1>3. PICK b : b = C - 1
  OBVIOUS
<1>4. b \in Nat
  BY <1>1, <1>3
<1>5. len * W <= len * b
  BY <1>1, <1>2, <1>3, <1>4, Multiples
<1>6. len * W \in Nat /\ len * b \in Nat
  BY <1>1, <1>4
<1> QED BY <1>1, <1>3, <1>5, <1>6

\* The chunks that searchBatchExactParallel makes, at most one per processor.
LEMMA ChunksCut ==
  ASSUME procs \in GoMaxProcs, NEW size \in 1 .. Len(Queries),
         NEW len, len = ChunkSize(size), NEW C, C = (size + len - 1) \div len
  PROVE  Cut(size, len, C) /\ C <= procs
<1>1. size \in Nat \ {0} /\ procs \in Nat \ {0} /\ Width \in Nat \ {0}
  BY QueriesAre, ProcsAre, BatchAssumption
<1>2. PICK W : W = Workers(size)
  OBVIOUS
<1>3. CASE W <= 1
  <2>1. len = size
    BY <1>2, <1>3 DEF ChunkSize
  <2>2. Cut(size, len, C)
    BY <1>1, <2>1, CutBy
  <2>3. size <= len * 1 /\ 1 \in Nat
    BY <1>1, <2>1
  <2>4. C <= 1
    BY <2>2, <2>3, CutFits
  <2>5. C \in Nat
    BY <2>2 DEF Cut
  <2> QED BY <1>1, <2>2, <2>4, <2>5
<1>4. CASE ~ (W <= 1)
  <2>1. size >= 2 * Width /\ procs > 1 /\ W = Min({procs, size \div Width})
    BY <1>2, <1>4 DEF Workers
  <2>2. size \div Width \in Nat
    BY <1>1, Division
  <2>3. W \in Nat /\ W > 1 /\ W <= procs
    BY <1>1, <1>4, <2>1, <2>2, MinOfTwo
  <2>4. PICK s : s = (size + W - 1) \div W
    OBVIOUS
  <2>5. s \in Nat \ {0} /\ size <= W * s
    <3>1. Cut(size, W, s)
      BY <1>1, <2>3, <2>4, CutBy
    <3> QED BY <3>1 DEF Cut
  <2>6. len = RoundUp(s)
    BY <1>2, <1>4, <2>4 DEF ChunkSize
  <2>7. s % Width \in 0 .. Width - 1
    BY <1>1, <2>5, Division
  <2>8. len \in Nat /\ len >= s
    BY <1>1, <2>5, <2>6, <2>7 DEF RoundUp
  <2>9. W * s <= W * len /\ W * s \in Nat /\ W * len \in Nat
    <3>1. s \in Nat /\ s <= len
      BY <2>5, <2>8
    <3>2. W * s <= W * len
      BY <2>3, <2>8, <3>1, Multiples
    <3> QED BY <2>3, <2>8, <3>1, <3>2
  <2>10. size <= len * W
    BY <1>1, <2>3, <2>5, <2>8, <2>9
  <2>11. Cut(size, len, C)
    BY <1>1, <2>5, <2>8, CutBy
  <2>12. C <= W
    BY <2>3, <2>10, <2>11, CutFits
  <2>13. C \in Nat
    BY <2>11 DEF Cut
  <2> QED BY <1>1, <2>3, <2>11, <2>12, <2>13
<1> QED BY <1>3, <1>4

\* The chunks lie within the batch, do not overlap and cover it.
LEMMA ChunkBounds ==
  ASSUME NEW size, NEW len, NEW C, Cut(size, len, C), NEW c \in 1 .. C
  PROVE  /\ (c - 1) * len \in Nat /\ Min({c * len, size}) \in Nat
         /\ (c - 1) * len < Min({c * len, size}) /\ Min({c * len, size}) <= size
         /\ Min({c * len, size}) <= (c - 1) * len + len
<1>1. size \in Nat \ {0} /\ len \in Nat \ {0} /\ C \in Nat \ {0} /\ len * (C - 1) < size
  BY DEF Cut
<1>2. PICK e, f : e = c - 1 /\ f = C - 1
  OBVIOUS
<1>3. e \in Nat /\ f \in Nat /\ e <= f /\ c \in Nat /\ c = e + 1
  BY <1>1, <1>2
<1>4. PICK a : a = e * len
  OBVIOUS
<1>5. a \in Nat /\ a = len * e /\ c * len = a + len /\ (c - 1) * len = a
  BY <1>1, <1>2, <1>3, <1>4
<1>6. len * e <= len * f /\ len * f \in Nat
  BY <1>1, <1>3, Multiples
<1>7. a < size
  BY <1>1, <1>2, <1>5, <1>6
<1>8. Min({c * len, size}) = IF a + len <= size THEN a + len ELSE size
  BY <1>1, <1>5, MinOfTwo
<1> QED BY <1>1, <1>5, <1>7, <1>8

LEMMA ChunksDisjoint ==
  ASSUME NEW size, NEW len, NEW C, Cut(size, len, C), NEW c \in 1 .. C, NEW d \in 1 .. C, NEW i \in Nat,
         (c - 1) * len < i, i <= Min({c * len, size}), (d - 1) * len < i, i <= Min({d * len, size})
  PROVE  c = d
<1>1. len \in Nat \ {0} /\ C \in Nat
  BY DEF Cut
<1>2. PICK a, b : a = c - 1 /\ b = d - 1
  OBVIOUS
<1>3. PICK la, lb : la = len * a /\ lb = len * b
  OBVIOUS
<1>4. a \in Nat /\ b \in Nat /\ la \in Nat /\ lb \in Nat /\ (c - 1) * len = la /\ (d - 1) * len = lb
  BY <1>1, <1>2, <1>3
<1>5. Min({c * len, size}) \in Nat /\ Min({c * len, size}) <= la + len
  BY <1>4, ChunkBounds
<1>6. Min({d * len, size}) \in Nat /\ Min({d * len, size}) <= lb + len
  BY <1>4, ChunkBounds
<1>7. la < i /\ i <= la + len /\ lb < i /\ i <= lb + len
  BY <1>1, <1>4, <1>5, <1>6
<1>8. ~ (a < b)
  <2>1. a < b => la + len <= lb
    BY <1>1, <1>3, <1>4, Multiples
  <2> QED BY <1>1, <1>4, <1>7, <2>1
<1>9. ~ (b < a)
  <2>1. b < a => lb + len <= la
    BY <1>1, <1>3, <1>4, Multiples
  <2> QED BY <1>1, <1>4, <1>7, <2>1
<1> QED BY <1>2, <1>4, <1>8, <1>9

LEMMA ChunksCover ==
  ASSUME NEW size, NEW len, NEW C, Cut(size, len, C), NEW i \in 1 .. size
  PROVE  \E c \in 1 .. C : (c - 1) * len < i /\ i <= Min({c * len, size})
<1>1. size \in Nat \ {0} /\ len \in Nat \ {0} /\ C \in Nat \ {0} /\ size <= len * C
  BY DEF Cut
<1>2. PICK y \in Nat : y = i - 1
  BY <1>1
<1>3. PICK e : e = y \div len
  OBVIOUS
<1>4. PICK a : a = len * e
  OBVIOUS
<1>5. e \in Nat /\ a \in Nat /\ a <= y /\ y < a + len
  <2>1. y \div len \in Nat /\ len * (y \div len) <= y /\ y < len * (y \div len) + len
    BY <1>1, Division
  <2> QED BY <1>1, <1>3, <1>4, <2>1
<1>6. e < C
  <2>1. C <= e => len * C <= a
    BY <1>1, <1>4, <1>5, Multiples
  <2>2. len * C \in Nat
    BY <1>1
  <2> QED BY <1>1, <1>2, <1>5, <2>1, <2>2
<1>7. PICK c \in 1 .. C : c = e + 1
  BY <1>1, <1>5, <1>6
<1>8. (c - 1) * len = a /\ c * len = a + len
  BY <1>1, <1>4, <1>5, <1>7
<1>9. Min({c * len, size}) = IF a + len <= size THEN a + len ELSE size
  BY <1>1, <1>5, <1>8, MinOfTwo
<1>10. i = y + 1 /\ i <= size
  BY <1>1, <1>2
<1>11. (c - 1) * len < i /\ i <= Min({c * len, size})
  BY <1>1, <1>5, <1>8, <1>9, <1>10
<1> QED BY <1>11

----------------------------------------------------------------------------
(* Exact mode: the scans.                                                  *)

LEMMA SameAre ==
  ASSUME NEW i \in 1 .. Len(Queries)
  PROVE  /\ IsFiniteSet(Same(i)) /\ Same(i) \subseteq Stored
         /\ \A v \in Same(i) : Dist(i)[v] \in Int /\ Dist(i)[v] # NaN
         /\ \A v \in Stored : SameLen(i, v) /\ Dist(i)[v] # NaN => v \in Same(i)
<1>1. IsFiniteSet(Stored) /\ NaN \in Int
  BY BatchAssumption
<1>2. Same(i) \subseteq Stored
  BY DEF Same
<1>3. IsFiniteSet(Same(i))
  BY <1>1, <1>2, FS_Subset
<1>4. Distance[Queries[i].q] \in [Stored -> Nat \cup {NaN}]
  BY QueriesAre
<1>5. \A v \in Same(i) : Dist(i)[v] \in Int /\ Dist(i)[v] # NaN
  BY <1>1, <1>2, <1>4 DEF Dist, Same
<1>6. \A v \in Stored : SameLen(i, v) /\ Dist(i)[v] # NaN => v \in Same(i)
  BY DEF Same, Dist
<1> QED BY <1>2, <1>3, <1>5, <1>6

LEMMA AccAddIs ==
  ASSUME NEW I, NEW d, \A v \in I : d[v] \in Int /\ d[v] # NaN,
         NEW h, NEW k \in Nat \ {0}, NEW V, V \subseteq I, KBest(I, d, h, k, V), NEW v \in I, v \notin V
  PROVE  KBest(I, d, AccAdd(h, k, [id |-> v, distance |-> d[v]]), k, V \cup {v})
<1>1. PICK x : x = [id |-> v, distance |-> d[v]]
  OBVIOUS
<1>2. /\ Len(h) < k => KBest(I, d, Push(-1, h, x), k, V \cup {v})
      /\ Len(h) >= k /\ x.distance < h[1].distance => KBest(I, d, ReplaceTop(-1, h, x), k, V \cup {v})
      /\ Len(h) >= k /\ x.distance >= h[1].distance => KBest(I, d, h, k, V \cup {v})
  BY <1>1, KBestAdd
<1>3. Len(h) \in Nat /\ TopIsWorst(I, d, h)
  BY KBestTop
<1>6. h # Spoiled /\ x.distance # NaN
  <2>1. SUFFICES ASSUME h = Spoiled PROVE FALSE
    BY <1>1
  <2>2. Len(h) = 1 /\ h[1] = [id |-> NaN, distance |-> NaN]
    BY <2>1 DEF Spoiled
  <2>3. h[1].id \in I /\ h[1].distance = d[h[1].id]
    BY <1>3, <2>2 DEF TopIsWorst
  <2> QED BY <2>2, <2>3
<1>4. CASE Len(h) < k
  BY <1>1, <1>2, <1>4, <1>6 DEF AccAdd
<1>5. CASE ~ (Len(h) < k)
  <2>1. Len(h) >= k /\ 1 \in 1 .. Len(h)
    BY <1>3, <1>5
  <2>2. h[1].distance \in Int
    BY <2>1, KBestTop DEF TopIsWorst
  <2>3. x.distance \in Int
    BY <1>1
  <2>4. x.distance < h[1].distance \/ x.distance >= h[1].distance
    BY <2>2, <2>3
  <2>5. x.distance < h[1].distance => ~ (x.distance >= h[1].distance)
    BY <2>2, <2>3
  <2> QED BY <1>1, <1>2, <1>5, <1>6, <2>1, <2>4, <2>5 DEF AccAdd
<1> QED BY <1>4, <1>5

LEMMA ScansStart ==
  ASSUME ScansOK, procs \in GoMaxProcs, NEW size \in 1 .. Len(Queries), StartExact(size)
  PROVE  ScansOK'
<1>1. PICK len : len = ChunkSize(size)
  OBVIOUS
<1>2. PICK C : C = (size + len - 1) \div len
  OBVIOUS
<1>3. Cut(size, len, C)
  BY <1>1, <1>2, ChunksCut
<1>4. /\ main' = "wait" /\ n' = size /\ next' = 0 /\ procs' = procs
      /\ acc' = [i \in 1 .. size |-> <<>>] /\ work' = Chunks(size)
  BY DEF StartExact, static
<1>5. work' = [c \in 1 .. C |-> [at |-> "scan", lo |-> (c - 1) * len, hi |-> Min({c * len, size}), todo |-> Stored]]
  BY <1>1, <1>2, <1>4 DEF Chunks
<1>6. ChunkSize(n)' = len /\ ChunkCount(n)' = C
  BY <1>1, <1>2, <1>4 DEF ChunkSize, Workers, ChunkCount
<1>7. PICK w : w = work'
  OBVIOUS
<1>8. ASSUME NEW g \in 1 .. C
      PROVE  /\ w[g] \in ChunkScan /\ w[g].at = "scan" /\ w[g].todo = Stored
             /\ w[g].lo = (g - 1) * len /\ w[g].hi = Min({g * len, size}) /\ w[g].hi <= size
  <2>1. (g - 1) * len \in Nat /\ Min({g * len, size}) \in Nat /\ Min({g * len, size}) <= size
    BY <1>3, ChunkBounds
  <2>2. w[g] = [at |-> "scan", lo |-> (g - 1) * len, hi |-> Min({g * len, size}), todo |-> Stored]
    BY <1>5, <1>7
  <2> QED BY <2>1, <2>2 DEF ChunkScan
<1>9. w \in [1 .. C -> ChunkScan] /\ DOMAIN w = 1 .. C
  BY <1>5, <1>7, <1>8
<1>10. ASSUME NEW g \in 1 .. C, NEW i \in w[g].lo + 1 .. w[g].hi
       PROVE  Kept(i, acc'[i], Same(i) \ w[g].todo)
  <2>1. i \in 1 .. size
    <3>1. w[g].lo \in Nat /\ w[g].hi \in Nat /\ w[g].hi <= size /\ size \in Nat
      <4>1. w[g] \in ChunkScan /\ w[g].hi <= size
        BY <1>8
      <4> QED BY <4>1, QueriesAre DEF ChunkScan
    <3> QED BY <3>1
  <2>2. i \in 1 .. Len(Queries) /\ acc'[i] = <<>>
    BY <1>4, <2>1, QueriesAre
  <2>3. Same(i) \ w[g].todo = {}
    BY <1>8, <2>2, SameAre
  <2>4. Queries[i].k \in Nat
    BY <2>2, QueriesAre
  <2> QED BY <2>2, <2>3, <2>4, KBestEmpty DEF Kept
<1>11. DOMAIN acc' = 1 .. size
  BY <1>4
<1> QED BY <1>4, <1>6, <1>7, <1>8, <1>9, <1>10, <1>11 DEF ScansOK

\* A vector offered to a query, whose block is served at once or not.
AfterMeeting(i, h, x, once) ==
  IF SameLen(i, x) /\ (Dist(i)[x] # NaN \/ once)
  THEN AccAdd(h, Queries[i].k, [id |-> x, distance |-> Dist(i)[x]])
  ELSE h

\* What a scan keeps for a query after one more vector.
LEMMA QueryMeets ==
  ASSUME NEW i \in 1 .. Len(Queries), NEW x \in Stored, NEW todo, x \in todo, NEW h, NEW once,
         Kept(i, h, Same(i) \ todo)
  PROVE  Kept(i, AfterMeeting(i, h, x, once), Same(i) \ (todo \ {x}))
<1>1. PICK I, d, k : I = Same(i) /\ d = Dist(i) /\ k = Queries[i].k
  OBVIOUS
<1>2. k \in Nat \ {0} /\ \A v \in I : d[v] \in Int /\ d[v] # NaN
  BY <1>1, QueriesAre, SameAre
<1>3. PICK V : V = I \ todo
  OBVIOUS
<1>4. PICK y, r : y = [id |-> x, distance |-> d[x]] /\ r = AfterMeeting(i, h, x, once)
  OBVIOUS
<1>5. r = IF SameLen(i, x) /\ (d[x] # NaN \/ once) THEN AccAdd(h, k, y) ELSE h
  BY <1>1, <1>4 DEF AfterMeeting
<1>6. CASE h = Spoiled /\ ~Numbers(i)
  <2>1. AccAdd(h, k, y) = Spoiled
    BY <1>6 DEF AccAdd
  <2>2. r = Spoiled
    BY <1>5, <1>6, <2>1
  <2> QED BY <1>4, <1>6, <2>2 DEF Kept
<1>7. CASE KBest(I, d, h, k, V)
  <2>1. V \subseteq I /\ x \notin V
    BY <1>3
  <2>2. CASE SameLen(i, x) /\ d[x] # NaN
    <3>1. x \in I
      BY <1>1, <2>2, SameAre
    <3>2. KBest(I, d, AccAdd(h, k, y), k, V \cup {x})
      BY <1>2, <1>4, <1>7, <2>1, <3>1, AccAddIs
    <3>3. V \cup {x} = I \ (todo \ {x})
      BY <1>3, <3>1
    <3>4. r = AccAdd(h, k, y)
      BY <1>5, <2>2
    <3>5. KBest(I, d, r, k, I \ (todo \ {x}))
      BY <3>2, <3>3, <3>4
    <3> QED BY <1>1, <1>4, <3>5 DEF Kept
  <2>3. CASE ~(SameLen(i, x) /\ d[x] # NaN)
    <3>1. x \notin I
      BY <1>1, <2>3 DEF Same, Dist
    <3>2. V = I \ (todo \ {x})
      BY <1>3, <3>1
    <3>3. CASE SameLen(i, x) /\ once
      <4>1. d[x] = NaN /\ ~Numbers(i)
        BY <1>1, <2>3, <3>3 DEF Numbers, Dist
      <4>2. y.distance = NaN
        BY <1>4, <4>1
      <4>3. r = Spoiled
        BY <1>5, <3>3, <4>2 DEF AccAdd
      <4> QED BY <1>4, <4>1, <4>3 DEF Kept
    <3>4. CASE ~(SameLen(i, x) /\ once)
      <4>1. r = h
        BY <1>5, <2>3, <3>4
      <4>2. KBest(I, d, r, k, I \ (todo \ {x}))
        BY <1>7, <3>2, <4>1
      <4> QED BY <1>1, <1>4, <4>2 DEF Kept
    <3> QED BY <3>3, <3>4
  <2> QED BY <2>2, <2>3
<1> QED BY <1>1, <1>3, <1>6, <1>7 DEF Kept

LEMMA ScansVisit ==
  ASSUME ScansOK, procs \in GoMaxProcs, NEW g \in DOMAIN work, NEW x \in Stored, Visit(g, x)
  PROVE  ScansOK'
<1>1. /\ work[g].at = "scan" /\ x \in work[g].todo /\ work' = [work EXCEPT ![g].todo = @ \ {x}]
      /\ UNCHANGED <<mode, procs, main, n, next, results>>
  BY DEF Visit, static
<1>2. main = "wait"
  BY <1>1 DEF ScansOK, NoBatch
<1>3. PICK len, C : len = ChunkSize(n) /\ C = ChunkCount(n)
  OBVIOUS
<1>4. /\ n \in 1 .. Len(Queries) /\ next = 0 /\ work \in [1 .. C -> ChunkScan] /\ DOMAIN acc = 1 .. n
      /\ \A f \in 1 .. C :
            /\ work[f].lo = (f - 1) * len /\ work[f].hi = Min({f * len, n})
            /\ work[f].at = "exit" => work[f].todo = {}
            /\ \A i \in work[f].lo + 1 .. work[f].hi :
                 Kept(i, acc[i], Same(i) \ work[f].todo)
  BY <1>2, <1>3 DEF ScansOK
<1>5. n \in Nat /\ \A i \in 1 .. n : i \in 1 .. Len(Queries)
  BY <1>4, QueriesAre
<1>6. Cut(n, len, C)
  BY <1>3, <1>4, ChunksCut DEF ChunkCount
<1>7. g \in 1 .. C
  BY <1>4
<1>8. PICK w, u : w = work' /\ u = work[g].todo
  OBVIOUS
<1>9. work[g] \in ChunkScan /\ u \subseteq Stored
  BY <1>4, <1>7, <1>8 DEF ChunkScan
<1>10. [work[g] EXCEPT !.todo = u \ {x}] =
         [at |-> work[g].at, lo |-> work[g].lo, hi |-> work[g].hi, todo |-> u \ {x}]
  BY <1>9 DEF ChunkScan
<1>11. w = [f \in 1 .. C |-> IF f = g THEN [work[g] EXCEPT !.todo = u \ {x}] ELSE work[f]]
  BY <1>1, <1>4, <1>7, <1>8
<1>12. /\ w[g] = [at |-> work[g].at, lo |-> work[g].lo, hi |-> work[g].hi, todo |-> u \ {x}]
       /\ \A f \in 1 .. C : f # g => w[f] = work[f]
  BY <1>7, <1>10, <1>11
<1>13. w[g] \in ChunkScan
  BY <1>9, <1>12 DEF ChunkScan
<1>14. w \in [1 .. C -> ChunkScan] /\ DOMAIN w = 1 .. C
  BY <1>4, <1>11, <1>12, <1>13
<1>15. PICK lo, hi : lo = work[g].lo /\ hi = work[g].hi
  OBVIOUS
<1>16. lo \in Nat /\ hi \in Nat /\ lo < hi /\ hi <= n /\ hi - lo \in Nat
  <2>1. /\ (g - 1) * len \in Nat /\ Min({g * len, n}) \in Nat
        /\ (g - 1) * len < Min({g * len, n}) /\ Min({g * len, n}) <= n
    BY <1>6, <1>7, ChunkBounds
  <2>2. lo = (g - 1) * len /\ hi = Min({g * len, n})
    BY <1>4, <1>7, <1>15
  <2> QED BY <2>1, <2>2
<1>17. PICK offered : offered = {lo + p : p \in Scanned(hi - lo)}
  OBVIOUS
<1>18. \A i \in 1 .. n : i \in offered <=> i \in lo + 1 .. hi
  <2>1. offered = {lo + p : p \in 1 .. hi - lo}
    BY <1>16, <1>17, AllScanned
  <2>2. ASSUME NEW i \in 1 .. n, i \in lo + 1 .. hi PROVE i \in offered
    <3>1. i - lo \in 1 .. hi - lo /\ i = lo + (i - lo)
      BY <1>5, <1>16, <2>2
    <3> QED BY <2>1, <3>1
  <2>3. ASSUME NEW i \in 1 .. n, i \in offered PROVE i \in lo + 1 .. hi
    BY <1>16, <2>1, <2>3
  <2> QED BY <2>2, <2>3
<1>19. acc' = [i \in 1 .. n |->
                IF i \in offered /\ SameLen(i, x) /\ (Dist(i)[x] # NaN \/ AtOnce(work[g], i, x))
                THEN AccAdd(acc[i], Queries[i].k, [id |-> x, distance |-> Dist(i)[x]])
                ELSE acc[i]]
  BY <1>15, <1>17 DEF Visit, Dist
<1>20. ASSUME NEW f \in 1 .. C, NEW i \in w[f].lo + 1 .. w[f].hi
       PROVE  Kept(i, acc'[i], Same(i) \ w[f].todo)
  <2>1. w[f].lo = work[f].lo /\ w[f].hi = work[f].hi
    BY <1>12
  <2>2. /\ work[f].lo \in Nat /\ work[f].hi \in Nat /\ work[f].hi <= n
        /\ work[f].lo = (f - 1) * len /\ work[f].hi = Min({f * len, n})
    <3>1. (f - 1) * len \in Nat /\ Min({f * len, n}) \in Nat /\ Min({f * len, n}) <= n
      BY <1>6, ChunkBounds
    <3>2. work[f].lo = (f - 1) * len /\ work[f].hi = Min({f * len, n})
      BY <1>4
    <3> QED BY <3>1, <3>2
  <2>3. i \in work[f].lo + 1 .. work[f].hi /\ i \in 1 .. n /\ i \in Nat
    BY <1>5, <2>1, <2>2
  <2>4. Kept(i, acc[i], Same(i) \ work[f].todo)
    BY <1>4, <2>3
  <2>5. CASE f = g
    <3>1. i \in offered
      BY <1>15, <1>18, <2>3, <2>5
    <3>2. acc'[i] = AfterMeeting(i, acc[i], x, AtOnce(work[g], i, x))
      BY <1>19, <2>3, <3>1 DEF AfterMeeting
    <3>3. w[f].todo = u \ {x}
      BY <1>12, <2>5
    <3>4. x \in u /\ Kept(i, acc[i], Same(i) \ u)
      BY <1>1, <1>8, <2>4, <2>5
    <3>5. PICK h, once : h = acc[i] /\ once = AtOnce(work[g], i, x)
      OBVIOUS
    <3>6. Kept(i, AfterMeeting(i, h, x, once), Same(i) \ (u \ {x}))
      BY <1>5, <2>3, <3>4, <3>5, QueryMeets
    <3> QED BY <3>2, <3>3, <3>5, <3>6
  <2>6. CASE f # g
    <3>1. i \notin offered
      <4>1. SUFFICES ASSUME i \in offered PROVE FALSE
        OBVIOUS
      <4>2. i \in lo + 1 .. hi
        BY <1>18, <2>3, <4>1
      <4>3. (g - 1) * len < i /\ i <= Min({g * len, n})
        <5>1. lo = (g - 1) * len /\ hi = Min({g * len, n})
          BY <1>4, <1>7, <1>15
        <5>2. lo < i /\ i <= hi
          BY <1>16, <2>3, <4>2
        <5> QED BY <5>1, <5>2
      <4>4. (f - 1) * len < i /\ i <= Min({f * len, n})
        BY <2>2, <2>3
      <4>5. f = g
        BY <1>6, <1>7, <2>3, <4>3, <4>4, ChunksDisjoint
      <4> QED BY <2>6, <4>5
    <3>2. acc'[i] = acc[i] /\ w[f] = work[f]
      BY <1>12, <1>19, <2>3, <2>6, <3>1
    <3> QED BY <2>4, <3>2
  <2> QED BY <2>5, <2>6
<1>21. DOMAIN acc' = 1 .. n
  BY <1>19
<1>22. ASSUME NEW f \in 1 .. C
       PROVE  /\ w[f].lo = (f - 1) * len /\ w[f].hi = Min({f * len, n})
              /\ w[f].at = "exit" => w[f].todo = {}
  <2>1. w[f].lo = work[f].lo /\ w[f].hi = work[f].hi
    BY <1>12
  <2>2. work[f].lo = (f - 1) * len /\ work[f].hi = Min({f * len, n}) /\ (work[f].at = "exit" => work[f].todo = {})
    BY <1>4
  <2>3. w[f].at = "exit" => f # g
    BY <1>1, <1>12
  <2> QED BY <1>12, <2>1, <2>2, <2>3
<1>23. ChunkSize(n)' = len /\ ChunkCount(n)' = C
  <2>1. n' = n /\ procs' = procs
    BY <1>1
  <2>2. ChunkSize(n)' = ChunkSize(n)
    BY <2>1 DEF ChunkSize, Workers
  <2> QED BY <1>3, <2>1, <2>2 DEF ChunkCount
<1>24. main' = "wait" /\ n' = n /\ next' = 0
  BY <1>1, <1>2, <1>4
<1> QED BY <1>4, <1>8, <1>14, <1>20, <1>21, <1>22, <1>23, <1>24 DEF ScansOK

LEMMA ScansEnd ==
  ASSUME ScansOK, procs \in GoMaxProcs, NEW g \in DOMAIN work, ScanDone(g)
  PROVE  ScansOK'
<1>1. /\ work[g].at = "scan" /\ work[g].todo = {} /\ work' = [work EXCEPT ![g].at = "exit"]
      /\ UNCHANGED <<mode, procs, main, n, acc, next, results>>
  BY DEF ScanDone, static
<1>2. main = "wait"
  BY <1>1 DEF ScansOK, NoBatch
<1>3. PICK len, C : len = ChunkSize(n) /\ C = ChunkCount(n)
  OBVIOUS
<1>4. /\ n \in 1 .. Len(Queries) /\ next = 0 /\ work \in [1 .. C -> ChunkScan] /\ DOMAIN acc = 1 .. n
      /\ \A f \in 1 .. C :
            /\ work[f].lo = (f - 1) * len /\ work[f].hi = Min({f * len, n})
            /\ work[f].at = "exit" => work[f].todo = {}
            /\ \A i \in work[f].lo + 1 .. work[f].hi :
                 Kept(i, acc[i], Same(i) \ work[f].todo)
  BY <1>2, <1>3 DEF ScansOK
<1>5. g \in 1 .. C /\ work[g] \in ChunkScan
  BY <1>4
<1>6. PICK w : w = work'
  OBVIOUS
<1>7. [work[g] EXCEPT !.at = "exit"] =
         [at |-> "exit", lo |-> work[g].lo, hi |-> work[g].hi, todo |-> work[g].todo]
  BY <1>5 DEF ChunkScan
<1>8. w = [f \in 1 .. C |-> IF f = g THEN [work[g] EXCEPT !.at = "exit"] ELSE work[f]]
  BY <1>1, <1>4, <1>5, <1>6
<1>9. /\ w[g] = [at |-> "exit", lo |-> work[g].lo, hi |-> work[g].hi, todo |-> work[g].todo]
      /\ \A f \in 1 .. C : f # g => w[f] = work[f]
  BY <1>5, <1>7, <1>8
<1>10. w[g] \in ChunkScan
  BY <1>5, <1>9 DEF ChunkScan
<1>11. w \in [1 .. C -> ChunkScan] /\ DOMAIN w = 1 .. C
  BY <1>4, <1>8, <1>9, <1>10
<1>12. \A f \in 1 .. C : /\ w[f].lo = work[f].lo /\ w[f].hi = work[f].hi /\ w[f].todo = work[f].todo
                         /\ w[f].at = "exit" => w[f].todo = {}
  <2> SUFFICES ASSUME NEW f \in 1 .. C
               PROVE  /\ w[f].lo = work[f].lo /\ w[f].hi = work[f].hi /\ w[f].todo = work[f].todo
                      /\ w[f].at = "exit" => w[f].todo = {}
    OBVIOUS
  <2>1. CASE f = g
    BY <1>1, <1>9, <2>1
  <2>2. CASE f # g
    BY <1>4, <1>9, <2>2
  <2> QED BY <2>1, <2>2
<1>13. n' = n /\ procs' = procs /\ main' = "wait" /\ next' = 0 /\ acc' = acc
  BY <1>1, <1>2, <1>4
<1>14. ChunkSize(n)' = len /\ ChunkCount(n)' = C
  <2>1. ChunkSize(n)' = ChunkSize(n)
    BY <1>13 DEF ChunkSize, Workers
  <2> QED BY <1>3, <1>13, <2>1 DEF ChunkCount
<1>15. ASSUME NEW f \in 1 .. C
       PROVE  /\ w[f].lo = (f - 1) * len /\ w[f].hi = Min({f * len, n})
              /\ w[f].at = "exit" => w[f].todo = {}
              /\ \A i \in w[f].lo + 1 .. w[f].hi :
                   Kept(i, acc[i], Same(i) \ w[f].todo)
  BY <1>4, <1>12
<1> QED BY <1>4, <1>6, <1>11, <1>13, <1>14, <1>15 DEF ScansOK

LEMMA ScansCollect ==
  ASSUME ScansOK, mode = "exact", CollectExact PROVE ScansOK'
<1>1. /\ main = "wait" /\ main' = "done" /\ \A g \in DOMAIN work : work[g].at = "exit"
      /\ results' = [i \in 1 .. n |-> SortOf(acc[i])]
      /\ n' = n /\ acc' = acc /\ next' = next /\ work' = work /\ procs' = procs
  BY DEF CollectExact, static
<1>2. ChunkSize(n)' = ChunkSize(n)
  BY <1>1 DEF ChunkSize, Workers
<1>3. ChunkCount(n)' = ChunkCount(n)
  BY <1>1, <1>2 DEF ChunkCount
<1>4. results' = [i \in 1 .. n' |-> SortOf(acc'[i])]
  BY <1>1
<1> QED BY <1>1, <1>2, <1>3, <1>4 DEF ScansOK

\* topKAccumulator.Results: the items can be sorted, and SortOf is a sorting.
LEMMA SortExists ==
  ASSUME NEW I, NEW d, \A v \in I : d[v] \in Int, NEW h, NEW k, NEW V, KBest(I, d, h, k, V)
  PROVE  SortOf(h) \in [DOMAIN h -> Range(h)] /\ IsSortOf(SortOf(h), h)
<1> DEFINE R == Items(I, d)
<1>1. h \in Seq(R) /\ GoodHeap(-1, h) /\ Comparable(R)
  BY ItemsAre DEF KBest
<1> HIDE DEF R
<1>2. PICK s : s = Reverse(PopAll(-1, h))
  OBVIOUS
<1>3. /\ s \in Seq(R) /\ Len(s) = Len(h) /\ Range(s) = Range(h)
      /\ \A i, j \in 1 .. Len(s) : i <= j => s[i].distance <= s[j].distance
  BY <1>1, <1>2, Drained
<1>4. DOMAIN h = 1 .. Len(h) /\ Len(h) \in Nat
  BY <1>1
<1>5. \A i \in 1 .. Len(s) : s[i] \in Range(s)
  BY <1>3, RangeIs
<1>6. s = [i \in 1 .. Len(h) |-> s[i]]
  BY <1>3
<1>7. s \in [DOMAIN h -> Range(h)]
  BY <1>3, <1>4, <1>5, <1>6
<1>8. \A i \in 1 .. Len(s) - 1 : s[i].distance <= s[i + 1].distance
  BY <1>3, <1>4
<1>9. IsSortOf(s, h)
  BY <1>3, <1>8 DEF IsSortOf
<1> QED BY <1>7, <1>9 DEF SortOf

\* The answer to a query.
IsAnswer(i, r) ==
  LET d == Distance[Queries[i].q]
      same == {x \in Stored : SameLen(i, x)}
      got == {r[j].id : j \in DOMAIN r}
  IN  /\ Len(r) = Min({Queries[i].k, Cardinality(same)})
      /\ got \subseteq same /\ Cardinality(got) = Len(r)
      /\ \A j \in DOMAIN r : r[j].distance = d[r[j].id]
      /\ \A j \in 1 .. Len(r) - 1 : r[j].distance <= r[j + 1].distance
      /\ \A x \in same \ got : d[x] >= r[Len(r)].distance

LEMMA KBestAnswers ==
  ASSUME NEW i \in 1 .. Len(Queries), Numbers(i), NEW h, Kept(i, h, Same(i)),
         NEW r, r = SortOf(h)
  PROVE  IsAnswer(i, r)
<1>1. PICK I, d, k : I = Same(i) /\ d = Dist(i) /\ k = Queries[i].k
  OBVIOUS
<1>2. k \in Nat \ {0} /\ IsFiniteSet(I) /\ \A v \in I : d[v] \in Int
  BY <1>1, QueriesAre, SameAre
<1>3. KBest(I, d, h, k, I)
  BY <1>1 DEF Kept
<1>4. PICK R : R = Items(I, d)
  OBVIOUS
<1>5. h \in Seq(R) /\ DOMAIN h = 1 .. Len(h) /\ Len(h) \in Nat /\ (Len(h) < k => Ids(h) = I) /\ Ids(h) \subseteq I
  BY <1>3, <1>4 DEF KBest
<1>6. r \in [DOMAIN h -> Range(h)] /\ IsSortOf(r, h)
  BY <1>2, <1>3, SortExists
<1>7. /\ Len(r) = Len(h) /\ Range(r) = Range(h)
      /\ \A j \in 1 .. Len(r) - 1 : r[j].distance <= r[j + 1].distance
  BY <1>6 DEF IsSortOf
<1>8. DOMAIN r = 1 .. Len(h)
  BY <1>5, <1>6
<1>9. Range(h) = {h[c] : c \in 1 .. Len(h)}
  BY <1>5, RangeIs
<1>10. \A j \in 1 .. Len(h) : \E c \in 1 .. Len(h) : r[j] = h[c]
  BY <1>5, <1>6, <1>9
<1>11. \A c \in 1 .. Len(h) : \E j \in 1 .. Len(h) : r[j] = h[c]
  <2>1. Range(r) = {r[j] : j \in 1 .. Len(h)}
    BY <1>8 DEF Range
  <2>2. \A c \in 1 .. Len(h) : h[c] \in Range(r)
    BY <1>7, <1>9
  <2> QED BY <2>1, <2>2
<1> DEFINE got == {r[j].id : j \in DOMAIN r}
<1>12. got = Ids(h)
  <2>1. \A v \in got : v \in Ids(h)
    BY <1>8, <1>10 DEF Ids
  <2>2. \A v \in Ids(h) : v \in got
    BY <1>8, <1>11 DEF Ids
  <2> QED BY <2>1, <2>2
<1>13. /\ Len(h) = IF k <= Cardinality(I) THEN k ELSE Cardinality(I)
       /\ Cardinality(Ids(h)) = Len(h) /\ Cardinality(I) \in Nat
  BY <1>2, <1>3, KBestCount
<1>14. Len(r) = Min({k, Cardinality(I)})
  BY <1>2, <1>7, <1>13, MinOfTwo
<1>15. \A c \in 1 .. Len(h) : /\ h[c].distance \in Int /\ h[c].distance <= h[1].distance
                              /\ h[c].distance = d[h[c].id]
  <2>1. TopIsWorst(I, d, h)
    BY <1>2, <1>3, KBestTop
  <2> QED BY <2>1 DEF TopIsWorst
<1>16. ASSUME NEW j \in DOMAIN r PROVE r[j].distance = d[r[j].id]
  <2>1. PICK c \in 1 .. Len(h) : r[j] = h[c]
    BY <1>8, <1>10
  <2>2. h[c].distance = d[h[c].id]
    BY <1>15
  <2> QED BY <2>1, <2>2
<1>17. ASSUME NEW x \in I \ got PROVE d[x] >= r[Len(r)].distance
  <2>1. x \notin Ids(h) /\ x \in I
    BY <1>12
  <2>2. Len(h) >= 1
    BY <1>2, <1>5, <2>1
  <2>3. PICK c \in 1 .. Len(h) : r[Len(r)] = h[c]
    <3>1. PICK l : l = Len(h)
      OBVIOUS
    <3>2. l \in 1 .. Len(h)
      BY <1>5, <2>2, <3>1
    <3>3. \E c \in 1 .. Len(h) : r[l] = h[c]
      BY <1>10, <3>2
    <3> QED BY <1>7, <3>1, <3>3
  <2>4. d[x] >= h[1].distance /\ d[x] \in Int
    BY <1>2, <1>3, <2>1 DEF KBest
  <2>5. h[1].distance \in Int /\ h[c].distance \in Int /\ h[c].distance <= h[1].distance
    BY <1>5, <1>15, <2>2
  <2> QED BY <2>3, <2>4, <2>5
<1>18. I = {x \in Stored : SameLen(i, x)} /\ d = Distance[Queries[i].q]
  BY <1>1 DEF Same, Dist, Numbers
<1> QED BY <1>1, <1>5, <1>7, <1>12, <1>13, <1>14, <1>16, <1>17, <1>18 DEF IsAnswer

\* When the scans are done, the answers of every chunk are exact.
LEMMA ScansAnswer ==
  ASSUME ScansOK, procs \in GoMaxProcs, main = "done"
  PROVE  Len(results) = n /\ \A i \in 1 .. n : Numbers(i) => IsAnswer(i, results[i])
<1>1. PICK len, C : len = ChunkSize(n) /\ C = ChunkCount(n)
  OBVIOUS
<1>2. /\ n \in 1 .. Len(Queries) /\ work \in [1 .. C -> ChunkScan] /\ DOMAIN work = 1 .. C
      /\ \A f \in 1 .. C :
            /\ work[f].lo = (f - 1) * len /\ work[f].hi = Min({f * len, n})
            /\ work[f].at = "exit" => work[f].todo = {}
            /\ \A i \in work[f].lo + 1 .. work[f].hi :
                 Kept(i, acc[i], Same(i) \ work[f].todo)
      /\ \A f \in 1 .. C : work[f].at = "exit"
      /\ results = [i \in 1 .. n |-> SortOf(acc[i])]
  BY <1>1 DEF ScansOK
<1>3. n \in Nat /\ \A i \in 1 .. n : i \in 1 .. Len(Queries)
  BY <1>2, QueriesAre
<1>4. Cut(n, len, C)
  BY <1>1, <1>2, ChunksCut DEF ChunkCount
<1>5. Len(results) = n
  BY <1>2, <1>3
<1>6. ASSUME NEW i \in 1 .. n, Numbers(i) PROVE IsAnswer(i, results[i])
  <2>1. PICK c \in 1 .. C : (c - 1) * len < i /\ i <= Min({c * len, n})
    BY <1>4, ChunksCover
  <2>2. (c - 1) * len \in Nat /\ Min({c * len, n}) \in Nat
    BY <1>4, ChunkBounds
  <2>3. work[c].lo = (c - 1) * len /\ work[c].hi = Min({c * len, n}) /\ work[c].todo = {}
    BY <1>2
  <2>4. i \in work[c].lo + 1 .. work[c].hi
    BY <1>3, <2>1, <2>2, <2>3
  <2>5. Kept(i, acc[i], Same(i) \ work[c].todo)
    BY <1>2, <2>4
  <2>6. Kept(i, acc[i], Same(i))
    BY <2>3, <2>5
  <2>7. PICK h, r : h = acc[i] /\ r = results[i]
    OBVIOUS
  <2>8. r = SortOf(h) /\ Kept(i, h, Same(i))
    BY <1>2, <2>6, <2>7
  <2>9. IsAnswer(i, r)
    BY <1>3, <1>6, <2>8, KBestAnswers
  <2> QED BY <2>7, <2>9
<1> QED BY <1>5, <1>6

----------------------------------------------------------------------------
(* The counters.                                                           *)

CountAt(w, A) == Cardinality({g \in DOMAIN w : w[g].at \in A})
One(b) == IF b THEN 1 ELSE 0

\* One goroutine of N moves, and what that does to the number at the places A.
OneMoves(N, w, v, g) ==
  DOMAIN w = 1 .. N /\ DOMAIN v = 1 .. N /\ \A f \in 1 .. N : f # g => v[f].at = w[f].at
CountChanges(w, v, g, A) ==
  CountAt(w, A) \in Nat /\ CountAt(v, A) = CountAt(w, A) + One(v[g].at \in A) - One(w[g].at \in A)

LEMMA CountMoves ==
  ASSUME NEW N \in Nat, NEW w, NEW v, NEW g \in 1 .. N, OneMoves(N, w, v, g), NEW A
  PROVE  CountChanges(w, v, g, A)
<1>1. IsFiniteSet(1 .. N)
  BY FS_Interval
<1> DEFINE B == {f \in 1 .. N : f # g /\ w[f].at \in A}
           cw == {f \in DOMAIN w : w[f].at \in A}
           cv == {f \in DOMAIN v : v[f].at \in A}
<1>2. IsFiniteSet(B) /\ g \notin B
  <2>1. B \subseteq 1 .. N
    OBVIOUS
  <2> QED BY <1>1, <2>1, FS_Subset
<1>3. Cardinality(B) \in Nat /\ Cardinality(B \cup {g}) = Cardinality(B) + 1
  <2> HIDE DEF B
  <2> QED BY <1>2, FS_CardinalityType, FS_AddElement
<1>4. cw = IF w[g].at \in A THEN B \cup {g} ELSE B
  <2>1. CASE w[g].at \in A
    BY <2>1 DEF OneMoves
  <2>2. CASE w[g].at \notin A
    BY <2>2 DEF OneMoves
  <2> QED BY <2>1, <2>2
<1>5. cv = IF v[g].at \in A THEN B \cup {g} ELSE B
  <2>1. CASE v[g].at \in A
    BY <2>1 DEF OneMoves
  <2>2. CASE v[g].at \notin A
    BY <2>2 DEF OneMoves
  <2> QED BY <2>1, <2>2
<1>6. CountAt(w, A) = Cardinality(cw) /\ CountAt(v, A) = Cardinality(cv)
  BY DEF CountAt
<1> HIDE DEF B, cw, cv
<1> QED BY <1>3, <1>4, <1>5, <1>6 DEF One, CountChanges

LEMMA CountIsNat ==
  ASSUME NEW N \in Nat, NEW w, DOMAIN w = 1 .. N, NEW A PROVE CountAt(w, A) \in Nat
<1>1. IsFiniteSet(1 .. N)
  BY FS_Interval
<1> DEFINE H == {g \in DOMAIN w : w[g].at \in A}
<1>2. H \subseteq 1 .. N
  OBVIOUS
<1>3. Cardinality(H) \in Nat
  <2> HIDE DEF H
  <2> QED BY <1>1, <1>2, FS_Subset, FS_CardinalityType
<1> QED BY <1>3 DEF CountAt

LEMMA CountNone ==
  ASSUME NEW w, NEW A, \A g \in DOMAIN w : w[g].at \notin A
  PROVE  CountAt(w, A) = 0
<1>1. {g \in DOMAIN w : w[g].at \in A} = {}
  OBVIOUS
<1> QED BY <1>1, FS_EmptySet DEF CountAt

\* The strengthening of StatsBalanced: a sample is taken of a hit that is
\* counted and not answered yet.
Balanced(s, w) ==
  /\ s.requests = s.hits + s.exact + CountAt(w, {"ann", "asked", "fallback", "count"})
  /\ s.annSearches = s.hits + s.fallbacks + CountAt(w, {"asked", "fallback"})
  /\ s.errors <= s.fallbacks + CountAt(w, {"fallback"})
  /\ s.samples + CountAt(w, {"hit", "sample"}) <= s.hits
StatsOK == Balanced(stats, work)

LEMMA BalancedIs ==
  ASSUME StatsOK, stats \in [Counters -> Nat], CountAt(work, {"hit", "sample"}) \in Nat
  PROVE  StatsBalanced
<1>1. \A A : Busy(A) = CountAt(work, A)
  BY DEF Busy, CountAt
<1>2. stats.samples \in Nat /\ stats.hits \in Nat
  BY DEF Counters
<1> QED BY <1>1, <1>2 DEF StatsOK, Balanced, StatsBalanced

\* Goroutines that are not in a search are not counted.
Quiet(w) == \A g \in DOMAIN w : w[g].at \notin {"ann", "asked", "fallback", "count", "hit", "sample"}

LEMMA BalancedQuiet ==
  ASSUME NEW s, NEW w, NEW v, Balanced(s, w), Quiet(w), Quiet(v)
  PROVE  Balanced(s, v)
<1>1. ASSUME NEW A \in {{"ann", "asked", "fallback", "count"}, {"asked", "fallback"}, {"fallback"}, {"hit", "sample"}}
      PROVE  CountAt(w, A) = 0 /\ CountAt(v, A) = 0
  BY CountNone DEF Quiet
<1> QED BY <1>1 DEF Balanced

\* Nor are they when the searches in progress, all of them exact, end in a panic.
LEMMA BalancedEnds ==
  ASSUME NEW s \in [Counters -> Nat], NEW w, NEW v, Balanced(s, w), Quiet(v),
         \A g \in DOMAIN w : w[g].at \in {"exact", "sample"}, CountAt(w, {"hit", "sample"}) \in Nat
  PROVE  Balanced(s, v)
<1>1. ASSUME NEW A \in {{"ann", "asked", "fallback", "count"}, {"asked", "fallback"}, {"fallback"}}
      PROVE  CountAt(w, A) = 0 /\ CountAt(v, A) = 0
  BY CountNone DEF Quiet
<1>2. CountAt(v, {"hit", "sample"}) = 0
  BY CountNone DEF Quiet
<1>3. s.samples \in Nat /\ s.hits \in Nat
  BY DEF Counters
<1>4. s.samples + CountAt(w, {"hit", "sample"}) <= s.hits
  BY DEF Balanced
<1>5. s.samples + 0 <= s.hits
  BY <1>3, <1>4
<1> QED BY <1>1, <1>2, <1>5 DEF Balanced

\* Counting cs while a goroutine moves from place p to place q.
Counts(s, cs) == [c \in Counters |-> IF c \in cs THEN s[c] + 1 ELSE s[c]]
Fits(p, q, cs) ==
  \/ (p = "recv" /\ q = "search" /\ cs = {})
  \/ (p = "recv" /\ q = "exit" /\ cs = {})
  \/ (p = "search" /\ q = "ann" /\ cs = {"requests"})
  \/ (p = "ann" /\ q = "asked" /\ cs = {"annSearches"})
  \/ (p = "asked" /\ q = "fallback" /\ cs = {"errors"})
  \/ (p = "asked" /\ q = "fallback" /\ cs = {})
  \/ (p = "asked" /\ q = "hit" /\ cs = {"hits"})
  \/ (p = "hit" /\ q = "sample" /\ cs = {})
  \/ (p = "hit" /\ q = "recv" /\ cs = {})
  \/ (p = "sample" /\ q = "recv" /\ cs = {"samples"})
  \/ (p = "fallback" /\ q = "count" /\ cs = {"fallbacks"})
  \/ (p = "count" /\ q = "exact" /\ cs = {"exact"})
  \/ (p = "exact" /\ q = "recv" /\ cs = {})

LEMMA CountsAre ==
  ASSUME NEW s \in [Counters -> Nat], NEW cs
  PROVE  /\ Counts(s, cs) \in [Counters -> Nat]
         /\ \A c \in Counters : Counts(s, cs)[c] = s[c] + One(c \in cs) /\ One(c \in cs) \in Nat
<1>1. ASSUME NEW c \in Counters
      PROVE  Counts(s, cs)[c] = s[c] + One(c \in cs) /\ s[c] \in Nat /\ One(c \in cs) \in Nat
  <2>1. Counts(s, cs)[c] = IF c \in cs THEN s[c] + 1 ELSE s[c]
    BY DEF Counts
  <2> QED BY <2>1 DEF One
<1>2. Counts(s, cs) = [c \in Counters |-> s[c] + One(c \in cs)]
  BY <1>1 DEF Counts
<1> QED BY <1>1, <1>2

LEMMA CountsNothing ==
  ASSUME NEW s \in [Counters -> Nat] PROVE Counts(s, {}) = s
BY DEF Counts

LEMMA BalancedMoves ==
  ASSUME NEW s \in [Counters -> Nat], NEW N \in Nat, NEW w, NEW v, NEW g \in 1 .. N, OneMoves(N, w, v, g),
         Balanced(s, w), NEW cs, NEW p, NEW q, p = w[g].at, q = v[g].at, Fits(p, q, cs)
  PROVE  Balanced(Counts(s, cs), v)
<1>1. PICK a, b, c, e, x, y, z, o :
         /\ a = CountAt(w, {"ann", "asked", "fallback", "count"}) /\ x = CountAt(v, {"ann", "asked", "fallback", "count"})
         /\ b = CountAt(w, {"asked", "fallback"}) /\ y = CountAt(v, {"asked", "fallback"})
         /\ c = CountAt(w, {"fallback"}) /\ z = CountAt(v, {"fallback"})
         /\ e = CountAt(w, {"hit", "sample"}) /\ o = CountAt(v, {"hit", "sample"})
  OBVIOUS
<1>2. a \in Nat /\ x = a + One(q \in {"ann", "asked", "fallback", "count"}) - One(p \in {"ann", "asked", "fallback", "count"})
  <2>1. CountChanges(w, v, g, {"ann", "asked", "fallback", "count"})
    BY CountMoves
  <2> QED BY <1>1, <2>1 DEF CountChanges
<1>3. b \in Nat /\ y = b + One(q \in {"asked", "fallback"}) - One(p \in {"asked", "fallback"})
  <2>1. CountChanges(w, v, g, {"asked", "fallback"})
    BY CountMoves
  <2> QED BY <1>1, <2>1 DEF CountChanges
<1>4. c \in Nat /\ z = c + One(q \in {"fallback"}) - One(p \in {"fallback"})
  <2>1. CountChanges(w, v, g, {"fallback"})
    BY CountMoves
  <2> QED BY <1>1, <2>1 DEF CountChanges
<1>5. e \in Nat /\ o = e + One(q \in {"hit", "sample"}) - One(p \in {"hit", "sample"})
  <2>1. CountChanges(w, v, g, {"hit", "sample"})
    BY CountMoves
  <2> QED BY <1>1, <2>1 DEF CountChanges
<1>6. /\ s.requests \in Nat /\ s.hits \in Nat /\ s.exact \in Nat /\ s.annSearches \in Nat
      /\ s.fallbacks \in Nat /\ s.errors \in Nat /\ s.samples \in Nat
  BY DEF Counters
<1>7. /\ s.requests = s.hits + s.exact + a /\ s.annSearches = s.hits + s.fallbacks + b
      /\ s.errors <= s.fallbacks + c /\ s.samples + e <= s.hits
  BY <1>1 DEF Balanced
<1>8. PICK r : r = Counts(s, cs)
  OBVIOUS
<1>9. \A k \in Counters : r[k] = s[k] + One(k \in cs)
  BY <1>8, CountsAre
<1>10. /\ r.requests = s.requests + One("requests" \in cs) /\ r.hits = s.hits + One("hits" \in cs)
       /\ r.exact = s.exact + One("exact" \in cs) /\ r.annSearches = s.annSearches + One("annSearches" \in cs)
       /\ r.fallbacks = s.fallbacks + One("fallbacks" \in cs) /\ r.errors = s.errors + One("errors" \in cs)
       /\ r.samples = s.samples + One("samples" \in cs)
  BY <1>9 DEF Counters
<1> DEFINE Goal == /\ r.requests = r.hits + r.exact + x /\ r.annSearches = r.hits + r.fallbacks + y
                   /\ r.errors <= r.fallbacks + z /\ r.samples + o <= r.hits
           P(pa, qa, pb, qb, pc, qc, ph, qh) ==
             /\ One(p \in {"ann", "asked", "fallback", "count"}) = pa
             /\ One(q \in {"ann", "asked", "fallback", "count"}) = qa
             /\ One(p \in {"asked", "fallback"}) = pb /\ One(q \in {"asked", "fallback"}) = qb
             /\ One(p \in {"fallback"}) = pc /\ One(q \in {"fallback"}) = qc
             /\ One(p \in {"hit", "sample"}) = ph /\ One(q \in {"hit", "sample"}) = qh
           S(re, hi, ex, an, fa, er, sa) ==
             /\ One("requests" \in cs) = re /\ One("hits" \in cs) = hi /\ One("exact" \in cs) = ex
             /\ One("annSearches" \in cs) = an /\ One("fallbacks" \in cs) = fa
             /\ One("errors" \in cs) = er /\ One("samples" \in cs) = sa
<1>11. ASSUME p = "recv", q = "search", cs = {} PROVE Goal
  <2>1. P(0, 0, 0, 0, 0, 0, 0, 0)
    BY <1>11 DEF One
  <2>2. S(0, 0, 0, 0, 0, 0, 0)
    BY <1>11 DEF One
  <2> QED BY <1>2, <1>3, <1>4, <1>5, <1>6, <1>7, <1>10, <2>1, <2>2
<1>12. ASSUME p = "recv", q = "exit", cs = {} PROVE Goal
  <2>1. P(0, 0, 0, 0, 0, 0, 0, 0)
    BY <1>12 DEF One
  <2>2. S(0, 0, 0, 0, 0, 0, 0)
    BY <1>12 DEF One
  <2> QED BY <1>2, <1>3, <1>4, <1>5, <1>6, <1>7, <1>10, <2>1, <2>2
<1>13. ASSUME p = "search", q = "ann", cs = {"requests"} PROVE Goal
  <2>1. P(0, 1, 0, 0, 0, 0, 0, 0)
    BY <1>13 DEF One
  <2>2. S(1, 0, 0, 0, 0, 0, 0)
    BY <1>13 DEF One
  <2> QED BY <1>2, <1>3, <1>4, <1>5, <1>6, <1>7, <1>10, <2>1, <2>2
<1>14. ASSUME p = "ann", q = "asked", cs = {"annSearches"} PROVE Goal
  <2>1. P(1, 1, 0, 1, 0, 0, 0, 0)
    BY <1>14 DEF One
  <2>2. S(0, 0, 0, 1, 0, 0, 0)
    BY <1>14 DEF One
  <2> QED BY <1>2, <1>3, <1>4, <1>5, <1>6, <1>7, <1>10, <2>1, <2>2
<1>15. ASSUME p = "asked", q = "fallback", cs = {"errors"} PROVE Goal
  <2>1. P(1, 1, 1, 1, 0, 1, 0, 0)
    BY <1>15 DEF One
  <2>2. S(0, 0, 0, 0, 0, 1, 0)
    BY <1>15 DEF One
  <2> QED BY <1>2, <1>3, <1>4, <1>5, <1>6, <1>7, <1>10, <2>1, <2>2
<1>16. ASSUME p = "asked", q = "fallback", cs = {} PROVE Goal
  <2>1. P(1, 1, 1, 1, 0, 1, 0, 0)
    BY <1>16 DEF One
  <2>2. S(0, 0, 0, 0, 0, 0, 0)
    BY <1>16 DEF One
  <2> QED BY <1>2, <1>3, <1>4, <1>5, <1>6, <1>7, <1>10, <2>1, <2>2
<1>17. ASSUME p = "asked", q = "hit", cs = {"hits"} PROVE Goal
  <2>1. P(1, 0, 1, 0, 0, 0, 0, 1)
    BY <1>17 DEF One
  <2>2. S(0, 1, 0, 0, 0, 0, 0)
    BY <1>17 DEF One
  <2> QED BY <1>2, <1>3, <1>4, <1>5, <1>6, <1>7, <1>10, <2>1, <2>2
<1>18. ASSUME p = "hit", q = "sample", cs = {} PROVE Goal
  <2>1. P(0, 0, 0, 0, 0, 0, 1, 1)
    BY <1>18 DEF One
  <2>2. S(0, 0, 0, 0, 0, 0, 0)
    BY <1>18 DEF One
  <2> QED BY <1>2, <1>3, <1>4, <1>5, <1>6, <1>7, <1>10, <2>1, <2>2
<1>19. ASSUME p = "hit", q = "recv", cs = {} PROVE Goal
  <2>1. P(0, 0, 0, 0, 0, 0, 1, 0)
    BY <1>19 DEF One
  <2>2. S(0, 0, 0, 0, 0, 0, 0)
    BY <1>19 DEF One
  <2> QED BY <1>2, <1>3, <1>4, <1>5, <1>6, <1>7, <1>10, <2>1, <2>2
<1>20. ASSUME p = "sample", q = "recv", cs = {"samples"} PROVE Goal
  <2>1. P(0, 0, 0, 0, 0, 0, 1, 0)
    BY <1>20 DEF One
  <2>2. S(0, 0, 0, 0, 0, 0, 1)
    BY <1>20 DEF One
  <2> QED BY <1>2, <1>3, <1>4, <1>5, <1>6, <1>7, <1>10, <2>1, <2>2
<1>21. ASSUME p = "fallback", q = "count", cs = {"fallbacks"} PROVE Goal
  <2>1. P(1, 1, 1, 0, 1, 0, 0, 0)
    BY <1>21 DEF One
  <2>2. S(0, 0, 0, 0, 1, 0, 0)
    BY <1>21 DEF One
  <2>3. x = a /\ y = b - 1 /\ z = c - 1 /\ o = e
    BY <1>2, <1>3, <1>4, <1>5, <2>1
  <2>4. /\ r.requests = s.requests /\ r.hits = s.hits /\ r.exact = s.exact /\ r.annSearches = s.annSearches
        /\ r.fallbacks = s.fallbacks + 1 /\ r.errors = s.errors /\ r.samples = s.samples
    BY <1>6, <1>10, <2>2
  <2>5. r.requests = r.hits + r.exact + x
    BY <1>2, <1>6, <1>7, <2>3, <2>4
  <2>6. r.annSearches = r.hits + r.fallbacks + y
    BY <1>3, <1>6, <1>7, <2>3, <2>4
  <2>7. r.errors <= r.fallbacks + z
    BY <1>4, <1>6, <1>7, <2>3, <2>4
  <2>8. r.samples + o <= r.hits
    BY <1>5, <1>6, <1>7, <2>3, <2>4
  <2> QED BY <2>5, <2>6, <2>7, <2>8
<1>22. ASSUME p = "count", q = "exact", cs = {"exact"} PROVE Goal
  <2>1. P(1, 0, 0, 0, 0, 0, 0, 0)
    BY <1>22 DEF One
  <2>2. S(0, 0, 1, 0, 0, 0, 0)
    BY <1>22 DEF One
  <2>3. x = a - 1 /\ y = b /\ z = c /\ o = e
    BY <1>2, <1>3, <1>4, <1>5, <2>1
  <2>4. /\ r.requests = s.requests /\ r.hits = s.hits /\ r.exact = s.exact + 1 /\ r.annSearches = s.annSearches
        /\ r.fallbacks = s.fallbacks /\ r.errors = s.errors /\ r.samples = s.samples
    BY <1>6, <1>10, <2>2
  <2>5. r.requests = r.hits + r.exact + x
    BY <1>2, <1>6, <1>7, <2>3, <2>4
  <2>6. r.annSearches = r.hits + r.fallbacks + y
    BY <1>3, <1>6, <1>7, <2>3, <2>4
  <2>7. r.errors <= r.fallbacks + z
    BY <1>4, <1>6, <1>7, <2>3, <2>4
  <2>8. r.samples + o <= r.hits
    BY <1>5, <1>6, <1>7, <2>3, <2>4
  <2> QED BY <2>5, <2>6, <2>7, <2>8
<1>23. ASSUME p = "exact", q = "recv", cs = {} PROVE Goal
  <2>1. P(0, 0, 0, 0, 0, 0, 0, 0)
    BY <1>23 DEF One
  <2>2. S(0, 0, 0, 0, 0, 0, 0)
    BY <1>23 DEF One
  <2> QED BY <1>2, <1>3, <1>4, <1>5, <1>6, <1>7, <1>10, <2>1, <2>2
<1>24. Goal
  BY <1>11, <1>12, <1>13, <1>14, <1>15, <1>16, <1>17, <1>18, <1>19, <1>20, <1>21, <1>22, <1>23 DEF Fits
<1> QED BY <1>1, <1>8, <1>24 DEF Balanced

\* Moving one worker to place a.
Relocated(w, v, g, a) == \E N \in Nat : g \in 1 .. N /\ OneMoves(N, w, v, g) /\ v[g].at = a

LEMMA BalanceKept ==
  ASSUME NEW s \in [Counters -> Nat], NEW w, NEW v, NEW g, NEW a, Relocated(w, v, g, a),
         Balanced(s, w), NEW cs, Fits(w[g].at, a, cs)
  PROVE  Balanced(Counts(s, cs), v) /\ Counts(s, cs) \in [Counters -> Nat]
<1>1. PICK N \in Nat : g \in 1 .. N /\ OneMoves(N, w, v, g) /\ v[g].at = a
  BY DEF Relocated
<1>2. PICK p, q : p = w[g].at /\ q = v[g].at
  OBVIOUS
<1>3. Fits(p, q, cs)
  BY <1>1, <1>2
<1>4. Balanced(Counts(s, cs), v)
  BY <1>1, <1>2, <1>3, BalancedMoves
<1> QED BY <1>4, CountsAre

\* The places of the goroutines.
LEMMA PoolPlaces ==
  ASSUME PoolOK, procs \in GoMaxProcs
  PROVE  \E N \in Nat : DOMAIN work = 1 .. N /\ N <= procs /\ work \in [1 .. N -> PoolWorker]
<1>1. CASE main \in {"idle", "dead"}
  <2>1. work = <<>>
    BY <1>1 DEF PoolOK, NoBatch
  <2>2. DOMAIN work = 1 .. 0 /\ work \in [1 .. 0 -> PoolWorker] /\ 0 \in Nat
    BY <2>1
  <2> QED BY <2>2, ProcsAre
<1>2. CASE main \notin {"idle", "dead"}
  <2>1. PICK N : N = Min({n, procs})
    OBVIOUS
  <2>2. N \in Nat /\ N <= procs /\ work \in [1 .. N -> PoolWorker]
    BY <1>2, <2>1, PoolSize DEF PoolOK
  <2> QED BY <2>2
<1> QED BY <1>1, <1>2

LEMMA ScanPlaces ==
  ASSUME ScansOK, procs \in GoMaxProcs
  PROVE  \E N \in Nat : DOMAIN work = 1 .. N /\ N <= procs /\ work \in [1 .. N -> ChunkScan]
<1>1. CASE main = "idle"
  <2>1. work = <<>>
    BY <1>1 DEF ScansOK, NoBatch
  <2>2. DOMAIN work = 1 .. 0 /\ work \in [1 .. 0 -> ChunkScan] /\ 0 \in Nat
    BY <2>1
  <2> QED BY <2>2, ProcsAre
<1>2. CASE main # "idle"
  <2>1. PICK len, C : len = ChunkSize(n) /\ C = ChunkCount(n)
    OBVIOUS
  <2>2. n \in 1 .. Len(Queries) /\ work \in [1 .. C -> ChunkScan]
    BY <1>2, <2>1 DEF ScansOK
  <2>3. Cut(n, len, C) /\ C <= procs
    BY <2>1, <2>2, ChunksCut DEF ChunkCount
  <2> QED BY <2>2, <2>3 DEF Cut
<1> QED BY <1>1, <1>2

LEMMA Moves ==
  ASSUME PoolOK, procs \in GoMaxProcs, NEW g \in DOMAIN work, NEW a \in AnnAts,
         NEW w, w = [work EXCEPT ![g].at = a]
  PROVE  Relocated(work, w, g, a)
<1>1. PICK N \in Nat : DOMAIN work = 1 .. N /\ work \in [1 .. N -> PoolWorker]
  BY PoolPlaces
<1>2. Moved(N, work, w, g, a)
  BY <1>1, WorkerMoves
<1>3. OneMoves(N, work, w, g) /\ w[g].at = a
  BY <1>1, <1>2 DEF Moved, OneMoves
<1> QED BY <1>1, <1>3 DEF Relocated

\* A worker that moves and counts cs keeps the balance.
LEMMA StatsMove ==
  ASSUME PoolOK, procs \in GoMaxProcs, stats \in [Counters -> Nat], StatsOK,
         NEW g \in DOMAIN work, NEW a \in AnnAts, work' = [work EXCEPT ![g].at = a],
         NEW cs, stats' = Counts(stats, cs), Fits(work[g].at, a, cs)
  PROVE  StatsOK' /\ stats' \in [Counters -> Nat]
<1>1. PICK w : w = work'
  OBVIOUS
<1>2. Relocated(work, w, g, a)
  BY <1>1, Moves
<1>3. Balanced(Counts(stats, cs), w) /\ Counts(stats, cs) \in [Counters -> Nat]
  BY <1>2, BalanceKept DEF StatsOK
<1> QED BY <1>1, <1>3 DEF StatsOK

----------------------------------------------------------------------------
(* The inductive invariant.                                                *)

BatchInv == CallOK /\ StatsOK

LEMMA BatchInvInit == BatchInit => BatchInv
<1> SUFFICES ASSUME BatchInit PROVE BatchInv
  OBVIOUS
<1>1. CallOK
  <2>1. main = "idle" /\ NoBatch /\ mode \in {"ann", "exact"} /\ procs \in GoMaxProcs
    BY DEF BatchInit, NoBatch
  <2>2. stats \in [Counters -> Nat]
    BY DEF BatchInit
  <2> QED BY <2>1, <2>2 DEF CallOK, PoolOK, ScansOK
<1>2. DOMAIN work = {}
  BY DEF BatchInit
<1>3. \A A : CountAt(work, A) = 0
  BY <1>2, CountNone
<1>4. \A c \in Counters : stats[c] = 0
  BY DEF BatchInit
<1>5. StatsOK
  BY <1>3, <1>4 DEF StatsOK, Balanced, Counters
<1> QED BY <1>1, <1>5 DEF BatchInv

\* The steps of a batch in ANN mode.
LEMMA AnnSteps ==
  ASSUME BatchInv, mode = "ann", BatchNext PROVE BatchInv'
<1>1. PoolOK /\ procs \in GoMaxProcs /\ stats \in [Counters -> Nat] /\ StatsOK
  BY DEF BatchInv, CallOK
<1>2. PICK N \in Nat : DOMAIN work = 1 .. N /\ work \in [1 .. N -> PoolWorker]
  BY <1>1, PoolPlaces
<1>3. \A g \in DOMAIN work : work[g].at \in AnnAts /\ work[g].at # "scan"
  BY <1>2 DEF PoolWorker, AnnAts, BusyAts
<1> DEFINE Goal == /\ mode' = "ann" /\ procs' = procs /\ PoolOK'
                   /\ stats' \in [Counters -> Nat] /\ StatsOK'
<1>4. SUFFICES Goal
  BY <1>1 DEF BatchInv, CallOK
<1>5. Counts(stats, {}) = stats
  BY <1>1, CountsNothing
<1>6. {"recv", "exit"} \subseteq AnnAts /\ BusyAts \subseteq AnnAts
  BY DEF AnnAts
<1>7. ASSUME NEW size \in 1 .. Len(Queries), StartANN(size) PROVE Goal
  <2>1. PoolOK'
    BY <1>1, <1>7, PoolStarts
  <2>2. mode' = "ann" /\ procs' = procs /\ stats' = stats /\ main = "idle"
    BY <1>7 DEF StartANN, static
  <2>3. PICK w : w = work'
    OBVIOUS
  <2>4. Quiet(w)
    BY <1>7, <2>3 DEF StartANN, Quiet
  <2>5. work = <<>>
    BY <1>1, <2>2 DEF PoolOK, NoBatch
  <2>6. Quiet(work)
    BY <2>5 DEF Quiet
  <2>7. Balanced(stats, w)
    BY <1>1, <2>4, <2>6, BalancedQuiet DEF StatsOK
  <2> QED BY <1>1, <2>1, <2>2, <2>3, <2>7 DEF StatsOK
<1>8. ASSUME NEW g \in DOMAIN work, SendJob(g) PROVE Goal
  <2>1. PoolOK'
    BY <1>1, <1>8, PoolSends
  <2>2. /\ mode' = "ann" /\ procs' = procs /\ stats' = stats /\ work[g].at = "recv"
        /\ work' = [work EXCEPT ![g] = [at |-> "search", job |-> next]]
    BY <1>8 DEF SendJob, static
  <2>3. PICK w : w = work'
    OBVIOUS
  <2>4. OneMoves(N, work, w, g) /\ w[g].at = "search"
    BY <1>2, <2>2, <2>3 DEF OneMoves
  <2>5. Relocated(work, w, g, "search")
    BY <1>2, <2>4 DEF Relocated
  <2>6. Fits(work[g].at, "search", {})
    BY <2>2 DEF Fits
  <2>7. Balanced(Counts(stats, {}), w)
    BY <1>1, <2>5, <2>6, BalanceKept DEF StatsOK
  <2> QED BY <1>1, <1>5, <2>1, <2>2, <2>3, <2>7 DEF StatsOK
<1>9. ASSUME CloseJobs PROVE Goal
  <2>1. PoolOK'
    BY <1>1, <1>9, PoolCloses
  <2>2. mode' = "ann" /\ procs' = procs /\ stats' = stats /\ work' = work
    BY <1>9 DEF CloseJobs, static, batchCall
  <2> QED BY <1>1, <2>1, <2>2 DEF StatsOK
<1>10. ASSUME CollectANN PROVE Goal
  <2>1. PoolOK'
    BY <1>1, <1>10, PoolCollects
  <2>2. mode' = "ann" /\ procs' = procs /\ stats' = stats /\ work' = work
    BY <1>10 DEF CollectANN, static, batchCall
  <2> QED BY <1>1, <2>1, <2>2 DEF StatsOK
<1>11. ASSUME BatchReturn PROVE Goal
  <2>1. /\ main = "done" /\ mode' = "ann" /\ procs' = procs /\ stats' = stats /\ main' = "idle"
        /\ n' = 0 /\ acc' = <<>> /\ next' = 0 /\ work' = <<>> /\ results' = <<>>
    BY <1>11 DEF BatchReturn, EndCall, static
  <2>2. PoolOK'
    BY <2>1 DEF PoolOK, NoBatch
  <2>3. PICK w : w = work'
    OBVIOUS
  <2>4. Quiet(w)
    BY <2>1, <2>3 DEF Quiet
  <2>5. Quiet(work)
    BY <1>1, <2>1 DEF PoolOK, Quiet
  <2>6. Balanced(stats, w)
    BY <1>1, <2>4, <2>5, BalancedQuiet DEF StatsOK
  <2> QED BY <1>1, <2>1, <2>2, <2>3, <2>6 DEF StatsOK
<1>12. ASSUME NEW g \in DOMAIN work, Leave(g) PROVE Goal
  <2>1. PoolOK'
    BY <1>1, <1>12, PoolLeaves
  <2>2. /\ mode' = "ann" /\ procs' = procs /\ stats' = Counts(stats, {}) /\ work[g].at = "recv"
        /\ work' = [work EXCEPT ![g].at = "exit"] /\ "exit" \in AnnAts
    BY <1>5, <1>6, <1>12 DEF Leave, static
  <2>3. Fits(work[g].at, "exit", {})
    BY <2>2 DEF Fits
  <2>4. StatsOK' /\ stats' \in [Counters -> Nat]
    BY <1>1, <2>2, <2>3, StatsMove
  <2> QED BY <2>1, <2>2, <2>4
\* A worker moves on to place a and counts cs.
<1>13. ASSUME NEW g \in DOMAIN work, NEW a \in AnnAts, NEW cs, stats' = Counts(stats, cs), Goto(g, a),
              Fits(work[g].at, a, cs), work[g].at \in BusyAts, a \in BusyAts,
              UNCHANGED <<static, main, n, acc, next, results>>
       PROVE  Goal
  <2>1. main # "done"
    BY <1>1, <1>13 DEF PoolOK, BusyAts
  <2>2. work' = [work EXCEPT ![g].at = a] /\ UNCHANGED <<mode, procs, main, n, acc, next, results>>
    BY <1>13 DEF Goto, static
  <2>3. work[g].at \in BusyAts <=> a \in BusyAts
    BY <1>13
  <2>4. PoolOK'
    BY <1>1, <2>1, <2>2, <2>3, PoolMoves
  <2>5. StatsOK' /\ stats' \in [Counters -> Nat]
    BY <1>1, <1>13, <2>2, StatsMove
  <2> QED BY <2>2, <2>4, <2>5
\* A worker answers and counts cs.
<1>14. ASSUME NEW g \in DOMAIN work, NEW cs, stats' = Counts(stats, cs), Deliver(g),
              Fits(work[g].at, "recv", cs), work[g].at \in BusyAts, UNCHANGED <<static, main, n, acc, next>>
       PROVE  Goal
  <2>1. UNCHANGED <<mode, procs, main, n, acc, next>>
    BY <1>14 DEF static
  <2>2. PoolOK'
    BY <1>1, <1>14, <2>1, PoolDelivers
  <2>3. work' = [work EXCEPT ![g].at = "recv"] /\ "recv" \in AnnAts
    BY <1>6, <1>14 DEF Deliver, Goto
  <2>4. StatsOK' /\ stats' \in [Counters -> Nat]
    BY <1>1, <1>14, <2>3, StatsMove
  <2> QED BY <2>1, <2>2, <2>4
<1>15. \A cs : Count(cs) => stats' = Counts(stats, cs)
  BY DEF Count, Counts
<1>16. ASSUME NEW g \in DOMAIN work, NEW a \in BusyAts, NEW b \in BusyAts, NEW cs, Fits(a, b, cs),
              CountAndGo(g, a, cs, b)
       PROVE  Goal
  <2>1. /\ work[g].at = a /\ stats' = Counts(stats, cs) /\ Goto(g, b)
        /\ UNCHANGED <<static, main, n, acc, next, results>>
    BY <1>15, <1>16 DEF CountAndGo
  <2>2. b \in AnnAts
    BY <1>6
  <2> QED BY <1>13, <1>16, <2>1, <2>2
<1>17. ASSUME NEW g \in DOMAIN work,
              \/ SearchCounted(g) \/ SearchANN(g) \/ ANNAnswers(g) \/ SampleHit(g) \/ Fallback(g) \/ CountExact(g)
       PROVE  Goal
  <2>1. /\ Fits("search", "ann", {"requests"}) /\ Fits("ann", "asked", {"annSearches"})
        /\ Fits("asked", "fallback", {"errors"}) /\ Fits("asked", "fallback", {})
        /\ Fits("asked", "hit", {"hits"}) /\ Fits("hit", "sample", {})
        /\ Fits("fallback", "count", {"fallbacks"}) /\ Fits("count", "exact", {"exact"})
    BY DEF Fits
  <2>2. {"search", "ann", "asked", "hit", "sample", "fallback", "count", "exact"} = BusyAts
    BY DEF BusyAts
  <2> HIDE DEF Goal
  <2>3. CASE SearchCounted(g)
    BY <1>16, <2>1, <2>2, <2>3 DEF SearchCounted
  <2>4. CASE SearchANN(g)
    BY <1>16, <2>1, <2>2, <2>4 DEF SearchANN
  <2>5. CASE ANNAnswers(g)
    BY <1>16, <2>1, <2>2, <2>5 DEF ANNAnswers
  <2>6. CASE SampleHit(g)
    BY <1>16, <2>1, <2>2, <2>6 DEF SampleHit
  <2>7. CASE Fallback(g)
    BY <1>16, <2>1, <2>2, <2>7 DEF Fallback
  <2>8. CASE CountExact(g)
    BY <1>16, <2>1, <2>2, <2>8 DEF CountExact
  <2> QED BY <1>17, <2>3, <2>4, <2>5, <2>6, <2>7, <2>8
<1>18. ASSUME NEW g \in DOMAIN work, AnswerHit(g) \/ SearchExact(g) PROVE Goal
  <2>1. work[g].at \in {"hit", "exact", "sample"} /\ Deliver(g) /\ UNCHANGED <<static, main, n, acc, next>>
    BY <1>18 DEF AnswerHit, SearchExact
  <2>2. PICK cs : cs = IF work[g].at = "sample" THEN {"samples"} ELSE {}
    OBVIOUS
  <2>3. work[g].at \in BusyAts /\ Fits(work[g].at, "recv", cs)
    BY <2>1, <2>2 DEF BusyAts, Fits
  <2>4. stats' = Counts(stats, cs)
    <3>1. CASE AnswerHit(g)
      BY <1>5, <2>2, <3>1 DEF AnswerHit
    <3>2. CASE SearchExact(g)
      BY <1>15, <2>2, <3>2 DEF SearchExact
    <3> QED BY <1>18, <3>1, <3>2
  <2> QED BY <1>14, <2>1, <2>3, <2>4
<1>19. ASSUME NEW g \in DOMAIN work, Panic(g) PROVE Goal
  <2>1. /\ work[g].at \in {"exact", "sample"} /\ mode' = "ann" /\ procs' = procs
        /\ n' = 0 /\ acc' = <<>> /\ next' = 0 /\ work' = <<>> /\ results' = <<>>
        /\ \/ main' = "dead" /\ stats' = [c \in Counters |-> 0]
           \/ Len(work) = 1 /\ main' = "idle" /\ stats' = stats
    BY <1>19 DEF Panic, EndCall, static
  <2>2. PoolOK'
    BY <2>1 DEF PoolOK, NoBatch
  <2>3. PICK w : w = work'
    OBVIOUS
  <2>4. DOMAIN w = {}
    BY <2>1, <2>3
  <2>5. CASE stats' = [c \in Counters |-> 0]
    <3>1. \A A : CountAt(w, A) = 0
      BY <2>4, CountNone
    <3>2. PICK s : s = stats'
      OBVIOUS
    <3>3. s \in [Counters -> Nat] /\ \A c \in Counters : s[c] = 0
      BY <2>5, <3>2
    <3>4. Balanced(s, w)
      BY <3>1, <3>3 DEF Balanced, Counters
    <3> QED BY <2>1, <2>2, <2>3, <3>2, <3>3, <3>4 DEF StatsOK
  <2>6. CASE Len(work) = 1 /\ stats' = stats
    <3>1. Len(work) = N
      <4>1. work = [f \in 1 .. N |-> work[f]]
        BY <1>2
      <4> QED BY <1>2, <4>1
    <3>2. N = 1 /\ g = 1
      BY <1>2, <2>6, <3>1
    <3>3. \A f \in DOMAIN work : work[f].at \in {"exact", "sample"}
      BY <1>2, <2>1, <3>2
    <3>4. CountAt(work, {"hit", "sample"}) \in Nat
      BY <1>2, CountIsNat
    <3>5. Quiet(w)
      BY <2>4 DEF Quiet
    <3>6. Balanced(stats, w)
      BY <1>1, <3>3, <3>4, <3>5, BalancedEnds DEF StatsOK
    <3> QED BY <1>1, <2>1, <2>2, <2>3, <2>6, <3>6 DEF StatsOK
  <2> QED BY <2>1, <2>5, <2>6
<1>20. \A size : ~ StartExact(size)
  BY DEF StartExact
<1>21. ~ CollectExact
  BY DEF CollectExact
<1>22. \A g \in DOMAIN work : ~ ScanDone(g) /\ \A x \in Stored : ~ Visit(g, x)
  BY <1>3 DEF ScanDone, Visit
<1>23. CASE Calls
  BY <1>7, <1>20, <1>23 DEF Calls
<1>24. CASE Main
  BY <1>8, <1>9, <1>10, <1>11, <1>21, <1>24 DEF Main
<1>25. CASE \E g \in DOMAIN work : Goroutine(g)
  BY <1>12, <1>17, <1>18, <1>19, <1>22, <1>25 DEF Goroutine
<1> HIDE DEF Goal
<1> QED BY <1>23, <1>24, <1>25 DEF BatchNext

\* The steps of a batch in exact mode, which counts nothing.
LEMMA ExactSteps ==
  ASSUME BatchInv, mode = "exact", BatchNext PROVE BatchInv'
<1>1. ScansOK /\ procs \in GoMaxProcs /\ stats \in [Counters -> Nat] /\ StatsOK
  BY DEF BatchInv, CallOK
<1>2. PICK N \in Nat : DOMAIN work = 1 .. N /\ work \in [1 .. N -> ChunkScan]
  BY <1>1, ScanPlaces
<1>3. \A g \in DOMAIN work : work[g].at \in {"scan", "exit"}
  BY <1>2 DEF ChunkScan
<1>4. SUFFICES mode' = "exact" /\ procs' = procs /\ stats' = stats /\ ScansOK'
  <2>1. ASSUME mode' = "exact", procs' = procs, stats' = stats, ScansOK' PROVE StatsOK'
    <3>1. PICK w : w = work'
      OBVIOUS
    <3>2. \A g \in DOMAIN w : w[g].at \in {"scan", "exit"}
      <4>1. CASE main' = "idle"
        BY <2>1, <3>1, <4>1 DEF ScansOK, NoBatch
      <4>2. CASE main' # "idle"
        <5>1. PICK chunks : chunks = ChunkCount(n)'
          OBVIOUS
        <5>2. w \in [1 .. chunks -> ChunkScan]
          BY <2>1, <3>1, <4>2, <5>1 DEF ScansOK
        <5> QED BY <5>2 DEF ChunkScan
      <4> QED BY <4>1, <4>2
    <3>3. Quiet(w) /\ Quiet(work)
      BY <1>3, <3>2 DEF Quiet
    <3>4. Balanced(stats, w)
      BY <1>1, <3>3, BalancedQuiet DEF StatsOK
    <3> QED BY <2>1, <3>1, <3>4 DEF StatsOK
  <2> QED BY <1>1, <2>1 DEF BatchInv, CallOK
<1> DEFINE Goal == mode' = "exact" /\ procs' = procs /\ stats' = stats /\ ScansOK'
<1>5. ASSUME NEW size \in 1 .. Len(Queries), StartExact(size) PROVE Goal
  <2>1. ScansOK'
    BY <1>1, <1>5, ScansStart
  <2> QED BY <1>5, <2>1 DEF StartExact, static
<1>6. ASSUME NEW g \in DOMAIN work, NEW x \in Stored, Visit(g, x) PROVE Goal
  <2>1. ScansOK'
    BY <1>1, <1>6, ScansVisit
  <2> QED BY <1>6, <2>1 DEF Visit, static
<1>7. ASSUME NEW g \in DOMAIN work, ScanDone(g) PROVE Goal
  <2>1. ScansOK'
    BY <1>1, <1>7, ScansEnd
  <2> QED BY <1>7, <2>1 DEF ScanDone, static
<1>8. ASSUME CollectExact PROVE Goal
  <2>1. ScansOK'
    BY <1>1, <1>8, ScansCollect
  <2> QED BY <1>8, <2>1 DEF CollectExact, static
<1>9. ASSUME BatchReturn PROVE Goal
  <2>1. /\ mode' = "exact" /\ procs' = procs /\ stats' = stats /\ main' = "idle"
        /\ n' = 0 /\ acc' = <<>> /\ next' = 0 /\ work' = <<>> /\ results' = <<>>
    BY <1>9 DEF BatchReturn, EndCall, static
  <2> QED BY <2>1 DEF ScansOK, NoBatch
<1>10. \A size : ~ StartANN(size)
  BY DEF StartANN
<1>11. /\ ~ CloseJobs /\ ~ CollectANN
       /\ \A g \in DOMAIN work : ~ SendJob(g) /\ ~ Leave(g)
  BY <1>1 DEF ScansOK, CloseJobs, CollectANN, SendJob, Leave
<1>12. \A g \in DOMAIN work :
         /\ ~ SearchCounted(g) /\ ~ SearchANN(g) /\ ~ ANNAnswers(g) /\ ~ SampleHit(g) /\ ~ AnswerHit(g)
         /\ ~ Fallback(g) /\ ~ CountExact(g) /\ ~ SearchExact(g) /\ ~ Panic(g)
  BY <1>3 DEF SearchCounted, SearchANN, ANNAnswers, SampleHit, AnswerHit, Fallback, CountExact,
              CountAndGo, SearchExact, Panic
<1>13. ASSUME Calls PROVE Goal
  BY <1>5, <1>10, <1>13 DEF Calls
<1>14. ASSUME Main PROVE Goal
  BY <1>8, <1>9, <1>11, <1>14 DEF Main
<1>15. ASSUME \E g \in DOMAIN work : Goroutine(g) PROVE Goal
  BY <1>6, <1>7, <1>11, <1>12, <1>15 DEF Goroutine
<1> HIDE DEF Goal
<1>16. Goal
  BY <1>13, <1>14, <1>15 DEF BatchNext
<1> QED BY <1>16 DEF Goal

LEMMA BatchInvNext == BatchInv /\ [BatchNext]_batchVars => BatchInv'
<1> SUFFICES ASSUME BatchInv, [BatchNext]_batchVars PROVE BatchInv'
  OBVIOUS
<1>1. CASE UNCHANGED batchVars
  <2>1. /\ mode' = mode /\ procs' = procs /\ main' = main /\ n' = n /\ acc' = acc /\ next' = next
        /\ work' = work /\ results' = results /\ stats' = stats
    BY <1>1 DEF batchVars
  <2>2. StatsOK'
    BY <2>1 DEF BatchInv, StatsOK
  <2>3. PoolOK => PoolOK'
    BY <2>1 DEF PoolOK, NoBatch
  <2>4. ScansOK => ScansOK'
    <3>1. ChunkSize(n)' = ChunkSize(n)
      BY <2>1 DEF ChunkSize, Workers
    <3>2. ChunkCount(n)' = ChunkCount(n)
      BY <2>1, <3>1 DEF ChunkCount
    <3> QED BY <2>1, <3>1, <3>2 DEF ScansOK, NoBatch
  <2> QED BY <2>1, <2>2, <2>3, <2>4 DEF BatchInv, CallOK
<1>2. CASE BatchNext
  <2>1. mode \in {"ann", "exact"}
    BY DEF BatchInv, CallOK
  <2> QED BY <1>2, <2>1, AnnSteps, ExactSteps
<1> QED BY <1>1, <1>2

\* What the calls keep, for every batch, pool and cut into chunks: in ANN mode a
\* job that was sent is answered or with one worker, in exact mode each query has
\* the k nearest of the vectors that its scan met, and the counters of Search
\* differ by the searches in progress.
THEOREM BatchInvHolds == BatchSpec => []BatchInv
<1> QED BY BatchInvInit, BatchInvNext, PTL DEF BatchSpec

----------------------------------------------------------------------------
(* What it shows.                                                          *)

LEMMA MaxIs ==
  ASSUME NEW S, IsFiniteSet(S), S \subseteq Nat, NEW x \in S
  PROVE  Max(S) \in Nat /\ x <= Max(S)
<1>1. PICK m \in Nat : ExistsBijection(1 .. m, S)
  BY FS_NatBijection
<1>2. PICK f \in Bijection(1 .. m, S) : TRUE
  BY <1>1 DEF ExistsBijection
<1>3. f \in [1 .. m -> S] /\ \A y \in S : \E i \in 1 .. m : f[i] = y
  BY <1>2 DEF Bijection, Injection, Surjection
<1> DEFINE G == {i \in 0 .. m : i = 0 \/ \E y \in S : \A j \in 1 .. i : f[j] <= y}
<1>4. 0 \in G
  BY <1>1
<1>5. ASSUME NEW i \in 1 .. m, i - 1 \in G PROVE i \in G
  <2>1. f[i] \in S /\ f[i] \in Nat
    BY <1>3
  <2>2. CASE i = 1
    <3>1. \A j \in 1 .. i : j = i
      BY <2>2
    <3>2. f[i] <= f[i]
      BY <2>1
    <3>3. \A j \in 1 .. i : f[j] <= f[i]
      BY <3>1, <3>2
    <3> QED BY <2>1, <3>3
  <2>3. CASE i # 1
    <3>1. PICK y \in S : \A j \in 1 .. i - 1 : f[j] <= y
      BY <1>5, <2>3
    <3>2. y \in Nat /\ \A j \in 1 .. i - 1 : f[j] \in Nat
      <4>1. \A j \in 1 .. i - 1 : j \in 1 .. m
        BY <1>1
      <4>2. \A j \in 1 .. m : f[j] \in S
        BY <1>3
      <4> QED BY <4>1, <4>2
    <3>3. CASE y <= f[i]
      <4>1. \A j \in 1 .. i : f[j] <= f[i]
        BY <2>1, <3>1, <3>2, <3>3
      <4> QED BY <2>1, <4>1
    <3>4. CASE ~ (y <= f[i])
      <4>1. \A j \in 1 .. i : f[j] <= y
        BY <2>1, <3>1, <3>2, <3>4
      <4> QED BY <4>1
    <3> QED BY <3>3, <3>4
  <2> QED BY <2>2, <2>3
<1>6. m \in G
  <2> HIDE DEF G
  <2>1. \A i \in 0 .. m : i \in G
    BY <1>4, <1>5, Rounds
  <2> QED BY <2>1
<1>7. m # 0
  BY <1>3
<1>8. PICK y \in S : \A j \in 1 .. m : f[j] <= y
  BY <1>6, <1>7
<1>9. \A z \in S : y >= z
  <2> SUFFICES ASSUME NEW z \in S PROVE y >= z
    OBVIOUS
  <2>1. PICK j \in 1 .. m : f[j] = z
    BY <1>3
  <2> QED BY <1>8, <2>1
<1>10. Max(S) \in S /\ \A z \in S : Max(S) >= z
  BY <1>9 DEF Max
<1> QED BY <1>10

\* The slice acc of prepared queries, each with at most its k results.
LEMMA AccIs ==
  ASSUME ScansOK, procs \in GoMaxProcs
  PROVE  Len(acc) \in {0, n} /\ \A i \in DOMAIN acc : Len(acc[i]) <= Queries[i].k
<1>1. CASE main = "idle"
  BY <1>1 DEF ScansOK, NoBatch
<1>2. CASE main # "idle"
  <2>1. PICK len, C : len = ChunkSize(n) /\ C = ChunkCount(n)
    OBVIOUS
  <2>2. /\ n \in 1 .. Len(Queries) /\ work \in [1 .. C -> ChunkScan] /\ DOMAIN acc = 1 .. n
        /\ \A f \in 1 .. C :
              /\ work[f].lo = (f - 1) * len /\ work[f].hi = Min({f * len, n})
              /\ \A i \in work[f].lo + 1 .. work[f].hi :
                   Kept(i, acc[i], Same(i) \ work[f].todo)
    BY <1>2, <2>1 DEF ScansOK
  <2>3. Cut(n, len, C) /\ n \in Nat
    BY <2>1, <2>2, ChunksCut, QueriesAre DEF ChunkCount
  <2>4. ASSUME NEW i \in 1 .. n PROVE Len(acc[i]) <= Queries[i].k
    <3>1. PICK c \in 1 .. C : (c - 1) * len < i /\ i <= Min({c * len, n})
      BY <2>3, ChunksCover
    <3>2. (c - 1) * len \in Nat /\ Min({c * len, n}) \in Nat
      BY <2>3, ChunkBounds
    <3>3. i \in work[c].lo + 1 .. work[c].hi
      BY <2>2, <2>3, <3>1, <3>2
    <3>4. Kept(i, acc[i], Same(i) \ work[c].todo)
      BY <2>2, <3>3
    <3>5. Len(Spoiled) = 1 /\ Queries[i].k \in Nat \ {0}
      BY <2>2, QueriesAre DEF Spoiled
    <3>6. CASE acc[i] = Spoiled
      <4>1. Len(acc[i]) = Len(Spoiled)
        BY <3>6
      <4>2. PICK k : k = Queries[i].k
        OBVIOUS
      <4>3. k \in Nat /\ k # 0 /\ Len(acc[i]) = 1
        BY <3>5, <4>1, <4>2
      <4>4. Len(acc[i]) <= k
        BY <4>3
      <4> QED BY <4>2, <4>4
    <3>7. CASE KBest(Same(i), Dist(i), acc[i], Queries[i].k, Same(i) \ work[c].todo)
      BY <3>7 DEF KBest
    <3> QED BY <3>4, <3>6, <3>7 DEF Kept
  <2>5. Len(acc) = n
    BY <2>2, <2>3
  <2> QED BY <2>2, <2>4, <2>5
<1> QED BY <1>1, <1>2

LEMMA BatchTypes == BatchInv => BatchTypeOK
<1> SUFFICES ASSUME BatchInv PROVE BatchTypeOK
  OBVIOUS
<1>1. mode \in {"ann", "exact"} /\ procs \in GoMaxProcs
  BY DEF BatchInv, CallOK
<1>2. Max(GoMaxProcs) \in Nat /\ procs <= Max(GoMaxProcs) /\ procs \in Nat
  <2>1. GoMaxProcs \subseteq Nat /\ IsFiniteSet(GoMaxProcs)
    BY BatchAssumption
  <2> QED BY <1>1, <2>1, MaxIs
<1> DEFINE Ats == {"scan", "recv", "search", "ann", "asked", "hit", "sample",
                   "fallback", "count", "exact", "exit"}
<1>3. ASSUME NEW N \in Nat, N <= procs, DOMAIN work = 1 .. N, NEW R, work \in [1 .. N -> R]
      PROVE  Len(work) <= Max(GoMaxProcs)
  <2>1. work = [g \in 1 .. N |-> work[g]]
    BY <1>3
  <2>2. Len(work) = N
    BY <1>3, <2>1
  <2> QED BY <1>2, <1>3, <2>2
<1>4. CASE mode = "ann"
  <2>1. PoolOK
    BY <1>4 DEF BatchInv, CallOK
  <2>2. PICK N \in Nat : N <= procs /\ DOMAIN work = 1 .. N /\ work \in [1 .. N -> PoolWorker]
    BY <1>1, <2>1, PoolPlaces
  <2>3. \A g \in DOMAIN work : work[g].at \in Ats
    BY <2>2 DEF PoolWorker, AnnAts, BusyAts
  <2>4. acc = <<>> /\ n \in 0 .. Len(Queries) /\ next \in 0 .. n + 1
    BY <2>1, QueriesAre DEF PoolOK, NoBatch
  <2>5. Len(acc) = 0 /\ DOMAIN acc = {}
    BY <2>4
  <2>6. Len(work) <= Max(GoMaxProcs)
    BY <1>3, <2>2
  <2>7. main \in {"idle", "feed", "closed", "wait", "done", "dead"}
    BY <2>1 DEF PoolOK
  <2> QED BY <2>3, <2>4, <2>5, <2>6, <2>7 DEF BatchTypeOK
<1>5. CASE mode = "exact"
  <2>1. ScansOK
    BY <1>5 DEF BatchInv, CallOK
  <2>2. PICK N \in Nat : N <= procs /\ DOMAIN work = 1 .. N /\ work \in [1 .. N -> ChunkScan]
    BY <1>1, <2>1, ScanPlaces
  <2>3. \A g \in DOMAIN work : work[g].at \in Ats
    BY <2>2 DEF ChunkScan
  <2>4. n \in 0 .. Len(Queries) /\ next \in 0 .. n + 1
    BY <2>1, QueriesAre DEF ScansOK, NoBatch
  <2>5. Len(acc) \in {0, n} /\ \A i \in DOMAIN acc : Len(acc[i]) <= Queries[i].k
    BY <1>1, <2>1, AccIs
  <2>6. Len(work) <= Max(GoMaxProcs)
    BY <1>3, <2>2
  <2>7. main \in {"idle", "feed", "closed", "wait", "done", "dead"}
    BY <2>1 DEF ScansOK
  <2> QED BY <2>3, <2>4, <2>5, <2>6, <2>7 DEF BatchTypeOK
<1> QED BY <1>1, <1>4, <1>5

\* searchBatchANN puts the answer of each query in the query's place, whatever
\* the number of queries and workers, whichever worker took it and in whichever
\* order they finished; and the goroutines are never more than GOMAXPROCS.
THEOREM AnswersInPlace == BatchSpec => []BatchAnswersInPlace
<1>1. BatchInv => BatchAnswersInPlace
  <2> SUFFICES ASSUME BatchInv PROVE BatchAnswersInPlace
    OBVIOUS
  <2>1. BatchTypeOK
    BY BatchTypes
  <2>2. ASSUME mode = "ann", main = "done" PROVE results = SubSeq(Queries, 1, n)
    BY <2>2, PoolAnswers DEF BatchInv, CallOK
  <2> QED BY <2>1, <2>2 DEF BatchAnswersInPlace
<1> QED BY <1>1, BatchInvHolds, PTL

\* searchBatchExactParallel answers every query with its k nearest vectors,
\* nearest first and each once, if its distances are numbers: for every number
\* of queries, width of a block, number of processors and set of vectors,
\* whatever the other queries of its block are, in whichever order the goroutines
\* meet the vectors.
THEOREM AnswersExact == BatchSpec => []BatchAnswersExact
<1>1. BatchInv => BatchAnswersExact
  <2> SUFFICES ASSUME BatchInv, mode = "exact", main = "done"
               PROVE  Len(results) = n /\ \A i \in 1 .. n : Numbers(i) => IsAnswer(i, results[i])
    BY DEF BatchAnswersExact, IsAnswer
  <2> QED BY ScansAnswer DEF BatchInv, CallOK
<1> QED BY <1>1, BatchInvHolds, PTL

\* The atomic counters of Search balance at every moment, with every number of
\* workers in the middle of a search: requests are hits, exact searches or in
\* progress, ANN searches are hits, fallbacks or about to fall back.
THEOREM CountersBalance == BatchSpec => []StatsBalanced
<1>1. BatchInv => StatsBalanced
  <2> SUFFICES ASSUME BatchInv PROVE StatsBalanced
    OBVIOUS
  <2>1. PICK N \in Nat : DOMAIN work = 1 .. N
    <3>1. CASE mode = "ann"
      BY <3>1, PoolPlaces DEF BatchInv, CallOK
    <3>2. CASE mode = "exact"
      BY <3>2, ScanPlaces DEF BatchInv, CallOK
    <3> QED BY <3>1, <3>2 DEF BatchInv, CallOK
  <2>2. CountAt(work, {"hit", "sample"}) \in Nat
    BY <2>1, CountIsNat
  <2> QED BY <2>2, BalancedIs DEF BatchInv, CallOK
<1> QED BY <1>1, BatchInvHolds, PTL
=============================================================================
