---------------------- MODULE CachedVectorStoreProofs ----------------------
(***************************************************************************)
(* The LRU cache, for every set of ids, payloads, sizes and processes and  *)
(* for every limit: its bytes, its list and its limits agree whenever the  *)
(* mutex is free, what was just put survives, and a payload is stale only  *)
(* by the races that are known.                                            *)
(***************************************************************************)
EXTENDS CachedVectorStore, SequenceTheorems, FiniteSetTheorems, WellFoundedInduction, TLAPS

----------------------------------------------------------------------------
(* The sum of the sizes of a finite set of entries.                        *)

Bytes(e, S) == MapThenSumSet(LAMBDA id : Size[id][e[id]], S)

\* The recursion behind MapThenSumSet.
First(s) == CHOOSE x \in s : TRUE
SumStep(e, g, s) ==
  IF s = {} THEN 0 ELSE Size[First(s)][e[First(s)]] + g[s \ {First(s)}]
IsSum(e, g, S) == g = [s \in SUBSET S |-> SumStep(e, g, s)]
TheSum(e, S) == CHOOSE g : IsSum(e, g, S)

LEMMA BytesIs ==
  ASSUME NEW e, NEW S
  PROVE  Bytes(e, S) = TheSum(e, S)[S]
BY DEF Bytes, TheSum, IsSum, SumStep, First, MapThenSumSet, MapThenFoldSet

\* A set of finite sets that is not empty has a smallest member.
LEMMA SmallestSet ==
  ASSUME NEW S, IsFiniteSet(S), NEW Bad, Bad \subseteq SUBSET S, Bad # {}
  PROVE  \E T \in Bad : \A U \in SUBSET T : U # T => U \notin Bad
<1>1. Bad \subseteq FiniteSubsetsOf(S)
  <2>1. \A T \in Bad : T \in SUBSET S /\ IsFiniteSet(T)
    BY FS_Subset
  <2> QED BY <2>1 DEF FiniteSubsetsOf
<1>2. PICK T \in Bad : \A U \in Bad : ~ (<<U, T>> \in StrictSubsetOrdering(S))
  BY <1>1, FS_StrictSubsetOrderingWellFounded, WFMin
<1>3. \A U \in SUBSET T : U # T /\ U \in Bad => <<U, T>> \in StrictSubsetOrdering(S)
  BY <1>2 DEF StrictSubsetOrdering
<1>4. \A U \in SUBSET T : U # T => U \notin Bad
  BY <1>2, <1>3, Zenon
<1> QED BY <1>4

\* The recursion has one solution: two of them agree wherever both are defined.
LEMMA SumUnique ==
  ASSUME NEW e, NEW A, NEW B, IsFiniteSet(A), NEW g, NEW h, IsSum(e, g, A), IsSum(e, h, B)
  PROVE  \A s \in SUBSET A : s \in SUBSET B => g[s] = h[s]
<1> DEFINE Bad == {s \in SUBSET A : s \in SUBSET B /\ g[s] # h[s]}
<1> SUFFICES ASSUME Bad # {} PROVE FALSE
  OBVIOUS
<1>1. PICK T \in Bad : \A U \in SUBSET T : U # T => U \notin Bad
  <2>1. Bad \subseteq SUBSET A
    OBVIOUS
  <2> HIDE DEF Bad
  <2> QED BY <2>1, SmallestSet
<1>2. g[T] = SumStep(e, g, T) /\ h[T] = SumStep(e, h, T)
  BY DEF IsSum
<1>3. T # {} => First(T) \in T
  BY DEF First
<1>4. T # {} => g[T \ {First(T)}] = h[T \ {First(T)}]
  BY <1>1, <1>3
<1> QED BY <1>1, <1>2, <1>4 DEF SumStep

\* The recursion has a solution: otherwise take a smallest set without one; its
\* proper subsets have solutions, which agree, and together make one.
LEMMA SumExists ==
  ASSUME NEW e, NEW S, IsFiniteSet(S)
  PROVE  IsSum(e, TheSum(e, S), S)
<1> DEFINE Bad == {T \in SUBSET S : ~ \E g : IsSum(e, g, T)}
<1> SUFFICES ASSUME Bad # {} PROVE FALSE
  BY DEF TheSum
<1>1. PICK T \in Bad : \A U \in SUBSET T : U # T => U \notin Bad
  <2>1. Bad \subseteq SUBSET S
    OBVIOUS
  <2> HIDE DEF Bad
  <2> QED BY <2>1, SmallestSet
<1>2. \A U \in SUBSET T : U # T => IsSum(e, TheSum(e, U), U)
  BY <1>1 DEF TheSum
<1>3. \A U \in SUBSET S : IsFiniteSet(U)
  BY FS_Subset
<1> DEFINE part == [s \in SUBSET T |-> TheSum(e, s)[s]]
           g == [s \in SUBSET T |-> SumStep(e, part, s)]
<1>4. ASSUME NEW s \in SUBSET T, s # T PROVE part[s] = SumStep(e, part, s)
  <2>1. IsSum(e, TheSum(e, s), s)
    BY <1>2, <1>4
  <2>2. TheSum(e, s)[s] = SumStep(e, TheSum(e, s), s)
    BY <2>1 DEF IsSum
  <2>3. CASE s = {}
    BY <2>2, <2>3 DEF SumStep
  <2>4. CASE s # {}
    <3>1. First(s) \in s
      BY <2>4 DEF First
    <3> DEFINE u == s \ {First(s)}
    <3>2. u \in SUBSET T /\ u # T /\ u \in SUBSET s
      BY <3>1
    <3>3. IsSum(e, TheSum(e, u), u)
      BY <1>2, <3>2
    <3>4. IsFiniteSet(s)
      BY <1>3
    <3>5. TheSum(e, s)[u] = TheSum(e, u)[u]
      <4> HIDE DEF u
      <4> QED BY <2>1, <3>2, <3>3, <3>4, SumUnique
    <3>6. part[u] = TheSum(e, u)[u]
      BY <3>2
    <3> QED BY <2>2, <2>4, <3>5, <3>6 DEF SumStep
  <2> QED BY <2>3, <2>4
<1>5. \A s \in SUBSET T : s # T => g[s] = part[s]
  BY <1>4
<1>6. ASSUME NEW s \in SUBSET T PROVE SumStep(e, g, s) = SumStep(e, part, s)
  <2>1. CASE s = {}
    BY <2>1 DEF SumStep
  <2>2. CASE s # {}
    <3>1. First(s) \in s
      BY <2>2 DEF First
    <3>2. s \ {First(s)} \in SUBSET T /\ s \ {First(s)} # T
      BY <3>1
    <3> HIDE DEF g, part
    <3> QED BY <1>5, <2>2, <3>2 DEF SumStep
  <2> QED BY <2>1, <2>2
<1>7. IsSum(e, g, T)
  BY <1>6 DEF IsSum
<1> HIDE DEF g
<1> QED BY <1>1, <1>7

LEMMA SumOfSubset ==
  ASSUME NEW e, NEW S, IsFiniteSet(S), NEW s \in SUBSET S
  PROVE  TheSum(e, S)[s] = Bytes(e, s)
<1>1. IsFiniteSet(s)
  BY FS_Subset
<1>2. IsSum(e, TheSum(e, S), S) /\ IsSum(e, TheSum(e, s), s)
  BY <1>1, SumExists
<1>3. TheSum(e, S)[s] = TheSum(e, s)[s]
  BY <1>2, SumUnique
<1> QED BY <1>3, BytesIs

\* The sum is 0 of no entry; otherwise it can be taken apart at the first.
LEMMA BytesStep ==
  ASSUME NEW e, NEW S, IsFiniteSet(S)
  PROVE  /\ S = {} => Bytes(e, S) = 0
         /\ S # {} => /\ First(S) \in S
                      /\ Bytes(e, S) = Size[First(S)][e[First(S)]] + Bytes(e, S \ {First(S)})
<1>1. Bytes(e, S) = SumStep(e, TheSum(e, S), S)
  <2>1. PICK g : g = TheSum(e, S)
    OBVIOUS
  <2>2. IsSum(e, g, S)
    BY <2>1, SumExists
  <2>3. g[S] = SumStep(e, g, S)
    BY <2>2 DEF IsSum
  <2> QED BY <2>1, <2>3, BytesIs
<1>2. S # {} => First(S) \in S
  BY DEF First
<1>3. TheSum(e, S)[S \ {First(S)}] = Bytes(e, S \ {First(S)})
  BY SumOfSubset
<1> QED BY <1>1, <1>2, <1>3 DEF SumStep

\* What can be summed: finitely many entries with payloads.
Summable(e, S) == IsFiniteSet(S) /\ S \subseteq ID /\ \A x \in S : e[x] \in Val

\* It can be taken apart at any entry, and depends on these entries only.
LEMMA BytesAre ==
  ASSUME NEW e, NEW S, Summable(e, S)
  PROVE  /\ Bytes(e, S) \in Nat
         /\ \A x \in S : Bytes(e, S) = Size[x][e[x]] + Bytes(e, S \ {x})
         /\ \A d : (\A x \in S : d[x] = e[x]) => Bytes(d, S) = Bytes(e, S)
<1> DEFINE Good(T) == /\ Bytes(e, T) \in Nat
                      /\ \A x \in T : Bytes(e, T) = Size[x][e[x]] + Bytes(e, T \ {x})
                      /\ \A d : (\A x \in T : d[x] = e[x]) => Bytes(d, T) = Bytes(e, T)
           Bad == {T \in SUBSET S : ~Good(T)}
<1> SUFFICES ASSUME Bad # {} PROVE FALSE
  OBVIOUS
<1>1. PICK T \in Bad : \A U \in SUBSET T : U # T => U \notin Bad
  <2>1. Bad \subseteq SUBSET S
    OBVIOUS
  <2> HIDE DEF Bad
  <2> QED BY <2>1, SmallestSet DEF Summable
<1>2. \A U \in SUBSET T : IsFiniteSet(U)
  BY FS_Subset DEF Summable
<1>3. \A U \in SUBSET T : U # T => Good(U)
  BY <1>1
<1>4. \A x \in T : Size[x][e[x]] \in Nat
  BY CacheAssumption DEF Summable
<1>5. ~Good(T)
  BY <1>1
<1> HIDE DEF Bad
<1>6. CASE T = {}
  <2>1. \A d : Bytes(d, T) = 0
    BY <1>2, <1>6, BytesStep
  <2> QED BY <1>5, <1>6, <2>1
<1>7. CASE T # {}
  <2> DEFINE y == First(T)
             U == T \ {y}
  <2>1. y \in T /\ \A d : Bytes(d, T) = Size[y][d[y]] + Bytes(d, U)
    BY <1>2, <1>7, BytesStep
  <2>2. U \in SUBSET T /\ U # T
    BY <2>1
  <2>3. Good(U)
    BY <1>3, <2>2
  <2> HIDE DEF y, U
  <2>4. Bytes(e, T) \in Nat
    BY <1>4, <2>1, <2>3
  <2>5. ASSUME NEW d, \A x \in T : d[x] = e[x] PROVE Bytes(d, T) = Bytes(e, T)
    <3>1. Bytes(d, U) = Bytes(e, U)
      BY <2>2, <2>3, <2>5
    <3> QED BY <2>1, <2>5, <3>1
  <2>6. ASSUME NEW x \in T PROVE Bytes(e, T) = Size[x][e[x]] + Bytes(e, T \ {x})
    <3>1. CASE x = y
      BY <2>1, <3>1 DEF U
    <3>2. CASE x # y
      <4> DEFINE W == T \ {x}
                 X == T \ {x, y}
      <4>1. W \in SUBSET T /\ W # T /\ X \in SUBSET T /\ X # T
        OBVIOUS
      <4>2. y \in W /\ x \in U /\ W \ {y} = X /\ U \ {x} = X
        BY <2>1, <3>2 DEF U
      <4>3. Good(W) /\ Good(X)
        BY <1>3, <4>1
      <4> HIDE DEF W, X
      <4>4. Bytes(e, W) = Size[y][e[y]] + Bytes(e, X)
        BY <4>2, <4>3
      <4>5. Bytes(e, U) = Size[x][e[x]] + Bytes(e, X)
        BY <2>3, <4>2
      <4>6. Bytes(e, X) \in Nat /\ Size[x][e[x]] \in Nat /\ Size[y][e[y]] \in Nat
        BY <1>4, <2>1, <4>3
      <4>7. Bytes(e, T) = Size[x][e[x]] + Bytes(e, W)
        BY <2>1, <4>4, <4>5, <4>6
      <4> QED BY <4>7 DEF W
    <3> QED BY <3>1, <3>2
  <2> QED BY <1>5, <2>4, <2>5, <2>6
<1> QED BY <1>6, <1>7

----------------------------------------------------------------------------
(* The list: RemoveFirst of an id that occurs at most once.                *)

Once(s) == \A i, j \in DOMAIN s : s[i] = s[j] => i = j
Ids(s) == {s[i] : i \in DOMAIN s}

LEMMA WithoutIs ==
  ASSUME NEW s \in Seq(ID), NEW id, Once(s)
  PROVE  LET t == Without(s, id)
         IN  /\ t \in Seq(ID) /\ Once(t) /\ Ids(t) = Ids(s) \ {id}
             /\ s # <<>> /\ s[1] # id => t # <<>> /\ t[1] = s[1]
<1> DEFINE t == Without(s, id)
           I == {i \in 1 .. Len(s) : s[i] = id}
<1>1. Len(s) \in Nat /\ DOMAIN s = 1 .. Len(s) /\ \A i \in 1 .. Len(s) : s[i] \in ID
  OBVIOUS
<1>2. CASE I = {}
  <2>1. t = s
    BY <1>2 DEF Without, RemoveFirst
  <2> QED BY <1>1, <1>2, <2>1 DEF Ids
<1>3. CASE I # {}
  <2>1. PICK k \in 1 .. Len(s) : s[k] = id
    BY <1>3
  <2>2. I = {k}
    BY <1>1, <2>1 DEF Once
  <2>3. Min({k}) = k
    BY <2>1 DEF Min
  <2>4. t = LET i == IF I # {} THEN Min(I) ELSE 0
            IN  SubSeq(s, 1, i - 1) \o SubSeq(s, i + 1, Len(s))
    BY <2>1 DEF Without, RemoveFirst, RemoveAt, SelectInSeq
  <2>5. t = SubSeq(s, 1, k - 1) \o SubSeq(s, k + 1, Len(s))
    BY <1>3, <2>2, <2>3, <2>4, Zenon
  <2>6. /\ t \in Seq(ID) /\ Len(t) = Len(s) - 1
        /\ \A i \in 1 .. Len(t) : t[i] = IF i < k THEN s[i] ELSE s[i + 1]
    <3> DEFINE a == SubSeq(s, 1, k - 1)
               b == SubSeq(s, k + 1, Len(s))
    <3>1. a \in Seq(ID) /\ Len(a) = k - 1 /\ \A i \in 1 .. k - 1 : a[i] = s[i]
      BY <1>1, <2>1
    <3>2. /\ b \in Seq(ID) /\ Len(b) = Len(s) - k
          /\ \A i \in 1 .. Len(s) - k : b[i] = s[k + i]
      <4>1. \A i \in (k + 1) .. Len(s) : s[i] \in ID
        BY <1>1, <2>1
      <4>2. k + 1 \in Int /\ Len(s) \in Int
        BY <1>1, <2>1
      <4>3. /\ b \in Seq(ID)
            /\ Len(b) = IF k + 1 <= Len(s) THEN Len(s) - (k + 1) + 1 ELSE 0
            /\ \A i \in 1 .. Len(s) - (k + 1) + 1 : b[i] = s[(k + 1) + i - 1]
        BY <4>1, <4>2, SubSeqProperties
      <4> HIDE DEF b
      <4>4. Len(b) = Len(s) - k
        <5>1. k \in Nat /\ k <= Len(s) /\ Len(s) \in Nat
          BY <1>1, <2>1
        <5>2. CASE k = Len(s)
          BY <4>3, <5>1, <5>2
        <5>3. CASE k < Len(s)
          BY <4>3, <5>1, <5>3
        <5> QED BY <5>1, <5>2, <5>3
      <4>5. ASSUME NEW i \in 1 .. Len(s) - k PROVE b[i] = s[k + i]
        <5>1. i \in 1 .. Len(s) - (k + 1) + 1 /\ (k + 1) + i - 1 = k + i
          BY <1>1, <2>1
        <5> QED BY <4>3, <5>1
      <4> QED BY <4>3, <4>4, <4>5
    <3> HIDE DEF a, b
    <3>3. /\ a \o b \in Seq(ID) /\ Len(a \o b) = Len(s) - 1
          /\ \A i \in 1 .. Len(s) - 1 : (a \o b)[i] = IF i < k THEN s[i] ELSE s[i + 1]
      <4>1. /\ a \o b \in Seq(ID) /\ Len(a \o b) = Len(a) + Len(b)
            /\ \A i \in 1 .. Len(a) + Len(b) :
                 (a \o b)[i] = IF i <= Len(a) THEN a[i] ELSE b[i - Len(a)]
        BY <3>1, <3>2, ConcatProperties
      <4>2. Len(a) + Len(b) = Len(s) - 1
        BY <1>1, <2>1, <3>1, <3>2
      <4>3. ASSUME NEW i \in 1 .. Len(s) - 1
            PROVE  (a \o b)[i] = IF i < k THEN s[i] ELSE s[i + 1]
        <5>1. CASE i < k
          BY <1>1, <2>1, <3>1, <4>1, <4>2, <5>1
        <5>2. CASE i >= k
          <6>1. i - Len(a) \in 1 .. Len(s) - k /\ k + (i - Len(a)) = i + 1 /\ ~(i <= Len(a))
            BY <1>1, <2>1, <3>1, <5>2
          <6>2. b[i - Len(a)] = s[i + 1]
            BY <3>2, <6>1
          <6>3. i \in 1 .. Len(a) + Len(b)
            BY <4>2
          <6>4. (a \o b)[i] = b[i - Len(a)]
            BY <4>1, <6>1, <6>3
          <6> QED BY <2>1, <5>2, <6>2, <6>4
        <5>3. i < k \/ i >= k
          BY <2>1
        <5> QED BY <5>1, <5>2, <5>3
      <4> QED BY <4>1, <4>2, <4>3
    <3> HIDE DEF t
    <3> QED BY <2>5, <3>3 DEF a, b
  <2> HIDE DEF t
  <2>7. Once(t)
    <3> SUFFICES ASSUME NEW i \in 1 .. Len(t), NEW j \in 1 .. Len(t), t[i] = t[j] PROVE i = j
      BY <2>6 DEF Once
    <3> DEFINE at(l) == IF l < k THEN l ELSE l + 1
    <3>1. \A l \in 1 .. Len(t) : at(l) \in 1 .. Len(s) /\ t[l] = s[at(l)]
      BY <1>1, <2>1, <2>6
    <3>2. at(i) = at(j)
      BY <1>1, <3>1 DEF Once
    <3> QED BY <2>1, <2>6, <3>2
  <2>8. Ids(t) = Ids(s) \ {id}
    <3>1. ASSUME NEW i \in 1 .. Len(t) PROVE t[i] \in Ids(s) /\ t[i] # id
      <4>1. PICK l : l = IF i < k THEN i ELSE i + 1
        OBVIOUS
      <4>2. l \in 1 .. Len(s) /\ l # k /\ t[i] = s[l]
        BY <1>1, <2>1, <2>6, <4>1
      <4>3. s[l] # s[k]
        BY <1>1, <2>1, <4>2 DEF Once
      <4>4. s[l] \in Ids(s)
        BY <1>1, <4>2 DEF Ids
      <4> QED BY <2>1, <4>2, <4>3, <4>4
    <3>2. ASSUME NEW j \in 1 .. Len(s), s[j] # id PROVE s[j] \in Ids(t)
      <4>1. CASE j < k
        BY <1>1, <2>1, <2>6, <4>1 DEF Ids
      <4>2. CASE j > k
        <5>1. j - 1 \in 1 .. Len(t) /\ t[j - 1] = s[j]
          BY <1>1, <2>1, <2>6, <4>2
        <5> QED BY <2>6, <5>1 DEF Ids
      <4> QED BY <1>1, <2>1, <3>2, <4>1, <4>2
    <3>3. DOMAIN t = 1 .. Len(t)
      BY <2>6
    <3> QED BY <1>1, <3>1, <3>2, <3>3 DEF Ids
  <2>9. s[1] # id => t # <<>> /\ t[1] = s[1]
    BY <1>1, <2>1, <2>6
  <2> QED BY <2>6, <2>7, <2>8, <2>9 DEF t
<1> QED BY <1>2, <1>3

\* In front of the others.
LEMMA InFront ==
  ASSUME NEW s \in Seq(ID), NEW id \in ID, Once(s)
  PROVE  LET t == <<id>> \o Without(s, id)
         IN  t \in Seq(ID) /\ Once(t) /\ Ids(t) = Ids(s) \cup {id} /\ t # <<>> /\ t[1] = id
<1> DEFINE u == Without(s, id)
           t == <<id>> \o u
<1>1. u \in Seq(ID) /\ Once(u) /\ Ids(u) = Ids(s) \ {id}
  BY WithoutIs
<1> HIDE DEF u
<1>2. /\ t \in Seq(ID) /\ Len(t) = Len(u) + 1 /\ t[1] = id /\ Len(u) \in Nat
      /\ \A i \in 2 .. Len(t) : t[i] = u[i - 1]
  BY <1>1
<1>3. DOMAIN t = 1 .. Len(t) /\ DOMAIN u = 1 .. Len(u) /\ t # <<>>
  BY <1>1, <1>2
<1> HIDE DEF t
<1>4. \A i \in 1 .. Len(u) : u[i] # id
  BY <1>1, <1>3 DEF Ids
<1>5. Once(t)
  <2> SUFFICES ASSUME NEW i \in 1 .. Len(t), NEW j \in 1 .. Len(t), t[i] = t[j] PROVE i = j
    BY <1>3 DEF Once
  <2>1. \A l \in 1 .. Len(t) : l = 1 \/ (l - 1 \in 1 .. Len(u) /\ t[l] = u[l - 1])
    BY <1>2
  <2>2. CASE i = 1 \/ j = 1
    BY <1>2, <1>4, <2>1, <2>2
  <2>3. CASE i # 1 /\ j # 1
    <3>1. PICK a \in 1 .. Len(u) : a = i - 1 /\ t[i] = u[a]
      BY <2>1, <2>3
    <3>2. PICK b \in 1 .. Len(u) : b = j - 1 /\ t[j] = u[b]
      BY <2>1, <2>3
    <3>3. a = b
      BY <1>1, <1>3, <3>1, <3>2 DEF Once
    <3> QED BY <3>1, <3>2, <3>3
  <2> QED BY <2>2, <2>3
<1>6. Ids(t) = Ids(u) \cup {id}
  <2>1. ASSUME NEW i \in 1 .. Len(t) PROVE t[i] \in Ids(u) \cup {id}
    <3>1. CASE i = 1
      BY <1>2, <3>1
    <3>2. CASE i # 1
      <4>1. PICK j \in 1 .. Len(u) : t[i] = u[j]
        BY <1>2, <3>2
      <4> QED BY <1>3, <4>1 DEF Ids
    <3> QED BY <3>1, <3>2
  <2>2. ASSUME NEW j \in 1 .. Len(u) PROVE u[j] \in Ids(t)
    <3>1. j + 1 \in 1 .. Len(t) /\ t[j + 1] = u[j]
      BY <1>2
    <3> QED BY <1>3, <3>1 DEF Ids
  <2>3. id \in Ids(t)
    BY <1>2, <1>3 DEF Ids
  <2> QED BY <1>3, <2>1, <2>2, <2>3 DEF Ids
<1> QED BY <1>1, <1>2, <1>3, <1>5, <1>6 DEF t, u

\* A list without repetitions is as long as the set of its ids.
LEMMA LengthIs ==
  ASSUME NEW s \in Seq(ID), Once(s)
  PROVE  IsFiniteSet(Ids(s)) /\ Cardinality(Ids(s)) = Len(s)
<1>1. s \in Bijection(1 .. Len(s), Ids(s))
  BY DEF Bijection, Injection, Surjection, IsInjective, Once, Ids
<1>2. ExistsBijection(1 .. Len(s), Ids(s))
  BY <1>1 DEF ExistsBijection
<1>3. IsFiniteSet(1 .. Len(s)) /\ Cardinality(1 .. Len(s)) = Len(s)
  <2>1. PICK n \in Int : n = Len(s) /\ n >= 0
    OBVIOUS
  <2>2. IsFiniteSet(1 .. n) /\ Cardinality(1 .. n) = IF 1 > n THEN 0 ELSE n - 1 + 1
    BY ONLY n \in Int, FS_Interval
  <2>3. Cardinality(1 .. n) = n
    BY <2>1, <2>2
  <2> QED BY <2>1, <2>2, <2>3
<1> QED BY <1>2, <1>3, FS_Bijection

----------------------------------------------------------------------------
(* The inductive invariant.                                                *)

\* The list has every entry once, and the bytes are those of the entries.
ListOK == Once(order) /\ Ids(order) = Cached
BytesOK == currentBytes = Bytes(entries, Cached)

\* mu is held from putLocked to the end of its evictLocked, and only there may
\* a limit be exceeded.
HolderOK == \A p \in Proc : pc[p] \in {"put", "evict"} <=> mu = p
LimitsOK == (\A p \in Proc : pc[p] # "evict") => ~OverLimit

\* What a process has in hand at each place; only Writer has more than one.
TodoOK ==
  \A p \in Proc :
    /\ pc[p] = "idle" => todo[p] = <<>>
    /\ pc[p] \in {"read", "remove"} => Len(todo[p]) = 1
    /\ pc[p] \in {"lock", "put", "evict"} => todo[p] \in Seq(Vector) /\ todo[p] # <<>>
    /\ p # Writer => Len(todo[p]) <= 1 /\ pc[p] # "remove"

\* What was just put is in front of the list until it alone exceeds the limit.
NewestOK ==
  \A p \in Proc : pc[p] = "evict" =>
    \/ Size[todo[p][1].id][todo[p][1].val] > MaxBytes
    \/ /\ order # <<>> /\ order[1] = todo[p][1].id
       /\ entries[todo[p][1].id] = todo[p][1].val

\* The last of the payloads a process has in hand for an id.
LastInHand(p, id, i) ==
  /\ todo[p][i].id = id
  /\ \A j \in DOMAIN todo[p] : j > i => todo[p][j].id # id

\* Writer has still to put, or to remove, the payload of an id.
Awaited(id) ==
  \/ pc[Writer] \in {"lock", "put", "remove"} /\ Filling(Writer, id)
  \/ pc[Writer] = "evict" /\ \E i \in DOMAIN todo[Writer] : i > 1 /\ todo[Writer][i].id = id

\* For an id that is not excused whoever has a payload of it has that of the
\* backend, and so has the cache, or Writer is about to see to it.
FreshOK ==
  \A id \in ID \ excused :
    /\ \A p \in Proc : pc[p] \in {"lock", "put", "evict"} =>
         \A i \in DOMAIN todo[p] : LastInHand(p, id, i) => todo[p][i].val = backend[id]
    /\ entries[id] \in {None, backend[id]} \/ Awaited(id)

CacheInv ==
  /\ CacheTypeOK /\ ListOK /\ BytesOK /\ HolderOK /\ LimitsOK /\ TodoOK /\ NewestOK /\ FreshOK

----------------------------------------------------------------------------
(* What the entries, the list and the bytes become.                        *)

\* The entries with their list and their bytes.
StoreOK ==
  /\ entries \in [ID -> Val \cup {None}] /\ order \in Seq(ID) /\ currentBytes \in Nat
  /\ ListOK /\ BytesOK

LEMMA StoreIs ==
  ASSUME CacheInv
  PROVE  /\ StoreOK /\ Summable(entries, Cached)
         /\ Cardinality(Cached) = Len(order) /\ Cardinality(Cached) \in Nat
<1>1. StoreOK
  BY DEF CacheInv, CacheTypeOK, StoreOK
<1>2. IsFiniteSet(Cached) /\ Cardinality(Cached) = Len(order)
  BY <1>1, LengthIs DEF StoreOK, ListOK
<1> QED BY <1>1, <1>2 DEF StoreOK, Summable, Cached

\* removeElementLocked.
LEMMA RemoveElementIs ==
  ASSUME CacheInv, NEW id \in ID, entries[id] # None, RemoveElement(id)
  PROVE  /\ StoreOK' /\ currentBytes' <= currentBytes
         /\ Cached' = Cached \ {id} /\ Cardinality(Cached') <= Cardinality(Cached)
         /\ entries'[id] = None /\ \A x \in ID : x # id => entries'[x] = entries[x]
         /\ order # <<>> /\ order[1] # id => order' # <<>> /\ order'[1] = order[1]
<1>1. StoreOK /\ Summable(entries, Cached) /\ Cardinality(Cached) \in Nat
  BY StoreIs
<1>2. /\ entries' \in [ID -> Val \cup {None}] /\ entries'[id] = None
      /\ \A x \in ID : x # id => entries'[x] = entries[x]
  BY <1>1 DEF RemoveElement, StoreOK
<1>3. Cached' = Cached \ {id} /\ id \in Cached
  BY <1>2 DEF Cached
<1>4. /\ order' \in Seq(ID) /\ Once(order') /\ Ids(order') = Ids(order) \ {id}
      /\ order # <<>> /\ order[1] # id => order' # <<>> /\ order'[1] = order[1]
  BY <1>1, WithoutIs DEF RemoveElement, StoreOK, ListOK
<1>5. ListOK'
  BY <1>1, <1>3, <1>4 DEF ListOK, StoreOK
<1>6. Summable(entries, Cached \ {id}) /\ Cardinality(Cached \ {id}) <= Cardinality(Cached)
  <2>1. IsFiniteSet(Cached \ {id}) /\ Cardinality(Cached \ {id}) = Cardinality(Cached) - 1
    BY <1>1, <1>3, FS_RemoveElement DEF Summable
  <2> QED BY <1>1, <2>1 DEF Summable
<1>7. Bytes(entries, Cached) = Size[id][entries[id]] + Bytes(entries, Cached \ {id})
  BY <1>1, <1>3, BytesAre
<1>8. Bytes(entries, Cached \ {id}) \in Nat
  BY <1>6, BytesAre
<1>9. Bytes(entries', Cached \ {id}) = Bytes(entries, Cached \ {id})
  <2>1. \A x \in Cached \ {id} : entries'[x] = entries[x]
    BY <1>2 DEF Cached
  <2> QED BY <1>6, <2>1, BytesAre
<1>10. Size[id][entries[id]] \in Nat
  BY <1>1, <1>3, CacheAssumption DEF Summable
<1>11. currentBytes' = Bytes(entries, Cached \ {id})
  BY <1>1, <1>7, <1>8, <1>10 DEF RemoveElement, StoreOK, BytesOK
<1>12. BytesOK'
  BY <1>3, <1>9, <1>11 DEF BytesOK
<1>13. currentBytes' \in Nat /\ currentBytes' <= currentBytes
  BY <1>1, <1>7, <1>8, <1>10, <1>11 DEF StoreOK, BytesOK
<1> QED BY <1>2, <1>3, <1>4, <1>5, <1>6, <1>12, <1>13 DEF StoreOK

\* putLocked: the bytes of a payload that is replaced are taken off.
LEMMA PutIs ==
  ASSUME CacheInv, NEW id \in ID, NEW val \in Val,
         entries' = [entries EXCEPT ![id] = val],
         order' = <<id>> \o Without(order, id),
         currentBytes' = (currentBytes - IF entries[id] = None THEN 0 ELSE Size[id][entries[id]])
                         + Size[id][val]
  PROVE  StoreOK' /\ order' # <<>> /\ order'[1] = id /\ entries'[id] = val
<1>1. StoreOK /\ Summable(entries, Cached)
  BY StoreIs
<1>2. /\ entries' \in [ID -> Val \cup {None}] /\ entries'[id] = val
      /\ \A x \in ID : x # id => entries'[x] = entries[x]
  BY <1>1 DEF StoreOK
<1>3. Cached' = Cached \cup {id} /\ id \in Cached' /\ Cached' \ {id} = Cached \ {id}
  BY <1>2, CacheAssumption DEF Cached
<1>4. /\ order' \in Seq(ID) /\ Once(order') /\ Ids(order') = Ids(order) \cup {id}
      /\ order' # <<>> /\ order'[1] = id
  BY <1>1, InFront DEF StoreOK, ListOK
<1>5. ListOK'
  BY <1>1, <1>3, <1>4 DEF ListOK, StoreOK
<1> DEFINE others == Cached \ {id}
<1>6. Summable(entries, others)
  BY <1>1, FS_RemoveElement DEF Summable
<1>7. Summable(entries', Cached')
  <2>1. IsFiniteSet(Cached \cup {id})
    BY <1>1, FS_AddElement DEF Summable
  <2> QED BY <1>2, <1>3, <2>1 DEF Summable, Cached
<1>8. Bytes(entries, others) \in Nat
  BY <1>6, BytesAre
<1>9. Bytes(entries', others) = Bytes(entries, others)
  <2>1. \A x \in others : entries'[x] = entries[x]
    BY <1>2 DEF Cached
  <2> HIDE DEF others
  <2> QED BY <1>6, <2>1, BytesAre
<1>10. Bytes(entries', Cached') = Size[id][val] + Bytes(entries, others)
  <2>1. Bytes(entries', Cached') = Size[id][entries'[id]] + Bytes(entries', Cached' \ {id})
    <3>1. PICK d, C : d = entries' /\ C = Cached'
      OBVIOUS
    <3>2. Summable(d, C) /\ id \in C
      BY <1>3, <1>7, <3>1
    <3>3. Bytes(d, C) = Size[id][d[id]] + Bytes(d, C \ {id})
      BY <3>2, BytesAre
    <3> QED BY <3>1, <3>3
  <2> QED BY <1>2, <1>3, <1>9, <2>1
<1>11. Size[id][val] \in Nat
  BY CacheAssumption
<1>12. currentBytes' = Size[id][val] + Bytes(entries, others)
  <2>1. CASE entries[id] = None
    <3>1. others = Cached
      BY <2>1 DEF Cached
    <3>2. currentBytes = Bytes(entries, others)
      BY <1>1, <3>1 DEF StoreOK, BytesOK
    <3>3. currentBytes' = (currentBytes - 0) + Size[id][val]
      BY <2>1
    <3> HIDE DEF others
    <3> QED BY <1>8, <1>11, <3>2, <3>3
  <2>2. CASE entries[id] # None
    <3>1. id \in Cached
      BY <2>2 DEF Cached
    <3>2. Bytes(entries, Cached) = Size[id][entries[id]] + Bytes(entries, others)
      BY <1>1, <3>1, BytesAre
    <3>3. Size[id][entries[id]] \in Nat
      BY <1>1, <3>1, CacheAssumption DEF Summable
    <3>4. currentBytes = Size[id][entries[id]] + Bytes(entries, others)
      BY <1>1, <3>2 DEF StoreOK, BytesOK
    <3>5. currentBytes' = (currentBytes - Size[id][entries[id]]) + Size[id][val]
      BY <2>2
    <3>6. PICK a \in Nat, b \in Nat, c \in Nat :
            a = Size[id][entries[id]] /\ b = Bytes(entries, others) /\ c = Size[id][val]
      BY <1>8, <1>11, <3>3
    <3>7. currentBytes = a + b /\ currentBytes' = (currentBytes - a) + c
      BY <3>4, <3>5, <3>6
    <3>8. currentBytes' = c + b
      BY <3>7
    <3> QED BY <3>6, <3>8
  <2> QED BY <2>1, <2>2
<1>13. BytesOK' /\ currentBytes' \in Nat
  BY <1>8, <1>10, <1>11, <1>12 DEF BytesOK
<1> QED BY <1>2, <1>4, <1>5, <1>13 DEF StoreOK

----------------------------------------------------------------------------
(* Every step keeps the invariant.                                         *)

Items == [id : ID, val : Val \cup {None}]
InPut == {"lock", "put", "evict"}

\* The processes: where they are and what they have in hand.
ControlOK ==
  /\ mu \in Proc \cup {None} /\ pc \in [Proc -> PCs] /\ todo \in [Proc -> Seq(Items)]
  /\ HolderOK /\ TodoOK
WorldOK == backend \in [ID -> Val \cup {None}] /\ excused \subseteq ID

LEMMA InvParts ==
  CacheInv <=> StoreOK /\ ControlOK /\ WorldOK /\ LimitsOK /\ NewestOK /\ FreshOK
BY DEF CacheInv, CacheTypeOK, StoreOK, ControlOK, WorldOK, Items

LEMMA InvPartsNext ==
  CacheInv' <=> StoreOK' /\ ControlOK' /\ WorldOK' /\ LimitsOK' /\ NewestOK' /\ FreshOK'
BY DEF CacheInv, CacheTypeOK, StoreOK, ControlOK, WorldOK, Items

LEMMA StoreKept ==
  ASSUME CacheInv, UNCHANGED <<entries, order, currentBytes>>
  PROVE  StoreOK' /\ Cached' = Cached /\ (OverLimit' <=> OverLimit)
<1>1. Cached' = Cached
  BY DEF Cached
<1>2. StoreOK
  BY StoreIs
<1>3. ListOK' /\ BytesOK'
  BY <1>1, <1>2 DEF StoreOK, ListOK, BytesOK
<1> QED BY <1>1, <1>2, <1>3 DEF StoreOK, OverLimit

\* While the mutex is free nobody is in putLocked.
LEMMA FreeMutex ==
  ASSUME CacheInv, mu = None
  PROVE  (\A p \in Proc : pc[p] \notin {"put", "evict"}) /\ ~OverLimit
BY CacheAssumption DEF CacheInv, HolderOK, LimitsOK

LEMMA LimitsFree ==
  ASSUME CacheInv, \A p \in Proc : pc'[p] # "evict", OverLimit' => OverLimit,
         \A p \in Proc : pc[p] # "evict"
  PROVE  LimitsOK' /\ NewestOK'
BY DEF CacheInv, LimitsOK, NewestOK

LEMMA LimitsKept ==
  ASSUME CacheInv, UNCHANGED <<entries, order, currentBytes>>,
         \A q \in Proc : pc'[q] = "evict" <=> pc[q] = "evict",
         \A q \in Proc : pc[q] = "evict" => todo'[q] = todo[q]
  PROVE  LimitsOK' /\ NewestOK'
<1>1. OverLimit' <=> OverLimit
  BY StoreKept
<1>2. LimitsOK'
  BY <1>1 DEF CacheInv, LimitsOK
<1>3. NewestOK'
  BY DEF CacheInv, NewestOK
<1> QED BY <1>2, <1>3

\* What a process has in hand, at the places where it has something.
LEMMA InHand ==
  ASSUME CacheInv, NEW p \in Proc
  PROVE  /\ pc[p] \in {"read", "remove"} =>
              todo[p] \in Seq(Items) /\ Len(todo[p]) = 1 /\ todo[p][1] \in Items
         /\ pc[p] \in InPut => todo[p] \in Seq(Vector) /\ Len(todo[p]) >= 1 /\ todo[p][1] \in Vector
<1>1. todo[p] \in Seq(Items) /\ TodoOK
  BY DEF CacheInv, CacheTypeOK, Items
<1>2. ASSUME pc[p] \in {"read", "remove"} PROVE Len(todo[p]) = 1 /\ todo[p][1] \in Items
  BY <1>1, <1>2 DEF TodoOK
<1>3. ASSUME pc[p] \in InPut
      PROVE  todo[p] \in Seq(Vector) /\ Len(todo[p]) >= 1 /\ todo[p][1] \in Vector
  <2>1. todo[p] \in Seq(Vector) /\ todo[p] # <<>>
    BY <1>1, <1>3 DEF TodoOK, InPut
  <2> HIDE DEF Vector
  <2> QED BY <2>1
<1> QED BY <1>1, <1>2, <1>3

\* Who had the payload of the backend in hand and has it still, or has just
\* read it.
HandsOK(id) ==
  \A p \in Proc : pc[p] \in InPut =>
    \A i \in DOMAIN todo[p] : LastInHand(p, id, i) => todo[p][i].val = backend[id]

LEMMA HandsKept ==
  ASSUME CacheInv, NEW id \in ID \ excused, backend'[id] = backend[id],
         \A q \in Proc : pc'[q] \in InPut =>
           \/ pc[q] \in InPut /\ todo'[q] = todo[q]
           \/ \A i \in DOMAIN todo'[q] : todo'[q][i].val = backend[todo'[q][i].id]
  PROVE  HandsOK(id)'
<1> SUFFICES ASSUME NEW q \in Proc, pc'[q] \in InPut, NEW i \in DOMAIN todo'[q],
                    LastInHand(q, id, i)'
             PROVE  todo'[q][i].val = backend[id]
  BY DEF HandsOK
<1>1. CASE pc[q] \in InPut /\ todo'[q] = todo[q]
  <2>1. LastInHand(q, id, i)
    BY <1>1 DEF LastInHand
  <2> QED BY <1>1, <2>1 DEF CacheInv, FreshOK, InPut
<1>2. CASE \A j \in DOMAIN todo'[q] : todo'[q][j].val = backend[todo'[q][j].id]
  BY <1>2 DEF LastInHand
<1> QED BY <1>1, <1>2

\* FreshOK by ids, for a step that leaves the backend alone.
LEMMA FreshKept ==
  ASSUME CacheInv, backend' = backend, excused' = excused,
         \A id \in ID \ excused : HandsOK(id)',
         \A id \in ID \ excused : entries'[id] \in {None, backend[id], entries[id]},
         \A id \in ID \ excused : Awaited(id) =>
           Awaited(id)' \/ entries'[id] \in {None, backend[id]}
  PROVE  FreshOK'
BY DEF CacheInv, FreshOK, HandsOK, InPut

LEMMA GetHitInv ==
  ASSUME CacheInv, NEW p \in Proc, NEW id \in ID, GetHit(p, id)
  PROVE  CacheInv'
<1>1. StoreOK /\ ControlOK /\ WorldOK /\ (\A q \in Proc : pc[q] \notin {"put", "evict"}) /\ ~OverLimit
  BY InvParts, FreeMutex DEF GetHit
<1>2. UNCHANGED <<backend, entries, currentBytes, mu, pc, todo, excused>>
  BY DEF GetHit
<1>3. Cached' = Cached /\ id \in Cached
  BY <1>2 DEF Cached, GetHit
<1>4. StoreOK'
  <2>1. order' \in Seq(ID) /\ Once(order') /\ Ids(order') = Ids(order) \cup {id}
    BY <1>1, InFront DEF StoreOK, ListOK, GetHit
  <2>2. ListOK'
    BY <1>1, <1>3, <2>1 DEF StoreOK, ListOK
  <2>3. BytesOK'
    BY <1>1, <1>2, <1>3 DEF StoreOK, BytesOK
  <2> QED BY <1>1, <1>2, <2>1, <2>2, <2>3 DEF StoreOK
<1>5. ControlOK' /\ WorldOK'
  BY <1>1, <1>2 DEF ControlOK, HolderOK, TodoOK, WorldOK
<1>6. LimitsOK' /\ NewestOK'
  <2>1. OverLimit' <=> OverLimit
    BY <1>2, <1>3 DEF OverLimit
  <2> QED BY <1>1, <1>2, <2>1, LimitsFree
<1>7. FreshOK'
  <2>1. \A x \in ID : Awaited(x)' <=> Awaited(x)
    BY <1>2 DEF Awaited, Filling
  <2>2. \A x \in ID \ excused : HandsOK(x)'
    BY <1>2, HandsKept
  <2> QED BY <1>2, <2>1, <2>2, FreshKept
<1> QED BY <1>4, <1>5, <1>6, <1>7, InvPartsNext

LEMMA GetMissInv ==
  ASSUME CacheInv, NEW p \in Proc, NEW id \in ID, GetMiss(p, id)
  PROVE  CacheInv'
<1> DEFINE item == [id |-> id, val |-> None]
<1>1. ControlOK /\ WorldOK /\ (\A q \in Proc : pc[q] \notin {"put", "evict"}) /\ ~OverLimit
  BY InvParts, FreeMutex DEF GetMiss
<1>2. /\ UNCHANGED <<backend, mu, excused>> /\ pc[p] = "idle"
      /\ pc' = [pc EXCEPT ![p] = "read"] /\ todo' = [todo EXCEPT ![p] = <<item>>]
  BY DEF GetMiss, Goto
<1>3. StoreOK' /\ (OverLimit' => OverLimit) /\ \A x \in ID : entries'[x] \in {None, entries[x]}
  <2>1. CASE entries[id] = None /\ UNCHANGED <<entries, order, currentBytes>>
    BY <2>1, StoreKept
  <2>2. CASE entries[id] # None /\ RemoveElement(id)
    <3>1. /\ StoreOK' /\ currentBytes' <= currentBytes
          /\ Cached' = Cached \ {id} /\ Cardinality(Cached') <= Cardinality(Cached)
          /\ entries'[id] = None /\ \A x \in ID : x # id => entries'[x] = entries[x]
      BY <2>2, RemoveElementIs
    <3>2. Cardinality(Cached) \in Nat /\ Cardinality(Cached') \in Nat
      BY <3>1, StoreIs, FS_RemoveElement, FS_CardinalityType DEF Summable
    <3>3. OverLimit' => OverLimit
      BY <3>1, <3>2, StoreIs, CacheAssumption DEF OverLimit, StoreOK
    <3> QED BY <3>1, <3>3
  <2> QED BY <2>1, <2>2 DEF GetMiss
<1>4. ControlOK' /\ WorldOK'
  <2>1. <<item>> \in Seq(Items) /\ Len(<<item>>) = 1
    BY DEF Items
  <2> HIDE DEF item
  <2>2. mu' \in Proc \cup {None} /\ pc' \in [Proc -> PCs] /\ todo' \in [Proc -> Seq(Items)]
    BY <1>1, <1>2, <2>1 DEF ControlOK, PCs
  <2>3. HolderOK'
    BY <1>1, <1>2 DEF ControlOK, HolderOK
  <2>4. TodoOK'
    BY <1>1, <1>2, <2>1 DEF ControlOK, TodoOK
  <2> QED BY <1>1, <1>2, <2>2, <2>3, <2>4 DEF ControlOK, WorldOK
<1>5. LimitsOK' /\ NewestOK'
  <2>1. \A q \in Proc : pc'[q] # "evict"
    BY <1>1, <1>2 DEF ControlOK
  <2> QED BY <1>1, <1>3, <2>1, LimitsFree
<1>6. FreshOK'
  <2>1. \A q \in Proc : pc'[q] \in InPut => pc[q] \in InPut /\ todo'[q] = todo[q]
    BY <1>1, <1>2 DEF ControlOK, InPut
  <2>2. \A x \in ID : Awaited(x) => Awaited(x)'
    BY <1>1, <1>2 DEF ControlOK, Awaited, Filling
  <2>3. \A x \in ID \ excused : HandsOK(x)'
    BY <1>2, <2>1, HandsKept
  <2> QED BY <1>2, <1>3, <2>2, <2>3, FreshKept
<1> QED BY <1>3, <1>4, <1>5, <1>6, InvPartsNext

LEMMA BackendReadInv ==
  ASSUME CacheInv, NEW p \in Proc, BackendRead(p)
  PROVE  CacheInv'
<1> DEFINE id == todo[p][1].id
<1>1. ControlOK /\ WorldOK
  BY InvParts
<1>2. pc[p] = "read" /\ UNCHANGED <<backend, entries, order, currentBytes, mu, excused>>
  BY DEF BackendRead
<1>3. todo[p] \in Seq(Items) /\ Len(todo[p]) = 1 /\ todo[p][1] \in Items /\ id \in ID
  BY <1>2, InHand DEF Items
<1>4. PICK l, s : /\ pc' = [pc EXCEPT ![p] = l] /\ todo' = [todo EXCEPT ![p] = s]
                  /\ \/ l = "idle" /\ s = <<>>
                     \/ /\ l = "lock" /\ s \in Seq(Vector) /\ Len(s) = 1
                        /\ s[1].val = backend[s[1].id]
  <2>1. CASE pc' = [pc EXCEPT ![p] = "idle"] /\ todo' = [todo EXCEPT ![p] = <<>>]
    BY <1>2, <2>1
  <2>2. CASE /\ backend[id] # None /\ pc' = [pc EXCEPT ![p] = "lock"]
             /\ todo' = [todo EXCEPT ![p] = <<[id |-> id, val |-> backend[id]]>>]
    <3> DEFINE item == [id |-> id, val |-> backend[id]]
    <3>1. pc' = [pc EXCEPT ![p] = "lock"] /\ todo' = [todo EXCEPT ![p] = <<item>>]
      BY <2>2
    <3>2. backend[id] \in Val
      BY <1>1, <1>3, <2>2 DEF WorldOK
    <3>3. item \in Vector /\ item.val = backend[item.id]
      BY <1>3, <3>2 DEF Vector
    <3> HIDE DEF item
    <3>4. <<item>> \in Seq(Vector) /\ Len(<<item>>) = 1 /\ <<item>>[1] = item
      BY <3>3
    <3>5. PICK s : s = <<item>>
      OBVIOUS
    <3>6. s \in Seq(Vector) /\ Len(s) = 1 /\ s[1].val = backend[s[1].id]
      BY <3>3, <3>4, <3>5
    <3> QED BY <3>1, <3>5, <3>6
  <2> QED BY <2>1, <2>2 DEF BackendRead, Goto
<1>5. ControlOK' /\ WorldOK'
  <2>1. s \in Seq(Items) /\ l \in PCs
    <3>1. Vector \subseteq Items
      BY DEF Vector, Items
    <3>2. s \in Seq(Vector) => s \in Seq(Items)
      BY <3>1, SeqMonotonic
    <3>3. <<>> \in Seq(Items)
      OBVIOUS
    <3> HIDE DEF id
    <3> QED BY <1>4, <3>2, <3>3 DEF PCs
  <2>2. mu' \in Proc \cup {None} /\ pc' \in [Proc -> PCs] /\ todo' \in [Proc -> Seq(Items)]
    BY <1>1, <1>2, <1>4, <2>1 DEF ControlOK
  <2>3. HolderOK'
    BY <1>1, <1>2, <1>4 DEF ControlOK, HolderOK
  <2>4. TodoOK'
    BY <1>1, <1>2, <1>4 DEF ControlOK, TodoOK
  <2> QED BY <1>1, <1>2, <2>2, <2>3, <2>4 DEF ControlOK, WorldOK
<1>6. StoreOK' /\ LimitsOK' /\ NewestOK'
  BY <1>1, <1>2, <1>4, StoreKept, LimitsKept DEF ControlOK
<1>7. FreshOK'
  <2>1. \A x \in ID \ excused : HandsOK(x)'
    <3>1. \A q \in Proc : pc'[q] \in InPut =>
           \/ pc[q] \in InPut /\ todo'[q] = todo[q]
           \/ \A i \in DOMAIN todo'[q] : todo'[q][i].val = backend[todo'[q][i].id]
      BY <1>1, <1>4 DEF ControlOK, InPut
    <3> QED BY <1>2, <3>1, HandsKept
  <2>2. \A x \in ID : Awaited(x) => Awaited(x)'
    BY <1>1, <1>2, <1>4 DEF ControlOK, Awaited, Filling
  <2> QED BY <1>2, <2>1, <2>2, FreshKept
<1> QED BY <1>5, <1>6, <1>7, InvPartsNext

LEMMA LockInv ==
  ASSUME CacheInv, NEW p \in Proc, Lock(p)
  PROVE  CacheInv'
<1>1. ControlOK /\ WorldOK /\ (\A q \in Proc : pc[q] \notin {"put", "evict"})
  BY InvParts, FreeMutex DEF Lock
<1>2. /\ pc[p] = "lock" /\ mu' = p /\ pc' = [pc EXCEPT ![p] = "put"]
      /\ UNCHANGED <<backend, entries, order, currentBytes, todo, excused>>
  BY DEF Lock, Goto
<1>3. ControlOK' /\ WorldOK'
  BY <1>1, <1>2 DEF ControlOK, WorldOK, HolderOK, TodoOK, PCs
<1>4. StoreOK' /\ LimitsOK' /\ NewestOK'
  BY <1>1, <1>2, StoreKept, LimitsKept DEF ControlOK
<1>5. FreshOK'
  <2>1. \A x \in ID \ excused : HandsOK(x)'
    BY <1>1, <1>2, HandsKept DEF ControlOK, InPut
  <2>2. \A x \in ID : Awaited(x) => Awaited(x)'
    BY <1>1, <1>2 DEF ControlOK, Awaited, Filling
  <2> QED BY <1>2, <2>1, <2>2, FreshKept
<1> QED BY <1>3, <1>4, <1>5, InvPartsNext

LEMMA RemoveCachedInv ==
  ASSUME CacheInv, NEW p \in Proc, RemoveCached(p)
  PROVE  CacheInv'
<1> DEFINE id == todo[p][1].id
<1>1. ControlOK /\ WorldOK /\ (\A q \in Proc : pc[q] \notin {"put", "evict"}) /\ ~OverLimit
  BY InvParts, FreeMutex DEF RemoveCached
<1>2. /\ pc[p] = "remove" /\ UNCHANGED <<backend, mu, excused>>
      /\ pc' = [pc EXCEPT ![p] = "idle"] /\ todo' = [todo EXCEPT ![p] = <<>>]
  BY DEF RemoveCached, Goto
<1>3. todo[p] \in Seq(Items) /\ Len(todo[p]) = 1 /\ id \in ID /\ p = Writer
  BY <1>1, <1>2, InHand DEF Items, ControlOK, TodoOK
<1>4. /\ StoreOK' /\ (OverLimit' => OverLimit) /\ entries'[id] = None
      /\ \A x \in ID : entries'[x] \in {None, entries[x]}
  <2>1. CASE entries[id] = None /\ UNCHANGED <<entries, order, currentBytes>>
    BY <2>1, StoreKept
  <2>2. CASE entries[id] # None /\ RemoveElement(id)
    <3>1. /\ StoreOK' /\ currentBytes' <= currentBytes
          /\ Cached' = Cached \ {id} /\ Cardinality(Cached') <= Cardinality(Cached)
          /\ entries'[id] = None /\ \A x \in ID : x # id => entries'[x] = entries[x]
      BY <1>3, <2>2, RemoveElementIs
    <3>2. Cardinality(Cached) \in Nat /\ Cardinality(Cached') \in Nat
      BY <3>1, StoreIs, FS_RemoveElement, FS_CardinalityType DEF Summable
    <3>3. OverLimit' => OverLimit
      BY <3>1, <3>2, StoreIs, CacheAssumption DEF OverLimit, StoreOK
    <3> QED BY <3>1, <3>3
  <2> QED BY <2>1, <2>2 DEF RemoveCached
<1>5. ControlOK' /\ WorldOK'
  BY <1>1, <1>2 DEF ControlOK, WorldOK, HolderOK, TodoOK, PCs
<1>6. LimitsOK' /\ NewestOK'
  <2>1. \A q \in Proc : pc'[q] # "evict"
    BY <1>1, <1>2 DEF ControlOK
  <2> QED BY <1>1, <1>4, <2>1, LimitsFree
<1>7. FreshOK'
  <2>1. \A x \in ID \ excused : HandsOK(x)'
    BY <1>1, <1>2, HandsKept DEF ControlOK, InPut
  <2>2. \A x \in ID : Awaited(x) => x = id
    BY <1>2, <1>3 DEF Awaited, Filling
  <2> QED BY <1>2, <1>4, <2>1, <2>2, FreshKept
<1> QED BY <1>4, <1>5, <1>6, <1>7, InvPartsNext

LEMMA PutInv ==
  ASSUME CacheInv, NEW p \in Proc, Put(p)
  PROVE  CacheInv'
<1>1. ControlOK /\ WorldOK
  BY InvParts
<1>2. /\ pc[p] = "put" /\ UNCHANGED <<backend, mu, todo, excused>>
      /\ pc' = [pc EXCEPT ![p] = "evict"]
  BY DEF Put, Goto
<1>3. PICK vec : vec = todo[p][1]
  OBVIOUS
<1>4. /\ todo[p] \in Seq(Vector) /\ Len(todo[p]) >= 1 /\ vec \in Vector
      /\ vec.id \in ID /\ vec.val \in Val
  BY <1>2, <1>3, InHand DEF InPut, Vector
<1>5. \A q \in Proc : q # p => pc[q] \notin {"put", "evict"}
  BY <1>1, <1>2 DEF ControlOK, HolderOK
<1>6. /\ StoreOK' /\ order' # <<>> /\ order'[1] = vec.id /\ entries'[vec.id] = vec.val
      /\ \A x \in ID : x # vec.id => entries'[x] = entries[x]
  <2>1. /\ entries' = [entries EXCEPT ![vec.id] = vec.val]
        /\ order' = <<vec.id>> \o Without(order, vec.id)
        /\ currentBytes' = (currentBytes - IF entries[vec.id] = None
                                           THEN 0 ELSE Size[vec.id][entries[vec.id]])
                           + Size[vec.id][vec.val]
    BY <1>3 DEF Put
  <2>2. entries \in [ID -> Val \cup {None}]
    BY StoreIs DEF StoreOK
  <2>3. \A x \in ID : x # vec.id => entries'[x] = entries[x]
    BY <1>4, <2>1, <2>2
  <2> QED BY <1>4, <2>1, <2>3, PutIs
<1>7. ControlOK' /\ WorldOK'
  BY <1>1, <1>2 DEF ControlOK, WorldOK, HolderOK, TodoOK, PCs
<1>8. pc'[p] = "evict" /\ \A q \in Proc : pc'[q] = "evict" => q = p
  BY <1>1, <1>2, <1>5 DEF ControlOK
<1>9. LimitsOK' /\ NewestOK'
  <2>1. LimitsOK'
    BY <1>8 DEF LimitsOK
  <2>2. todo'[p][1] = vec
    BY <1>2, <1>3
  <2>3. NewestOK'
    BY <1>6, <1>8, <2>2 DEF NewestOK
  <2> QED BY <2>1, <2>3
<1>10. FreshOK'
  <2>1. \A x \in ID \ excused : HandsOK(x)'
    BY <1>1, <1>2, HandsKept DEF ControlOK, InPut
  <2>2. ASSUME NEW x \in ID \ excused
        PROVE  entries'[x] \in {None, backend[x]} \/ Awaited(x)'
    <3>1. CASE x = vec.id /\ LastInHand(p, x, 1)
      <4>1. 1 \in DOMAIN todo[p]
        BY <1>4
      <4>2. vec.val = backend[x]
        BY <1>2, <1>3, <3>1, <4>1 DEF CacheInv, FreshOK
      <4> QED BY <1>6, <3>1, <4>2
    <3>2. CASE x = vec.id /\ ~LastInHand(p, x, 1)
      <4>1. PICK j \in DOMAIN todo[p] : j > 1 /\ todo[p][j].id = x
        BY <1>3, <3>2 DEF LastInHand
      <4>2. p = Writer
        BY <1>1, <1>4, <4>1 DEF ControlOK, TodoOK
      <4> QED BY <1>2, <1>8, <4>1, <4>2 DEF Awaited
    <3>3. CASE x # vec.id
      <4>1. CASE ~Awaited(x)
        BY <1>6, <3>3, <4>1 DEF CacheInv, FreshOK
      <4>2. CASE Awaited(x) /\ p # Writer
        <5>1. pc'[Writer] = pc[Writer]
          BY <1>1, <1>2, <4>2, CacheAssumption DEF ControlOK
        <5> QED BY <1>2, <4>2, <5>1 DEF Awaited, Filling
      <4>3. CASE Awaited(x) /\ p = Writer
        <5>1. PICK j \in DOMAIN todo[p] : todo[p][j].id = x
          BY <4>3 DEF Awaited, Filling
        <5>2. j > 1
          BY <1>3, <1>4, <3>3, <5>1
        <5> QED BY <1>2, <1>8, <4>3, <5>1, <5>2 DEF Awaited
      <4> QED BY <4>1, <4>2, <4>3
    <3> QED BY <3>1, <3>2, <3>3
  <2>3. UNCHANGED <<backend, excused>>
    BY <1>2
  <2> QED BY <2>1, <2>2, <2>3 DEF FreshOK, HandsOK, InPut
<1> QED BY <1>6, <1>7, <1>9, <1>10, InvPartsNext

\* The entry that goes is the one at the back.  When it is the one just put it
\* is the only one, and over the byte limit by itself.
LEMMA EvictOneInv ==
  ASSUME CacheInv, NEW p \in Proc, EvictOne(p)
  PROVE  CacheInv'
<1>1. ControlOK /\ WorldOK /\ StoreOK /\ Cardinality(Cached) = Len(order) /\ Summable(entries, Cached)
  BY InvParts, StoreIs
<1>2. pc[p] = "evict" /\ OverLimit /\ UNCHANGED <<backend, mu, pc, todo, excused>>
  BY DEF EvictOne
<1>3. PICK vec : vec = todo[p][1]
  OBVIOUS
<1>4. \A q \in Proc : pc[q] = "evict" => q = p
  BY <1>1, <1>2 DEF ControlOK, HolderOK
<1>5. ControlOK' /\ WorldOK' /\ LimitsOK'
  <2>1. LimitsOK'
    BY <1>2 DEF LimitsOK
  <2> QED BY <1>1, <1>2, <2>1 DEF ControlOK, WorldOK, HolderOK, TodoOK
<1>6. StoreOK' /\ NewestOK' /\ \A x \in ID : entries'[x] \in {None, entries[x]}
  <2>1. CASE order = <<>>
    <3>1. UNCHANGED <<entries, order, currentBytes>>
      BY <2>1 DEF EvictOne
    <3>2. NewestOK'
      BY <1>2, <3>1 DEF CacheInv, NewestOK
    <3> QED BY <3>1, <3>2, StoreKept
  <2>2. CASE order # <<>>
    <3>1. PICK n, id : n \in Nat /\ n = Len(order) /\ id = order[n] /\ n >= 1 /\ RemoveElement(id)
      BY <1>1, <2>2 DEF EvictOne, StoreOK
    <3>2. /\ DOMAIN order = 1 .. n /\ 1 \in DOMAIN order /\ n \in DOMAIN order
          /\ order \in Seq(ID) /\ Once(order) /\ Ids(order) = Cached
      BY <1>1, <3>1 DEF StoreOK, ListOK
    <3>3. id \in ID /\ id \in Cached /\ entries[id] # None
      BY <3>1, <3>2 DEF Ids, Cached
    <3>4. /\ StoreOK' /\ entries'[id] = None /\ \A x \in ID : x # id => entries'[x] = entries[x]
          /\ order[1] # id => order' # <<>> /\ order'[1] = order[1]
      BY <2>2, <3>1, <3>3, RemoveElementIs
    <3>5. CASE Size[vec.id][vec.val] > MaxBytes
      BY <1>2, <1>3, <1>4, <3>4, <3>5 DEF NewestOK
    <3>6. CASE ~(Size[vec.id][vec.val] > MaxBytes)
      <4>1. order[1] = vec.id /\ entries[vec.id] = vec.val
        BY <1>2, <1>3, <3>6 DEF CacheInv, NewestOK
      <4>2. CASE n = 1
        <5>1. Cached = {vec.id}
          BY <3>1, <3>2, <4>1, <4>2 DEF Ids
        <5>2. currentBytes = Size[vec.id][vec.val]
          <6>1. Bytes(entries, Cached) = Size[vec.id][vec.val] + Bytes(entries, {})
            <7>1. Bytes(entries, Cached) = Size[vec.id][entries[vec.id]] + Bytes(entries, Cached \ {vec.id})
              BY <1>1, <5>1, BytesAre
            <7>2. Cached \ {vec.id} = {}
              BY <5>1
            <7> QED BY <4>1, <7>1, <7>2
          <6>2. Bytes(entries, {}) = 0
            BY FS_EmptySet, BytesStep
          <6>3. Size[vec.id][vec.val] \in Nat
            BY <1>1, <4>1, <5>1, CacheAssumption DEF Summable
          <6> QED BY <1>1, <6>1, <6>2, <6>3 DEF StoreOK, BytesOK
        <5>3. ~(Cardinality(Cached) > MaxItems)
          BY <1>1, <3>1, <4>2, CacheAssumption
        <5> QED BY <1>2, <3>6, <5>2, <5>3 DEF OverLimit
      <4>3. CASE n # 1
        <5>1. order[1] # id
          BY <3>1, <3>2, <4>3 DEF Once
        <5>2. vec.id \in ID
          BY <3>2, <4>1
        <5>3. order' # <<>> /\ order'[1] = vec.id /\ entries'[vec.id] = vec.val
          BY <3>4, <4>1, <5>1, <5>2
        <5>4. NewestOK'
          BY <1>2, <1>3, <1>4, <5>3 DEF NewestOK
        <5> QED BY <3>4, <5>4
      <4> QED BY <4>2, <4>3
    <3> QED BY <3>5, <3>6
  <2> QED BY <2>1, <2>2
<1>7. FreshOK'
  <2>1. \A x \in ID : Awaited(x)' <=> Awaited(x)
    BY <1>2 DEF Awaited, Filling
  <2>2. \A x \in ID \ excused : HandsOK(x)'
    BY <1>2, HandsKept
  <2> QED BY <1>2, <1>6, <2>1, <2>2, FreshKept
<1> QED BY <1>5, <1>6, <1>7, InvPartsNext
\* putLocked goes on with the rest of the batch, or unlocks.
LEMMA EvictDoneInv ==
  ASSUME CacheInv, NEW p \in Proc, EvictDone(p)
  PROVE  CacheInv'
<1>1. ControlOK /\ WorldOK
  BY InvParts
<1>2. /\ pc[p] = "evict" /\ ~OverLimit
      /\ UNCHANGED <<backend, entries, order, currentBytes, excused>>
  BY DEF EvictDone
<1>3. todo[p] \in Seq(Vector) /\ Len(todo[p]) >= 1 /\ mu = p
  BY <1>1, <1>2, InHand DEF InPut, ControlOK, HolderOK
<1>4. PICK s : s = Tail(todo[p])
  OBVIOUS
<1>5. /\ s \in Seq(Vector) /\ Len(s) = Len(todo[p]) - 1 /\ Len(s) \in Nat
      /\ DOMAIN s = 1 .. Len(s) /\ DOMAIN todo[p] = 1 .. Len(todo[p])
      /\ \A i \in 1 .. Len(s) : s[i] = todo[p][i + 1]
  <2> HIDE DEF Vector
  <2> QED BY <1>3, <1>4
<1>6. PICK l, m : /\ pc' = [pc EXCEPT ![p] = l] /\ mu' = m /\ todo' = [todo EXCEPT ![p] = s]
                  /\ \/ s = <<>> /\ l = "idle" /\ m = None
                     \/ s # <<>> /\ l = "put" /\ m = p
  <2>1. CASE Len(todo[p]) = 1
    <3>1. s = <<>>
      BY <1>5, <2>1
    <3> QED BY <1>4, <2>1, <3>1 DEF EvictDone, Goto
  <2>2. CASE Len(todo[p]) # 1
    <3>1. s # <<>>
      <4>1. Len(s) # 0
        BY <1>3, <1>5, <2>2
      <4> QED BY <4>1
    <3> QED BY <1>3, <1>4, <2>2, <3>1 DEF EvictDone, Goto
  <2> QED BY <2>1, <2>2
<1>7. \A q \in Proc : q # p => pc[q] \notin {"put", "evict"} /\ pc'[q] = pc[q] /\ todo'[q] = todo[q]
  BY <1>1, <1>2, <1>3, <1>6 DEF ControlOK, HolderOK
<1>8. pc'[p] = l /\ todo'[p] = s
  BY <1>1, <1>6 DEF ControlOK
<1>9. ControlOK' /\ WorldOK'
  <2>1. s \in Seq(Items) /\ l \in PCs
    <3>1. Vector \subseteq Items
      BY DEF Vector, Items
    <3> QED BY <1>5, <1>6, <3>1, SeqMonotonic DEF PCs
  <2>2. mu' \in Proc \cup {None} /\ pc' \in [Proc -> PCs] /\ todo' \in [Proc -> Seq(Items)]
    BY <1>1, <1>6, <2>1 DEF ControlOK
  <2>3. HolderOK'
    BY <1>1, <1>3, <1>6, <1>7, <1>8, CacheAssumption DEF ControlOK, HolderOK
  <2>4. TodoOK'
    <3>1. p # Writer => Len(s) <= 1
      BY <1>1, <1>3, <1>5 DEF ControlOK, TodoOK
    <3> SUFFICES ASSUME NEW q \in Proc
                 PROVE  /\ pc'[q] = "idle" => todo'[q] = <<>>
                        /\ pc'[q] \in {"read", "remove"} => Len(todo'[q]) = 1
                        /\ pc'[q] \in {"lock", "put", "evict"} =>
                             todo'[q] \in Seq(Vector) /\ todo'[q] # <<>>
                        /\ q # Writer => Len(todo'[q]) <= 1 /\ pc'[q] # "remove"
      BY DEF TodoOK
    <3>2. CASE q = p
      BY <1>5, <1>6, <1>8, <3>1, <3>2
    <3>3. CASE q # p
      BY <1>1, <1>7, <3>3 DEF ControlOK, TodoOK
    <3> QED BY <3>2, <3>3
  <2> QED BY <1>1, <1>2, <2>2, <2>3, <2>4 DEF ControlOK, WorldOK
<1>10. StoreOK' /\ LimitsOK' /\ NewestOK'
  <2>1. StoreOK' /\ ~OverLimit'
    BY <1>2, StoreKept
  <2>2. \A q \in Proc : pc'[q] # "evict"
    BY <1>6, <1>7, <1>8
  <2> QED BY <2>1, <2>2 DEF LimitsOK, NewestOK
<1>11. FreshOK'
  <2>1. ASSUME NEW x \in ID \ excused PROVE HandsOK(x)'
    <3> SUFFICES ASSUME NEW q \in Proc, pc'[q] \in InPut, NEW i \in DOMAIN todo'[q],
                        LastInHand(q, x, i)'
                 PROVE  todo'[q][i].val = backend[x]
      BY <1>2 DEF HandsOK
    <3>1. CASE q = p
      <4>1. i \in 1 .. Len(s) /\ i + 1 \in DOMAIN todo[p] /\ s[i] = todo[p][i + 1]
        BY <1>5, <1>8, <3>1
      <4>2. LastInHand(p, x, i + 1)
        <5>1. s[i].id = x /\ \A j \in DOMAIN s : j > i => s[j].id # x
          BY <1>8, <3>1 DEF LastInHand
        <5>2. ASSUME NEW j \in DOMAIN todo[p], j > i + 1 PROVE todo[p][j].id # x
          <6>1. j - 1 \in 1 .. Len(s) /\ j - 1 > i /\ (j - 1) + 1 = j
            BY <1>5, <4>1, <5>2
          <6>2. s[j - 1] = todo[p][j]
            BY <1>5, <6>1
          <6> QED BY <1>5, <5>1, <6>1, <6>2
        <5> QED BY <4>1, <5>1, <5>2 DEF LastInHand
      <4>3. todo[p][i + 1].val = backend[x]
        BY <1>2, <4>1, <4>2 DEF CacheInv, FreshOK
      <4> QED BY <1>8, <3>1, <4>1, <4>3
    <3>2. CASE q # p
      <4>1. LastInHand(q, x, i) /\ pc[q] \in InPut /\ i \in DOMAIN todo[q]
        BY <1>7, <3>2 DEF LastInHand
      <4> QED BY <1>7, <3>2, <4>1 DEF CacheInv, FreshOK, InPut
    <3> QED BY <3>1, <3>2
  <2>2. ASSUME NEW x \in ID, Awaited(x) PROVE Awaited(x)'
    <3>1. CASE p = Writer
      <4>1. PICK j \in DOMAIN todo[p] : j > 1 /\ todo[p][j].id = x
        BY <1>2, <2>2, <3>1 DEF Awaited
      <4>2. j - 1 \in 1 .. Len(s) /\ (j - 1) + 1 = j
        BY <1>5, <4>1
      <4>3. s[j - 1].id = x /\ s # <<>> /\ j - 1 \in DOMAIN s
        BY <1>5, <4>1, <4>2
      <4> QED BY <1>6, <1>8, <3>1, <4>3 DEF Awaited, Filling
    <3>2. CASE p # Writer
      BY <1>7, <2>2, <3>2, CacheAssumption DEF Awaited, Filling
    <3> QED BY <3>1, <3>2
  <2> QED BY <1>2, <2>1, <2>2, FreshKept
<1> QED BY <1>9, <1>10, <1>11, InvPartsNext

----------------------------------------------------------------------------
(* The writes of the backend.                                              *)

\* A finite set of numbers that is not empty has a greatest: otherwise take
\* the smallest of its subsets without one.
LEMMA GreatestIs ==
  ASSUME NEW S, IsFiniteSet(S), S \subseteq Nat, S # {}
  PROVE  Max(S) \in S /\ \A j \in S : j <= Max(S)
<1> DEFINE Bad == {T \in SUBSET S : T # {} /\ ~ \E m \in T : \A j \in T : m >= j}
<1>1. Bad = {}
  <2> SUFFICES ASSUME Bad # {} PROVE FALSE
    OBVIOUS
  <2>1. PICK T \in Bad : \A U \in SUBSET T : U # T => U \notin Bad
    <3>1. Bad \subseteq SUBSET S
      OBVIOUS
    <3> HIDE DEF Bad
    <3> QED BY <3>1, SmallestSet
  <2>2. PICK x \in T : TRUE
    BY <2>1
  <2>3. CASE T = {x}
    BY <2>1, <2>3
  <2>4. CASE T # {x}
    <3> DEFINE U == T \ {x}
    <3>0. U \in SUBSET T /\ U # T /\ U # {} /\ U \in SUBSET S
      BY <2>1, <2>2, <2>4
    <3>1. PICK m \in U : \A j \in U : m >= j
      BY <2>1, <3>0
    <3>2. CASE m >= x
      BY <2>1, <3>1, <3>2
    <3>3. CASE m < x
      <4>1. \A j \in T : x >= j
        BY <2>1, <3>1, <3>3
      <4> QED BY <2>1, <4>1
    <3> QED BY <2>1, <3>1, <3>2, <3>3
  <2> QED BY <2>3, <2>4
<1>2. PICK m \in S : \A j \in S : m >= j
  BY <1>1
<1>3. Max(S) \in S /\ \A j \in S : Max(S) >= j
  BY <1>2 DEF Max
<1> QED BY <1>3
\* After a write of ids: whoever had fetched one of them before is overlapped,
\* and Writer is about to put, or to remove, each of them.
LEMMA WriteFresh ==
  ASSUME CacheInv, pc[Writer] = "idle", entries' = entries,
         NEW ids, \A x \in ID \ ids : backend'[x] = backend[x],
         \A q \in Proc \ {Writer} : pc'[q] = pc[q] /\ todo'[q] = todo[q],
         \A i \in DOMAIN todo'[Writer] : pc'[Writer] \in InPut =>
           /\ todo'[Writer][i].id \in ids
           /\ \A x \in ids : LastInHand(Writer, x, i)' => todo'[Writer][i].val = backend'[x],
         \/ excused' = excused \cup ids
         \/ excused' = excused \cup Overlapped(ids) /\ \A x \in ids : Awaited(x)'
  PROVE  FreshOK'
<1> SUFFICES ASSUME NEW x \in ID \ excused'
             PROVE  /\ \A p \in Proc : pc'[p] \in InPut =>
                         \A i \in DOMAIN todo'[p] :
                           LastInHand(p, x, i)' => todo'[p][i].val = backend'[x]
                    /\ entries'[x] \in {None, backend'[x]} \/ Awaited(x)'
  BY DEF FreshOK, InPut
<1>1. x \in ID \ excused
  OBVIOUS
<1>2. ~Awaited(x)
  BY DEF Awaited
<1>3. entries'[x] \in {None, backend'[x]} \/ Awaited(x)'
  <2>1. entries[x] \in {None, backend[x]}
    BY <1>1, <1>2 DEF CacheInv, FreshOK
  <2> QED BY <2>1
<1>4. ASSUME NEW p \in Proc, pc'[p] \in InPut, NEW i \in DOMAIN todo'[p], LastInHand(p, x, i)'
      PROVE  todo'[p][i].val = backend'[x]
  <2>1. todo'[p][i].id = x
    BY <1>4 DEF LastInHand
  <2>2. CASE p = Writer
    BY <1>4, <2>1, <2>2
  <2>3. CASE p # Writer
    <3>1. pc[p] \in InPut /\ i \in DOMAIN todo[p] /\ LastInHand(p, x, i) /\ todo'[p] = todo[p]
      BY <1>4, <2>3 DEF LastInHand
    <3>2. todo[p][i].val = backend[x]
      BY <1>1, <3>1 DEF CacheInv, FreshOK, InPut
    <3>3. x \notin ids
      <4>1. Filling(p, x) /\ pc[p] # "read"
        BY <3>1 DEF Filling, LastInHand, InPut
      <4>2. x \in ids => x \in Overlapped(ids)
        BY <4>1 DEF Overlapped
      <4> QED BY <4>2
    <3> QED BY <3>1, <3>2, <3>3
  <2> QED BY <2>2, <2>3
<1> QED BY <1>3, <1>4

LEMMA UpsertVectorsInv ==
  ASSUME CacheInv, NEW batch \in Batches, UpsertVectors(batch)
  PROVE  CacheInv'
<1> DEFINE ids == {batch[i].id : i \in DOMAIN batch}
           val(id) == batch[Max({i \in DOMAIN batch : batch[i].id = id})].val
<1>1. ControlOK /\ WorldOK
  BY InvParts
<1>2. PICK n \in 1 .. MaxBatch : batch \in [1 .. n -> Vector]
  BY DEF Batches
<1>3. /\ batch \in Seq(Vector) /\ batch # <<>> /\ DOMAIN batch = 1 .. n /\ n \in Nat
      /\ \A i \in 1 .. n : batch[i] \in Vector
  <2>1. n \in Nat /\ n >= 1
    BY <1>2, CacheAssumption
  <2>2. batch \in Seq(Vector) /\ Len(batch) = n
    <3> HIDE DEF Vector
    <3> QED BY <1>2, <2>1
  <2>3. batch # <<>>
    BY <2>1, <2>2
  <2> QED BY <1>2, <2>1, <2>2, <2>3
<1>4. ids \subseteq ID
  BY <1>3 DEF Vector
<1>5. ASSUME NEW x \in ids
      PROVE  /\ val(x) \in Val
             /\ \A i \in DOMAIN batch :
                  batch[i].id = x /\ (\A j \in DOMAIN batch : j > i => batch[j].id # x)
                    => batch[i].val = val(x)
  <2>1. PICK I : I = {i \in DOMAIN batch : batch[i].id = x}
    OBVIOUS
  <2>2. I \subseteq 1 .. n /\ I # {} /\ I \subseteq Nat
    BY <1>3, <2>1
  <2>3. IsFiniteSet(I)
    <3>1. IsFiniteSet(1 .. n)
      <4>1. 1 \in Int /\ n \in Int
        BY <1>3
      <4> HIDE DEF ids
      <4> QED BY <4>1, FS_Interval
    <3> HIDE DEF ids
    <3> QED BY <2>2, <3>1, FS_Subset
  <2>4. PICK m : m = Max(I)
    OBVIOUS
  <2>5. m \in I /\ \A j \in I : j <= m
    BY <2>2, <2>3, <2>4, GreatestIs
  <2>6. val(x) = batch[m].val
    BY <2>1, <2>4
  <2> HIDE DEF val
  <2>7. ASSUME NEW i \in DOMAIN batch, batch[i].id = x,
               \A j \in DOMAIN batch : j > i => batch[j].id # x
        PROVE  i = m
    <3>1. i \in I /\ i \in Nat /\ m \in Nat /\ i <= m
      BY <1>3, <2>1, <2>2, <2>5, <2>7
    <3>2. ~(m > i)
      BY <2>1, <2>5, <2>7
    <3> QED BY <3>1, <3>2
  <2>8. val(x) \in Val
    BY <1>3, <2>2, <2>5, <2>6 DEF Vector
  <2> QED BY <2>6, <2>7, <2>8
<1>6. /\ pc[Writer] = "idle" /\ UNCHANGED <<entries, order, currentBytes, mu>>
      /\ backend' = [x \in ID |-> IF x \in ids THEN val(x) ELSE backend[x]]
      /\ \/ /\ pc' = [pc EXCEPT ![Writer] = "lock"] /\ todo' = [todo EXCEPT ![Writer] = batch]
            /\ excused' = excused \cup Overlapped(ids)
         \/ /\ pc' = pc /\ todo' = todo
            /\ excused' = excused \cup ids
  BY DEF UpsertVectors, Goto
<1> HIDE DEF val, ids
<1>7. Overlapped(ids) \subseteq ID
  BY <1>4 DEF Overlapped
<1>8. ControlOK' /\ WorldOK'
  <2>1. batch \in Seq(Items)
    <3>1. Vector \subseteq Items
      BY DEF Vector, Items
    <3> QED BY <1>3, <3>1, SeqMonotonic
  <2>2. mu' \in Proc \cup {None} /\ pc' \in [Proc -> PCs] /\ todo' \in [Proc -> Seq(Items)]
    BY <1>1, <1>6, <2>1 DEF ControlOK, PCs
  <2>3. HolderOK' /\ TodoOK'
    BY <1>1, <1>3, <1>6 DEF ControlOK, HolderOK, TodoOK
  <2>4. WorldOK'
    BY <1>1, <1>4, <1>5, <1>6, <1>7 DEF WorldOK
  <2> QED BY <2>2, <2>3, <2>4 DEF ControlOK
<1>9. StoreOK' /\ LimitsOK' /\ NewestOK'
  <2>1. /\ \A q \in Proc : pc'[q] = "evict" <=> pc[q] = "evict"
        /\ \A q \in Proc : pc[q] = "evict" => todo'[q] = todo[q]
    BY <1>1, <1>6 DEF ControlOK
  <2> QED BY <1>6, <2>1, StoreKept, LimitsKept
<1>10. FreshOK'
  <2>1. \A x \in ID \ ids : backend'[x] = backend[x]
    BY <1>6
  <2>2. \A x \in ids : backend'[x] = val(x)
    BY <1>4, <1>6
  <2>3. \A q \in Proc \ {Writer} : pc'[q] = pc[q] /\ todo'[q] = todo[q]
    BY <1>1, <1>6 DEF ControlOK
  <2>4. CASE pc' = [pc EXCEPT ![Writer] = "lock"] /\ todo' = [todo EXCEPT ![Writer] = batch]
    <3>1. pc'[Writer] = "lock" /\ todo'[Writer] = batch
      BY <1>1, <2>4, CacheAssumption DEF ControlOK
    <3>2. \A i \in DOMAIN batch : batch[i].id \in ids
      BY DEF ids
    <3>3. \A x \in ids : Awaited(x)'
      BY <3>1 DEF Awaited, Filling, ids
    <3>4. ASSUME NEW i \in DOMAIN batch, NEW x \in ids, LastInHand(Writer, x, i)'
          PROVE  batch[i].val = backend'[x]
      <4>1. batch[i].id = x /\ \A j \in DOMAIN batch : j > i => batch[j].id # x
        BY <3>1, <3>4 DEF LastInHand
      <4> QED BY <1>5, <2>2, <4>1
    <3>5. \A i \in DOMAIN todo'[Writer] : pc'[Writer] \in InPut =>
            /\ todo'[Writer][i].id \in ids
            /\ \A x \in ids : LastInHand(Writer, x, i)' => todo'[Writer][i].val = backend'[x]
      BY <3>1, <3>2, <3>4
    <3>6. \/ excused' = excused \cup ids
          \/ excused' = excused \cup Overlapped(ids) /\ \A x \in ids : Awaited(x)'
      BY <1>6, <3>3
    <3>7. pc[Writer] = "idle" /\ entries' = entries
      BY <1>6
    <3> QED BY <2>1, <2>3, <3>5, <3>6, <3>7, WriteFresh
  <2>5. CASE pc' = pc /\ todo' = todo /\ excused' = excused \cup ids
    <3>1. pc'[Writer] \notin InPut
      BY <1>6, <2>5 DEF InPut
    <3> QED BY <1>6, <2>1, <2>3, <2>5, <3>1, WriteFresh
  <2> QED BY <1>6, <2>4, <2>5
<1> QED BY <1>8, <1>9, <1>10, InvPartsNext

LEMMA DeleteVectorInv ==
  ASSUME CacheInv, NEW id \in ID, DeleteVector(id)
  PROVE  CacheInv'
<1> DEFINE item == [id |-> id, val |-> None]
<1>1. ControlOK /\ WorldOK
  BY InvParts
<1>2. /\ pc[Writer] = "idle" /\ UNCHANGED <<entries, order, currentBytes, mu>>
      /\ backend' = [backend EXCEPT ![id] = None]
      /\ \/ /\ pc' = [pc EXCEPT ![Writer] = "remove"] /\ todo' = [todo EXCEPT ![Writer] = <<item>>]
            /\ excused' = excused \cup Overlapped({id})
         \/ /\ pc' = pc /\ todo' = todo
            /\ excused' = excused \cup {id}
  BY DEF DeleteVector, Goto
<1>3. Overlapped({id}) \subseteq ID
  BY DEF Overlapped
<1>4. item \in Items /\ item.id = id
  BY DEF Items
<1> HIDE DEF item
<1>5. <<item>> \in Seq(Items) /\ Len(<<item>>) = 1 /\ <<item>>[1] = item /\ DOMAIN <<item>> = {1}
  BY <1>4
<1>6. ControlOK' /\ WorldOK'
  <2>1. mu' \in Proc \cup {None} /\ pc' \in [Proc -> PCs] /\ todo' \in [Proc -> Seq(Items)]
    BY <1>1, <1>2, <1>5 DEF ControlOK, PCs
  <2>2. HolderOK' /\ TodoOK'
    BY <1>1, <1>2, <1>5 DEF ControlOK, HolderOK, TodoOK
  <2>3. WorldOK'
    BY <1>1, <1>2, <1>3 DEF WorldOK
  <2> QED BY <2>1, <2>2, <2>3 DEF ControlOK
<1>7. StoreOK' /\ LimitsOK' /\ NewestOK'
  <2>1. /\ \A q \in Proc : pc'[q] = "evict" <=> pc[q] = "evict"
        /\ \A q \in Proc : pc[q] = "evict" => todo'[q] = todo[q]
    BY <1>1, <1>2 DEF ControlOK
  <2> QED BY <1>2, <2>1, StoreKept, LimitsKept
<1>8. FreshOK'
  <2>1. \A x \in ID \ {id} : backend'[x] = backend[x]
    BY <1>1, <1>2 DEF WorldOK
  <2>2. \A q \in Proc \ {Writer} : pc'[q] = pc[q] /\ todo'[q] = todo[q]
    BY <1>1, <1>2 DEF ControlOK
  <2>3. pc'[Writer] \notin InPut
    BY <1>1, <1>2, CacheAssumption DEF ControlOK, InPut
  <2>4. pc' = [pc EXCEPT ![Writer] = "remove"] /\ todo' = [todo EXCEPT ![Writer] = <<item>>]
          => \A x \in {id} : Awaited(x)'
    <3> SUFFICES ASSUME pc' = [pc EXCEPT ![Writer] = "remove"],
                        todo' = [todo EXCEPT ![Writer] = <<item>>]
                 PROVE  Awaited(id)'
      OBVIOUS
    <3>1. pc'[Writer] = "remove" /\ todo'[Writer] = <<item>>
      BY <1>1, CacheAssumption DEF ControlOK
    <3> QED BY <1>4, <1>5, <3>1 DEF Awaited, Filling
  <2> QED BY <1>2, <2>1, <2>2, <2>3, <2>4, WriteFresh
<1> QED BY <1>6, <1>7, <1>8, InvPartsNext

----------------------------------------------------------------------------
LEMMA CacheInit == Init => CacheInv
<1> SUFFICES ASSUME Init PROVE CacheInv
  OBVIOUS
<1>1. Cached = {}
  BY DEF Init, Cached
<1>2. CacheTypeOK
  BY DEF Init, CacheTypeOK, PCs
<1>3. ListOK
  BY <1>1 DEF Init, ListOK, Once, Ids
<1>4. BytesOK
  BY <1>1, FS_EmptySet, BytesStep DEF Init, BytesOK
<1>5. ~OverLimit
  BY <1>1, FS_EmptySet, CacheAssumption DEF Init, OverLimit
<1>6. HolderOK /\ LimitsOK /\ TodoOK /\ NewestOK /\ FreshOK
  BY <1>5, CacheAssumption DEF Init, HolderOK, LimitsOK, TodoOK, NewestOK, FreshOK
<1> QED BY <1>2, <1>3, <1>4, <1>6 DEF CacheInv

LEMMA CacheNext == CacheInv /\ [Next]_vars => CacheInv'
<1> SUFFICES ASSUME CacheInv, [Next]_vars PROVE CacheInv'
  OBVIOUS
<1>1. CASE UNCHANGED vars
  <2>1. StoreOK' /\ LimitsOK' /\ NewestOK'
    BY <1>1, StoreKept, LimitsKept DEF vars
  <2>2. ControlOK' /\ WorldOK'
    BY <1>1, InvParts DEF vars, ControlOK, WorldOK, HolderOK, TodoOK
  <2>3. FreshOK'
    BY <1>1 DEF vars, CacheInv, FreshOK, LastInHand, Awaited, Filling
  <2> QED BY <2>1, <2>2, <2>3, InvPartsNext
<1>2. ASSUME NEW p \in Proc, NEW id \in ID, GetHit(p, id) PROVE CacheInv'
  BY <1>2, GetHitInv
<1>3. ASSUME NEW p \in Proc, NEW id \in ID, GetMiss(p, id) PROVE CacheInv'
  BY <1>3, GetMissInv
<1>4. ASSUME NEW batch \in Batches, UpsertVectors(batch) PROVE CacheInv'
  BY <1>4, UpsertVectorsInv
<1>5. ASSUME NEW id \in ID, DeleteVector(id) PROVE CacheInv'
  BY <1>5, DeleteVectorInv
<1>6. ASSUME NEW p \in Proc, Proceed(p) PROVE CacheInv'
  BY <1>6, BackendReadInv, PutInv, EvictOneInv, EvictDoneInv DEF Proceed
<1>7. ASSUME NEW p \in Proc, Lock(p) PROVE CacheInv'
  BY <1>7, LockInv
<1>8. ASSUME NEW p \in Proc, RemoveCached(p) PROVE CacheInv'
  BY <1>8, RemoveCachedInv
<1> QED BY <1>1, <1>2, <1>3, <1>4, <1>5, <1>6, <1>7, <1>8 DEF Next

\* The inductive invariant: the bytes and the list are those of the entries at
\* every step, mu is held exactly in putLocked and evictLocked, and whoever
\* has a payload in hand has the backend's or is known to have been overtaken.
THEOREM CacheInvHolds == Spec => []CacheInv
BY CacheInit, CacheNext, PTL DEF Spec

\* However many goroutines share it, and whatever the limits and the sizes of
\* the payloads: whenever the mutex is free, currentBytes is the sum of the
\* entries, the list holds each of them once, and both limits are kept.
THEOREM CacheIsAccounted == Spec => []CacheAccounted
<1>1. ASSUME CacheInv PROVE CacheAccounted
  <2>1. CacheTypeOK
    BY <1>1 DEF CacheInv
  <2>2. Bytes(entries, Cached) = MapThenSumSet(LAMBDA id : Size[id][entries[id]], Cached)
    BY DEF Bytes
  <2>3. currentBytes = Bytes(entries, Cached) /\ Ids(order) = Cached
    BY <1>1 DEF CacheInv, BytesOK, ListOK
  <2>4. Len(order) = Cardinality(Cached)
    BY <1>1, StoreIs
  <2>5. mu = None => ~OverLimit
    BY <1>1, FreeMutex
  <2> QED BY <2>1, <2>2, <2>3, <2>4, <2>5 DEF CacheAccounted, Ids
<1> QED BY <1>1, CacheInvHolds, PTL

\* Between the requests of the writer a payload in the cache is the backend's,
\* but for the ids a write of which overtook a reader or failed late.
THEOREM CacheIsFresh == Spec => []StaleOnlyByRace
<1>1. ASSUME CacheInv, pc[Writer] \in {"idle", "read"}, NEW id \in ID \ excused
      PROVE  entries[id] \in {None, backend[id]}
  <2>1. ~Awaited(id)
    BY <1>1 DEF Awaited
  <2> QED BY <1>1, <2>1 DEF CacheInv, FreshOK
<1>2. CacheInv => StaleOnlyByRace
  BY <1>1 DEF StaleOnlyByRace
<1> QED BY <1>2, CacheInvHolds, PTL

\* evictLocked never takes what putLocked just put, unless that exceeds the
\* byte limit by itself.
THEOREM NewestIsKept == Spec => NewestSurvives
<1>1. ASSUME CacheInv, [Next]_vars, NEW p \in Proc, pc[p] = "evict", pc'[p] # "evict"
      PROVE  Size[todo[p][1].id][todo[p][1].val] > MaxBytes \/ entries[todo[p][1].id] = todo[p][1].val
  BY <1>1 DEF CacheInv, NewestOK
<1>2. CacheInv /\ [Next]_vars =>
        [\A p \in Proc : pc[p] = "evict" /\ pc'[p] # "evict" =>
           LET vec == todo[p][1] IN
           Size[vec.id][vec.val] > MaxBytes \/ entries[vec.id] = vec.val]_vars
  BY <1>1
<1> QED BY <1>2, CacheInvHolds, PTL DEF Spec, NewestSurvives
============================================================================
