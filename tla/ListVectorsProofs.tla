------------------------- MODULE ListVectorsProofs -------------------------
(***************************************************************************)
(* A listing by pages is complete, in order and without repetition, for    *)
(* every set of ids, page length and interleaving with other writers.      *)
(***************************************************************************)
EXTENDS ListVectors, FiniteSetTheorems, WellFoundedInduction, TLAPS

----------------------------------------------------------------------------
(* The largest and the smallest of a finite set of numbers.                *)

HasMax(S) == \E x \in S : \A y \in S : x >= y
HasMin(S) == \E x \in S : \A y \in S : x =< y

\* A finite set of numbers that is not empty has a largest and a smallest
\* member: otherwise take a smallest set that has none, and remove a member.
LEMMA FiniteHasMaxMin ==
  ASSUME NEW S, S \subseteq Nat, IsFiniteSet(S), S # {}
  PROVE  HasMax(S) /\ HasMin(S)
<1> DEFINE Bad == {T \in SUBSET S : T # {} /\ ~(HasMax(T) /\ HasMin(T))}
<1> SUFFICES ASSUME ~(HasMax(S) /\ HasMin(S)) PROVE FALSE
  OBVIOUS
<1>1. Bad \subseteq FiniteSubsetsOf(S) /\ Bad # {}
  <2>1. S \in Bad
    OBVIOUS
  <2>2. \A T \in Bad : IsFiniteSet(T)
    BY FS_Subset
  <2> QED BY <2>1, <2>2 DEF FiniteSubsetsOf
<1>2. PICK T \in Bad : \A U \in Bad : ~ (<<U, T>> \in StrictSubsetOrdering(S))
  <2> HIDE DEF Bad
  <2> QED BY <1>1, FS_StrictSubsetOrderingWellFounded, WFMin
<1>3. PICK t \in T : TRUE
  BY <1>2
<1>4. T \ {t} \notin Bad
  BY <1>2, <1>3 DEF StrictSubsetOrdering
<1>5. T \subseteq Nat /\ T # {} /\ ~(HasMax(T) /\ HasMin(T))
  BY <1>2
<1>6. CASE T \ {t} = {}
  BY <1>3, <1>5, <1>6 DEF HasMax, HasMin
<1>7. CASE HasMax(T \ {t}) /\ HasMin(T \ {t})
  <2>1. PICK x \in T \ {t} : \A y \in T \ {t} : x >= y
    BY <1>7 DEF HasMax
  <2>2. PICK z \in T \ {t} : \A y \in T \ {t} : z =< y
    BY <1>7 DEF HasMin
  <2>3. HasMax(T)
    <3>1. \A y \in T : (IF t >= x THEN t ELSE x) >= y
      BY <1>3, <1>5, <2>1
    <3> QED BY <1>3, <2>1, <3>1 DEF HasMax
  <2>4. HasMin(T)
    <3>1. \A y \in T : (IF t =< z THEN t ELSE z) =< y
      BY <1>3, <1>5, <2>2
    <3> QED BY <1>3, <2>2, <3>1 DEF HasMin
  <2> QED BY <1>5, <2>3, <2>4
<1> QED BY <1>2, <1>4, <1>6, <1>7

LEMMA MaxIs ==
  ASSUME NEW S, S \subseteq Nat, IsFiniteSet(S), S # {}
  PROVE  Max(S) \in S /\ \A y \in S : y <= Max(S)
BY FiniteHasMaxMin DEF HasMax, Max

LEMMA MinIs ==
  ASSUME NEW S, S \subseteq Nat, IsFiniteSet(S), S # {}
  PROVE  Min(S) \in S /\ \A y \in S : Min(S) <= y
BY FiniteHasMaxMin DEF HasMin, Min

----------------------------------------------------------------------------
(* The inductive invariant.                                                *)

\* The histories frame the store; ids of a page exist only while it is read.
HistoryOK ==
  /\ always \subseteq live /\ live \subseteq ever
  /\ page \subseteq ever /\ (pc # "read" => page = {})

\* What is listed is in order and before all that is still to come; a cursor
\* that is sent on is later than the last.
OrderOK ==
  /\ \A i, j \in DOMAIN out : i < j => out[i] < out[j]
  /\ Listed \subseteq ever
  /\ pc \in {"call", "scan"} => \A x \in Listed : x <= cursor
  /\ pc = "read" =>
       /\ \A x \in Listed, y \in page : x < y
       /\ nextCursor # 0 =>
            nextCursor > cursor /\ \A x \in Listed \cup page : x <= nextCursor
  /\ pc # "stuck"

\* What was stored all the while is listed, up to the cursor; with the page,
\* up to the next cursor.
Covered ==
  /\ pc \in {"call", "scan"} => \A x \in always : x <= cursor => x \in Listed
  /\ pc = "read" => \A x \in always :
                      nextCursor = 0 \/ x <= nextCursor => x \in Listed \cup page
  /\ pc = "done" => always \subseteq Listed

\* The heap holds the first of the ids visited so far.
ScanOK ==
  pc = "scan" => todo \subseteq live /\ IsFirst(cands, Later(live) \ todo, Limit + 1)

ListInv == ListTypeOK /\ HistoryOK /\ OrderOK /\ ScanOK /\ (~ReadErrors => Covered)

LEMMA SetsAreFinite ==
  ASSUME NEW S, S \subseteq ID
  PROVE  S \subseteq Nat \ {0} /\ IsFiniteSet(S) /\ Cardinality(S) \in Nat
BY ListAssumption, FS_Subset, FS_CardinalityType

----------------------------------------------------------------------------
\* topK of the heap: if S is the first n of ids, what Keep makes of it is the
\* first n of ids and one more.
LEMMA KeepIsFirst ==
  ASSUME NEW ids, ids \subseteq ID, NEW S, NEW n \in Nat \ {0}, NEW id \in ID,
         id \notin ids, IsFirst(S, ids, n)
  PROVE  IsFirst(Keep(S, id, n), ids \cup {id}, n)
<1>1. S \subseteq Nat /\ IsFiniteSet(S) /\ Cardinality(S) \in Nat
  BY SetsAreFinite DEF IsFirst
<1>2. id \in Nat /\ ids \subseteq Nat /\ id \notin S
  BY SetsAreFinite DEF IsFirst
<1>3. Cardinality(S \cup {id}) = Cardinality(S) + 1
  BY <1>1, <1>2, FS_AddElement
<1>4. CASE Cardinality(S) < n
  BY <1>1, <1>3, <1>4 DEF Keep, IsFirst
<1>5. CASE Cardinality(S) = n
  <2>1. S # {}
    BY <1>5, FS_EmptySet
  <2>2. PICK m \in Nat : m = Max(S) /\ m \in S /\ \A y \in S : y <= m
    BY <1>1, <2>1, MaxIs
  <2>3. Cardinality((S \ {m}) \cup {id}) = n
    <3>1. IsFiniteSet(S \ {m}) /\ Cardinality(S \ {m}) = n - 1
      BY <1>1, <1>5, <2>2, FS_RemoveElement
    <3>2. id \notin S \ {m}
      BY <1>2
    <3>3. Cardinality((S \ {m}) \cup {id}) = Cardinality(S \ {m}) + 1
      BY <3>1, <3>2, FS_AddElement
    <3> QED BY <3>1, <3>3
  <2>4. CASE id < m
    <3>1. Keep(S, id, n) = (S \ {m}) \cup {id}
      BY <1>5, <2>2, <2>4 DEF Keep
    <3>2. (S \ {m}) \cup {id} \subseteq ids \cup {id}
      BY DEF IsFirst
    <3>3. ASSUME NEW x \in (ids \cup {id}) \ ((S \ {m}) \cup {id}),
                 NEW y \in (S \ {m}) \cup {id}
          PROVE  y < x
      <4>1. y < m
        BY <1>1, <1>2, <2>2, <2>4
      <4>2. x = m \/ (x \in ids \ S /\ m < x)
        BY <2>2 DEF IsFirst
      <4> QED BY <1>1, <1>2, <2>2, <4>1, <4>2
    <3> QED BY <2>3, <3>1, <3>2, <3>3 DEF IsFirst
  <2>5. CASE ~(id < m)
    <3>1. Keep(S, id, n) = S
      BY <1>5, <2>2, <2>5 DEF Keep
    <3>2. \A y \in S : y < id
      BY <1>1, <1>2, <2>2, <2>5
    <3> QED BY <1>5, <3>1, <3>2 DEF IsFirst
  <2> QED BY <2>4, <2>5
<1> QED BY <1>1, <1>4, <1>5 DEF IsFirst

\* What Selected makes of the first ids after the cursor: the page is some of
\* them, in order; the next cursor is its last; and with no next cursor there
\* are no others.
LEMMA SelectedIs ==
  ASSUME NEW S, NEW ids, ids \subseteq ID, IsFirst(S, ids, Limit + 1), Selected(S)
  PROVE  /\ pc' = "read" /\ page' \subseteq ids
         /\ nextCursor' \in page' \cup {0}
         /\ \A x \in ids : nextCursor' = 0 \/ x <= nextCursor' => x \in page'
         /\ nextCursor' # 0 => \A x \in page' : x <= nextCursor'
<1>1. S \subseteq Nat \ {0} /\ IsFiniteSet(S) /\ Cardinality(S) \in Nat /\ ids \subseteq Nat
  BY SetsAreFinite DEF IsFirst
<1>2. CASE Cardinality(S) > Limit
  <2>1. S # {}
    BY <1>2, FS_EmptySet, ListAssumption
  <2>2. PICK m \in Nat : m = Max(S) /\ m \in S /\ \A y \in S : y <= m
    BY <1>1, <2>1, MaxIs
  <2> DEFINE P == S \ {m}
  <2>3. IsFiniteSet(P) /\ Cardinality(P) = Cardinality(S) - 1
    BY <1>1, <2>2, FS_RemoveElement
  <2>4. P # {}
    BY <1>1, <1>2, <2>3, FS_EmptySet, ListAssumption
  <2>5. PICK k \in Nat : k = Max(P) /\ k \in P /\ \A y \in P : y <= k
    <3> HIDE DEF P
    <3> QED BY <1>1, <2>3, <2>4, MaxIs DEF P
  <2>6. page' = P /\ nextCursor' = k /\ pc' = "read"
    BY <1>2, <2>2, <2>5 DEF Selected
  <2>7. ASSUME NEW x \in ids, x <= k
        PROVE  x \in P
    <3>1. x \in S
      BY <1>1, <2>5, <2>7 DEF IsFirst
    <3> QED BY <1>1, <2>2, <2>5, <2>7, <3>1
  <2>8. P \subseteq ids /\ k # 0
    BY <1>1, <2>5 DEF IsFirst
  <2> HIDE DEF P
  <2> QED BY <2>5, <2>6, <2>7, <2>8
<1>3. CASE ~(Cardinality(S) > Limit)
  <2>1. S = ids
    BY <1>1, <1>3, ListAssumption DEF IsFirst
  <2> QED BY <1>3, <2>1 DEF Selected
<1> QED BY <1>2, <1>3

----------------------------------------------------------------------------
(* Each step keeps the invariant.                                          *)

LEMMA NumbersTyped ==
  ASSUME ListTypeOK
  PROVE  /\ cursor \in Nat /\ nextCursor \in Nat /\ page \subseteq Nat
         /\ Listed \subseteq Nat /\ Len(out) \in Nat /\ DOMAIN out = 1 .. Len(out)
<1>1. out \in Seq(ID) /\ ID \subseteq Nat
  BY ListAssumption DEF ListTypeOK
<1>2. \A i \in DOMAIN out : out[i] \in ID
  BY <1>1
<1>3. Listed \subseteq Nat
  BY <1>1, <1>2 DEF Listed
<1> QED BY <1>1, <1>3, ListAssumption DEF ListTypeOK

LEMMA InitListInv == Init => ListInv
<1> SUFFICES ASSUME Init PROVE ListInv
  OBVIOUS
<1>1. out = <<>> /\ Listed = {}
  BY DEF Init, Listed
<1>2. ListTypeOK
  <2>1. out \in Seq(ID)
    BY <1>1
  <2>2. idsOnly \in BOOLEAN
    BY Zenon DEF Init
  <2> QED BY <2>1, <2>2 DEF Init, ListTypeOK
<1>3. HistoryOK /\ ScanOK /\ Covered
  BY DEF Init, HistoryOK, ScanOK, Covered
<1>4. OrderOK
  <2>1. DOMAIN out = {}
    BY <1>1
  <2> QED BY <1>1, <2>1 DEF Init, OrderOK
<1> QED BY <1>2, <1>3, <1>4 DEF ListInv

\* The page that is selected from the ids after the cursor.
LEMMA SelectListInv ==
  ASSUME ListInv, pc \in {"call", "scan"}, NEW S,
         IsFirst(S, Later(live), Limit + 1), Selected(S),
         UNCHANGED <<live, cursor, idsOnly, out, always, ever>>,
         todo' \subseteq ID, cands' \subseteq ID
  PROVE  ListInv'
<1>1. Later(live) \subseteq ID /\ Later(live) \subseteq live /\ live \subseteq Nat \ {0}
  BY SetsAreFinite DEF Later, ListInv, ListTypeOK
<1>2. /\ pc' = "read" /\ page' \subseteq Later(live)
      /\ nextCursor' \in page' \cup {0}
      /\ \A x \in Later(live) : nextCursor' = 0 \/ x <= nextCursor' => x \in page'
      /\ nextCursor' # 0 => \A x \in page' : x <= nextCursor'
  BY <1>1, SelectedIs
<1>3. Listed' = Listed
  BY DEF Listed
<1>4. cursor \in Nat /\ Listed \subseteq Nat /\ page' \subseteq Nat
  BY <1>1, <1>2, NumbersTyped DEF ListInv
<1>5. ListTypeOK'
  BY <1>1, <1>2 DEF ListInv, ListTypeOK
<1>6. HistoryOK'
  BY <1>1, <1>2 DEF ListInv, HistoryOK
<1>7. OrderOK'
  <2>1. \A x \in Listed : x <= cursor
    BY DEF ListInv, OrderOK
  <2>2. \A y \in page' : cursor < y
    BY <1>2 DEF Later
  <2>3. \A x \in Listed, y \in page' : x < y
    BY <1>4, <2>1, <2>2
  <2>4. nextCursor' # 0 => nextCursor' > cursor /\ \A x \in Listed \cup page' : x <= nextCursor'
    BY <1>2, <1>4, <2>1, <2>2, <2>3
  <2> QED BY <1>2, <1>3, <2>3, <2>4 DEF ListInv, OrderOK
<1>8. ScanOK'
  BY <1>2 DEF ScanOK
<1>9. ASSUME ~ReadErrors PROVE Covered'
  <2>1. ASSUME NEW x \in always, nextCursor' = 0 \/ x <= nextCursor'
        PROVE  x \in Listed \cup page'
    <3>1. x \in live /\ x \in Nat
      BY <1>1 DEF ListInv, HistoryOK
    <3>2. CASE x <= cursor
      BY <1>9, <3>2 DEF ListInv, Covered
    <3>3. CASE x > cursor
      BY <1>2, <2>1, <3>1, <3>3 DEF Later
    <3> QED BY <1>4, <3>1, <3>2, <3>3
  <2> QED BY <1>2, <1>3, <2>1 DEF Covered
<1> QED BY <1>5, <1>6, <1>7, <1>8, <1>9 DEF ListInv

LEMMA ScanOneListInv ==
  ASSUME ListInv, NEW id \in ID, ScanOne(id)
  PROVE  ListInv'
<1> DEFINE ids == Later(live) \ todo
<1>1. /\ pc = "scan" /\ id \in todo /\ todo \subseteq live /\ live \subseteq ID
      /\ IsFirst(cands, ids, Limit + 1)
  BY DEF ScanOne, ListInv, ScanOK, ListTypeOK
<1>2. Limit + 1 \in Nat \ {0}
  BY ListAssumption
<1>3. IsFirst(cands', Later(live) \ todo', Limit + 1)
  <2>1. CASE id \in Later(live)
    <3>1. Later(live) \ todo' = ids \cup {id}
      BY <1>1, <2>1 DEF ScanOne
    <3>2. ids \subseteq ID /\ id \notin ids
      BY <1>1 DEF Later
    <3>3. cands' = Keep(cands, id, Limit + 1)
      BY <2>1 DEF ScanOne
    <3> HIDE DEF ids
    <3> QED BY <1>1, <1>2, <3>1, <3>2, <3>3, KeepIsFirst
  <2>2. CASE id \notin Later(live)
    <3>1. Later(live) \ todo' = ids /\ cands' = cands
      BY <2>2 DEF ScanOne
    <3> QED BY <1>1, <3>1
  <2> QED BY <2>1, <2>2
<1>4. cands' \subseteq live /\ todo' \subseteq live
  BY <1>1, <1>3 DEF IsFirst, Later, ScanOne
<1>5. Later(live)' = Later(live) /\ Listed' = Listed
  BY DEF ScanOne, Later, Listed
<1>6. ListTypeOK' /\ HistoryOK'
  BY <1>1, <1>4 DEF ScanOne, ListInv, ListTypeOK, HistoryOK
<1>7. OrderOK' /\ (~ReadErrors => Covered')
  BY <1>1, <1>5 DEF ScanOne, ListInv, OrderOK, Covered
<1>8. ScanOK'
  BY <1>3, <1>4, <1>5 DEF ScanOne, ScanOK, Later
<1> QED BY <1>6, <1>7, <1>8 DEF ListInv

\* One id of the page is listed, or left out because it is gone.
LEMMA ReadOneListInv ==
  ASSUME ListInv, ReadOne
  PROVE  ListInv'
<1>1. page \subseteq ID /\ page # {} /\ out \in Seq(ID) /\ pc = "read" /\ page \subseteq ever
  BY DEF ReadOne, ListInv, ListTypeOK, HistoryOK
<1>2. PICK m \in Nat : m = Min(page) /\ m \in page /\ \A y \in page : m <= y
  BY <1>1, SetsAreFinite, MinIs
<1>3. page' = page \ {m}
  BY <1>2 DEF ReadOne
<1>4. page \subseteq Nat /\ Listed \subseteq Nat /\ nextCursor \in Nat /\ Len(out) \in Nat
  BY NumbersTyped DEF ListInv
<1>5. UNCHANGED <<live, pc, cursor, idsOnly, todo, cands, nextCursor, always, ever>>
  BY DEF ReadOne
<1>6. CASE out' = Append(out, m)
  <2>1. out' \in Seq(ID) /\ Len(out') = Len(out) + 1 /\ DOMAIN out' = 1 .. Len(out) + 1
        /\ DOMAIN out = 1 .. Len(out) /\ out'[Len(out) + 1] = m
        /\ \A i \in DOMAIN out : out'[i] = out[i]
    BY <1>1, <1>2, <1>4, <1>6
  <2>2. Listed' = Listed \cup {m}
    BY <1>4, <2>1 DEF Listed
  <2>3. \A i, j \in DOMAIN out' : i < j => out'[i] < out'[j]
    <3> SUFFICES ASSUME NEW i \in DOMAIN out', NEW j \in DOMAIN out', i < j
                 PROVE  out'[i] < out'[j]
      OBVIOUS
    <3>1. i \in DOMAIN out /\ out'[i] = out[i]
      BY <1>4, <2>1
    <3>2. CASE j \in DOMAIN out
      BY <2>1, <3>1, <3>2 DEF ListInv, OrderOK
    <3>3. CASE j = Len(out) + 1
      BY <1>1, <1>2, <2>1, <3>1, <3>3 DEF ListInv, OrderOK, Listed
    <3> QED BY <1>4, <2>1, <3>2, <3>3
  <2>4. OrderOK'
    <3>1. \A x \in Listed, y \in page : x < y
      BY <1>1 DEF ListInv, OrderOK
    <3>2. \A x \in Listed', y \in page' : x < y
      BY <1>2, <1>3, <1>4, <2>2, <3>1
    <3>3. Listed' \subseteq ever /\ Listed' \cup page' \subseteq Listed \cup page
      BY <1>1, <1>2, <1>3, <2>2 DEF ListInv, OrderOK
    <3> QED BY <1>1, <1>5, <2>3, <3>2, <3>3 DEF ListInv, OrderOK
  <2>5. ListTypeOK' /\ HistoryOK' /\ ScanOK'
    BY <1>1, <1>3, <1>5, <2>1 DEF ListInv, ListTypeOK, HistoryOK, ScanOK
  <2>6. ~ReadErrors => Covered'
    BY <1>1, <1>3, <1>5, <2>2 DEF ListInv, Covered
  <2> QED BY <2>4, <2>5, <2>6 DEF ListInv
<1>7. CASE out' = out /\ (ReadErrors \/ m \notin live)
  <2>1. Listed' = Listed
    BY <1>7 DEF Listed
  <2>2. OrderOK'
    BY <1>1, <1>3, <1>5, <1>7, <2>1 DEF ListInv, OrderOK
  <2>3. ListTypeOK' /\ HistoryOK' /\ ScanOK'
    BY <1>1, <1>3, <1>5, <1>7 DEF ListInv, ListTypeOK, HistoryOK, ScanOK
  <2>4. ~ReadErrors => Covered'
    BY <1>1, <1>3, <1>5, <1>7, <2>1 DEF ListInv, Covered, HistoryOK
  <2> QED BY <2>2, <2>3, <2>4 DEF ListInv
<1> QED BY <1>2, <1>6, <1>7 DEF ReadOne

\* The client takes the page and goes on after its last id.
LEMMA ReturnPageListInv ==
  ASSUME ListInv, ReturnPage
  PROVE  ListInv'
<1>1. /\ pc = "read" /\ page = {} /\ cursor \in Nat /\ nextCursor \in Nat
      /\ UNCHANGED <<live, idsOnly, out, todo, cands, page, nextCursor, always, ever>>
  BY NumbersTyped DEF ReturnPage, ListInv
<1>2. Listed' = Listed
  BY <1>1 DEF Listed
<1>3. CASE nextCursor = 0
  <2>1. pc' = "done" /\ cursor' = cursor
    BY <1>3 DEF ReturnPage
  <2> QED BY <1>1, <1>2, <1>3, <2>1
          DEF ListInv, ListTypeOK, HistoryOK, OrderOK, ScanOK, Covered
<1>4. CASE nextCursor # 0
  <2>1. nextCursor > cursor
    BY <1>1, <1>4 DEF ListInv, OrderOK
  <2>2. pc' = "call" /\ cursor' = nextCursor
    BY <1>1, <1>4, <2>1 DEF ReturnPage
  <2> QED BY <1>1, <1>2, <1>4, <2>2
          DEF ListInv, ListTypeOK, HistoryOK, OrderOK, ScanOK, Covered
<1> QED BY <1>3, <1>4

\* A listing begins.
LEMMA ListVectorsListInv ==
  ASSUME ListInv, NEW only \in BOOLEAN, ListVectors(only)
  PROVE  ListInv'
<1>1. out' = <<>> /\ Listed' = {}
  BY DEF ListVectors, Listed
<1>2. ListTypeOK' /\ HistoryOK' /\ OrderOK' /\ ScanOK'
  BY <1>1 DEF ListVectors, ListInv, ListTypeOK, HistoryOK, OrderOK, ScanOK
<1>3. Covered'
  <2>1. live \subseteq Nat \ {0}
    BY SetsAreFinite DEF ListInv, ListTypeOK
  <2> QED BY <1>1, <2>1 DEF ListVectors, Covered
<1> QED BY <1>2, <1>3 DEF ListInv

\* Others write; a call that began a scan waits.
LEMMA OthersListInv ==
  ASSUME ListInv, NEW id \in ID, Add(id) \/ Delete(id)
  PROVE  ListInv'
<1>1. Listed' = Listed
  BY DEF Add, Delete, clientVars, Listed
<1>2. ListTypeOK' /\ HistoryOK'
  BY DEF Add, Delete, clientVars, ListInv, ListTypeOK, HistoryOK
<1>3. OrderOK' /\ ScanOK'
  BY <1>1 DEF Add, Delete, clientVars, ListInv, OrderOK, ScanOK
<1>4. ~ReadErrors => Covered'
  BY <1>1 DEF Add, Delete, clientVars, ListInv, Covered
<1> QED BY <1>2, <1>3, <1>4 DEF ListInv

LEMMA ScanBeginListInv ==
  ASSUME ListInv, ScanBegin
  PROVE  ListInv'
<1>1. Listed' = Listed
  BY DEF ScanBegin, Listed
<1>2. ListTypeOK' /\ HistoryOK' /\ OrderOK' /\ (~ReadErrors => Covered')
  BY <1>1 DEF ScanBegin, ListInv, ListTypeOK, HistoryOK, OrderOK, Covered
<1>3. IsFirst({}, {}, Limit + 1)
  BY FS_EmptySet, ListAssumption DEF IsFirst
<1>4. Later(live)' \ todo' = {} /\ cands' = {} /\ todo' \subseteq live'
  BY DEF ScanBegin, Later
<1> QED BY <1>2, <1>3, <1>4 DEF ListInv, ScanOK

LEMMA NextListInv == ListInv /\ [Next]_vars => ListInv'
<1> SUFFICES ASSUME ListInv, [Next]_vars PROVE ListInv'
  OBVIOUS
<1>1. CASE \E id \in ID : Add(id) \/ Delete(id)
  BY <1>1, OthersListInv
<1>2. CASE \E only \in BOOLEAN : ListVectors(only)
  BY <1>2, ListVectorsListInv
<1>3. CASE PageAfter
  BY <1>3, SelectListInv DEF PageAfter, ListInv, ListTypeOK
<1>4. CASE ScanBegin
  BY <1>4, ScanBeginListInv
<1>5. CASE \E id \in ID : ScanOne(id)
  BY <1>5, ScanOneListInv
<1>6. CASE ScanDone
  <2>1. IsFirst(cands, Later(live), Limit + 1)
    BY <1>6 DEF ScanDone, ListInv, ScanOK
  <2> QED BY <1>6, <2>1, SelectListInv DEF ScanDone, ListInv, ListTypeOK
<1>7. CASE ReadOne
  BY <1>7, ReadOneListInv
<1>8. CASE ReturnPage
  BY <1>8, ReturnPageListInv
<1>9. CASE Finish
  <2>1. Listed' = Listed
    BY <1>9 DEF Finish, Listed
  <2> QED BY <1>9, <2>1
          DEF Finish, ListInv, ListTypeOK, HistoryOK, OrderOK, ScanOK, Covered
<1>10. CASE UNCHANGED vars
  <2>1. Listed' = Listed /\ Later(live)' = Later(live)
    BY <1>10 DEF vars, Listed, Later
  <2> QED BY <1>10, <2>1
          DEF vars, ListInv, ListTypeOK, HistoryOK, OrderOK, ScanOK, Covered
<1> QED BY <1>1, <1>2, <1>3, <1>4, <1>5, <1>6, <1>7, <1>8, <1>9, <1>10
        DEF Next, Step, ListVectorsPage

----------------------------------------------------------------------------
THEOREM ListInvHolds == Spec => []ListInv
<1> QED BY InitListInv, NextListInv, PTL DEF Spec

\* ListVectorsPage and the client's loop: a finished listing holds every vector
\* that was stored all the while.
THEOREM ListingIsComplete == Spec => []ListedComplete
<1>1. ListInv => ListedComplete
  BY DEF ListInv, Covered, ListedComplete
<1> QED BY <1>1, ListInvHolds, PTL

\* A listing is in order, without repetition, and of vectors that existed.
THEOREM ListingIsInOrder == Spec => []ListedOnceInOrder
<1>1. ListInv => ListedOnceInOrder
  BY DEF ListInv, OrderOK, ListedOnceInOrder
<1> QED BY <1>1, ListInvHolds, PTL

\* selectPageIDsFromRange selects what orderedIDIndex.PageAfter would.
THEOREM ScanIsExact == Spec => []ScanFindsFirst
<1>1. ListInv => ScanFindsFirst
  BY DEF ListInv, ScanOK, ScanFindsFirst
<1> QED BY <1>1, ListInvHolds, PTL

\* The client's check that the cursor advances never fails.
THEOREM CursorAdvances == Spec => [](pc # "stuck")
<1>1. ListInv => pc # "stuck"
  BY DEF ListInv, OrderOK
<1> QED BY <1>1, ListInvHolds, PTL
============================================================================
