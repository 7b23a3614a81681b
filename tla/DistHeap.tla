------------------------------ MODULE DistHeap ------------------------------
(***************************************************************************)
(* The binary heaps that keep the best results of a search: minDistHeap    *)
(* and maxDistHeap of internal/index/ann/ann_index.go, and the max-heap of *)
(* topKAccumulator in internal/core/service.go, which repeats the second.  *)
(* A heap is a sequence of [id, distance] records.  sign is 1 for a heap   *)
(* with the smallest distance on top and -1 for one with the largest.      *)
(***************************************************************************)
EXTENDS Integers, Sequences, SequencesExt

Swap(h, i, j) == [h EXCEPT ![i] = h[j], ![j] = h[i]]
Above(sign, x, y) == sign * x.distance < sign * y.distance

\* One round of upMin / upMax; s is <<heap, position of the moving item>>.
UpStep(sign, s) ==
  LET h == s[1]  j == s[2]  parent == j \div 2
  IN  IF j = 1 \/ ~Above(sign, h[j], h[parent]) THEN s
      ELSE <<Swap(h, j, parent), parent>>

\* One round of downMin / downMax.
DownStep(sign, s) ==
  LET h == s[1]  i == s[2]  left == 2 * i  right == left + 1
      child == IF right <= Len(h) /\ Above(sign, h[right], h[left]) THEN right ELSE left
  IN  IF left > Len(h) \/ ~Above(sign, h[child], h[i]) THEN s
      ELSE <<Swap(h, i, child), child>>

\* The loops end within as many rounds as the heap has items.
Up(sign, h) ==
  LET up[r \in 0 .. Len(h)] == IF r = 0 THEN <<h, Len(h)>> ELSE UpStep(sign, up[r - 1])
  IN  up[Len(h)][1]
Down(sign, h) ==
  LET down[r \in 0 .. Len(h)] == IF r = 0 THEN <<h, 1>> ELSE DownStep(sign, down[r - 1])
  IN  down[Len(h)][1]

Push(sign, h, x) == Up(sign, Append(h, x))
\* Mutant of ReplaceTop: the new top is not moved to its place.
ReplaceTopInPlace(sign, h, x) == [h EXCEPT ![1] = x]

ReplaceTop(sign, h, x) == Down(sign, [h EXCEPT ![1] = x])

\* Pop swaps the top with the last item and leaves that one out.
PopRest(sign, h) == Down(sign, Front(Swap(h, 1, Len(h))))

\* The items in the order in which Pop returns them.
PopAll(sign, h) ==
  LET left[r \in 0 .. Len(h)] == IF r = 0 THEN h ELSE PopRest(sign, left[r - 1])
  IN  [i \in 1 .. Len(h) |-> left[i - 1][1]]
=============================================================================
