--------------------------- MODULE PriorityQueue ---------------------------
(***************************************************************************)
(* std::priority_queue as dyn_a_star uses it: a binary heap of elements    *)
(* whose keys live outside the queue and may change while an element sits  *)
(* in it.  Nothing here restores the order when that happens.  A heap is a *)
(* sequence whose element i has the children 2i and 2i+1; key[e] is what   *)
(* the comparator reads, the smallest on top.                              *)
(*                                                                         *)
(* A sift moves a hole, a position whose element is held aside, through    *)
(* the sequence: one turn of its loop per argument of a recursive function.*)
(***************************************************************************)
EXTENDS Naturals, Sequences

\* The hole goes to position i, whose element fills it.
HoleTo(was, i) == [heap |-> [was.heap EXCEPT ![was.hole] = was.heap[i]], hole |-> i]

\* The hole at i moves up as long as v belongs above its parent.
SiftUp(h, i, v, key) ==
  LET up[k \in 0 .. i] ==
        IF k = 0 THEN [heap |-> h, hole |-> i]
        ELSE LET was == up[k - 1]
                 above == was.hole \div 2
             IN  IF was.hole > 1 /\ key[was.heap[above]] > key[v] THEN HoleTo(was, above) ELSE was
  IN  [up[i].heap EXCEPT ![up[i].hole] = v]

PushHeap(h, v, key) == SiftUp(Append(h, v), Len(h) + 1, v, key)

\* The hole at the top moves down to a leaf along the smaller child, the right
\* one when they are equal, and v rises from there.
SiftDown(h, v, key) ==
  LET down[k \in 0 .. Len(h)] ==
        IF k = 0 THEN [heap |-> h, hole |-> 1]
        ELSE LET was == down[k - 1]
                 left == 2 * was.hole
                 child == IF left = Len(h) \/ key[was.heap[left + 1]] > key[was.heap[left]]
                          THEN left ELSE left + 1
             IN  IF left > Len(h) THEN was ELSE HoleTo(was, child)
      leaf == down[Len(h)]
  IN  SiftUp(leaf.heap, leaf.hole, v, key)

TopOf(h) == h[1]

\* Mutant: pop_heap without pop_back, the old top stays at the back.
PopHeap_KeepsBack(h, key) ==
  LET rest == SubSeq(h, 1, Len(h) - 1)
  IN  IF rest = <<>> THEN h ELSE Append(SiftDown(rest, h[Len(h)], key), h[1])

PopHeap(h, key) ==
  LET rest == SubSeq(h, 1, Len(h) - 1)
  IN  IF rest = <<>> THEN rest ELSE SiftDown(rest, h[Len(h)], key)
=============================================================================
