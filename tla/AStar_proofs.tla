---------------------------- MODULE AStar_proofs ----------------------------
(***************************************************************************)
(* BestFirst first, for every grid and every order in which open nodes are *)
(* taken: the parents form a tree over free nodes that hangs on the start, *)
(* and a failure is a cut between start and goal.                          *)
(*                                                                         *)
(* Then AStar, for every size of the pool, every map and any number of     *)
(* searches: its loops and its heap, of which only the set of elements is  *)
(* claimed and never an order; the inductive invariant SearchInv; the path *)
(* and the failure it reports; and that it implements BestFirst.           *)
(***************************************************************************)
EXTENDS AStar, BestFirst, SequenceTheorems, WellFoundedInduction, TLAPS
-----------------------------------------------------------------------------
\* A search is or was under way.
Running == status \in {"searching", "found", "none", "late"}

\* No free inner neighbour of an expanded node has been passed over, and the
\* start stays known while the goal is never expanded.
Frontier ==
  /\ \A e \in Edges : e[1] \in closed /\ e[2] \in Interior \cap free => e[2] \in Known
  /\ Running => start \in Known
  /\ goal \notin closed
  /\ status = "none" => open = {}

IInv == SearchTypeOK /\ TreeSound /\ Frontier

\* The two ways an expansion reaches a node, and what they leave alone.
LEMMA ReachedNodes ==
  ASSUME IsGrid, SearchTypeOK, NEW n \in open
  PROVE  /\ Found(n) \subseteq Vertices /\ Found(n) \cap Known = {}
         /\ Found(n) \subseteq free
         /\ Shortened(n) \subseteq open \ {n}
         /\ \A m \in Found(n) \cup Shortened(n) :
              <<n, m>> \in Edges /\ Cost[<<n, m>>] \in Nat /\ m # n
         /\ n \in Vertices /\ score[n] \in Nat
  BY DEF IsGrid, SearchTypeOK, Found, Shortened, Known

\* The invariant holds before the first search.
LEMMA InitInv == ASSUME IsGrid, SearchInit PROVE IInv
  BY DEF IsGrid, SearchInit, IInv, SearchTypeOK, TreeSound, Frontier, Known, Running

\* Every step of a search keeps the types (AstarSearch).
LEMMA TypeStep ==
  ASSUME IsGrid, IInv, [SearchNext]_searchVars
  PROVE  SearchTypeOK'
<1> USE DEF IInv, SearchTypeOK
<1>1. CASE Begin
  BY <1>1 DEF Begin, IsGrid
<1>2. CASE Refuse
  BY <1>2 DEF Refuse, IsGrid
<1>3. ASSUME NEW n \in Vertices, Expand(n) PROVE SearchTypeOK'
  <2>1. n \in open BY <1>3 DEF Expand
  <2> DEFINE reached == Found(n) \cup Shortened(n)
  <2>2. reached \subseteq Vertices /\ \A m \in reached : score[n] + Cost[<<n, m>>] \in Nat
    BY <2>1, ReachedNodes
  <2>3. /\ open' = (open \ {n}) \cup Found(n) /\ closed' = closed \cup {n}
        /\ parent' = [m \in Vertices |-> IF m \in reached THEN n ELSE parent[m]]
        /\ score' = [m \in Vertices |->
                       IF m \in reached THEN score[n] + Cost[<<n, m>>] ELSE score[m]]
        /\ status' \in {"searching", "late"} /\ UNCHANGED <<free, start, goal>>
    BY <1>3 DEF Expand
  <2>4. open' \subseteq Vertices /\ closed' \subseteq Vertices /\ open' \cap closed' = {}
    BY <2>1, <2>3, ReachedNodes DEF Known
  <2> HIDE DEF reached
  <2>5. parent' \in [Vertices -> Vertices \cup {NoVertex}]
    BY <2>3
  <2>6. score' \in [Vertices -> Nat]
    BY <2>2, <2>3
  <2> QED BY <2>3, <2>4, <2>5, <2>6
<1>4. CASE Reach
  BY <1>4 DEF Reach
<1>5. CASE Exhaust
  BY <1>5 DEF Exhaust
<1>6. CASE UNCHANGED searchVars
  BY <1>6 DEF searchVars
<1> QED BY <1>1, <1>2, <1>3, <1>4, <1>5, <1>6 DEF SearchNext

\* Every step keeps the tree sound: reached nodes hang on the expanded one.
LEMMA TreeStep ==
  ASSUME IsGrid, IInv, [SearchNext]_searchVars
  PROVE  TreeSound'
<1> USE DEF IInv
<1>1. CASE Begin
  BY <1>1 DEF Begin, IsGrid, TreeSound, Known
<1>2. CASE Refuse
  BY <1>2 DEF Refuse, TreeSound, Known
<1>3. ASSUME NEW n \in Vertices, Expand(n) PROVE TreeSound'
  <2>1. n \in open BY <1>3 DEF Expand
  <2> DEFINE reached == Found(n) \cup Shortened(n)
  <2>2. /\ open' = (open \ {n}) \cup Found(n) /\ closed' = closed \cup {n}
        /\ parent' = [m \in Vertices |-> IF m \in reached THEN n ELSE parent[m]]
        /\ score' = [m \in Vertices |->
                       IF m \in reached THEN score[n] + Cost[<<n, m>>] ELSE score[m]]
        /\ UNCHANGED <<free, start, goal>>
    BY <1>3 DEF Expand
  <2>3. /\ reached \subseteq Vertices /\ reached \cap (closed \cup {n}) = {}
        /\ reached \subseteq free
    BY <2>1, ReachedNodes DEF SearchTypeOK, Known, TreeSound
  <2>4. \A p \in closed' : p \in Vertices /\ score'[p] = score[p]
    BY <2>1, <2>2, <2>3 DEF SearchTypeOK
  <2>5. start \notin reached
    <3>1. start \notin Found(n) BY <2>1, ReachedNodes, <1>3 DEF Frontier, Running, Expand
    <3>2. start \in open => score[start] = 0 BY DEF TreeSound, Known
    <3>3. start \notin Shortened(n)
      BY <3>2, <2>1, ReachedNodes DEF Shortened
    <3> QED BY <3>1, <3>3
  <2>6. SUFFICES ASSUME NEW m \in Known' PROVE
          /\ m \in free
          /\ IF m = start THEN parent'[m] = NoVertex /\ score'[m] = 0
             ELSE /\ parent'[m] \in closed' /\ <<parent'[m], m>> \in Edges
                  /\ score'[m] = score'[parent'[m]] + Cost[<<parent'[m], m>>]
    BY <2>2 DEF TreeSound
  <2>7. CASE m \in reached
    <3>1. m \in Vertices /\ <<n, m>> \in Edges BY <2>1, <2>7, ReachedNodes
    <3>2. parent'[m] = n /\ score'[m] = score[n] + Cost[<<n, m>>]
      BY <2>2, <2>7, <3>1
    <3> QED BY <2>2, <2>3, <2>4, <2>5, <2>7, <3>1, <3>2
  <2>8. CASE m \notin reached
    <3>1. m \in Known /\ m \in Vertices
      BY <2>1, <2>2, <2>8 DEF Known, SearchTypeOK
    <3>2. parent'[m] = parent[m] /\ score'[m] = score[m]
      BY <2>2, <2>8, <3>1
    <3>3. parent[m] \in closed => score'[parent[m]] = score[parent[m]]
      BY <2>2, <2>4
    <3> QED BY <2>2, <3>1, <3>2, <3>3 DEF TreeSound
  <2> QED BY <2>7, <2>8
<1>4. CASE Reach
  BY <1>4 DEF Reach, TreeSound, Known
<1>5. CASE Exhaust
  BY <1>5 DEF Exhaust, TreeSound, Known
<1>6. CASE UNCHANGED searchVars
  BY <1>6 DEF searchVars, TreeSound, Known
<1> QED BY <1>1, <1>2, <1>3, <1>4, <1>5, <1>6 DEF SearchNext

\* Every step keeps the frontier: no free neighbour of a closed node is forgotten.
LEMMA FrontierStep ==
  ASSUME IsGrid, IInv, [SearchNext]_searchVars
  PROVE  Frontier'
<1> USE DEF IInv
<1>1. CASE Begin
  BY <1>1 DEF Begin, Frontier, Known, Running
<1>2. CASE Refuse
  BY <1>2 DEF Refuse, Frontier, Known, Running
<1>3. ASSUME NEW n \in Vertices, Expand(n) PROVE Frontier'
  <2>1. n \in open /\ n # goal BY <1>3 DEF Expand
  <2>2. /\ open' = (open \ {n}) \cup Found(n) /\ closed' = closed \cup {n}
        /\ status' \in {"searching", "late"} /\ status = "searching"
        /\ UNCHANGED <<free, start, goal>>
    BY <1>3 DEF Expand
  <2>3. Known' = Known \cup Found(n)
    BY <2>1, <2>2 DEF Known
  <2>4. ASSUME NEW e \in Edges, e[1] \in closed', e[2] \in Interior \cap free
        PROVE  e[2] \in Known'
    <3>1. CASE e[1] \in closed BY <2>3, <2>4, <3>1 DEF Frontier
    <3>2. CASE e[1] = n
      <4>1. e = <<n, e[2]>> BY <2>4, <3>2 DEF IsGrid
      <4> QED BY <2>3, <2>4, <4>1 DEF Found
    <3> QED BY <2>2, <2>4, <3>1, <3>2
  <2> QED BY <2>1, <2>2, <2>3, <2>4 DEF Frontier, Running
<1>4. CASE Reach
  BY <1>4 DEF Reach, Frontier, Known, Running
<1>5. CASE Exhaust
  BY <1>5 DEF Exhaust, Frontier, Known, Running
<1>6. CASE UNCHANGED searchVars
  BY <1>6 DEF searchVars, Frontier, Known, Running
<1> QED BY <1>1, <1>2, <1>3, <1>4, <1>5, <1>6 DEF SearchNext

\* The invariant holds throughout every sequence of searches.
LEMMA Inductive == ASSUME IsGrid PROVE SearchSpec => []IInv
<1>1. SearchInit => IInv BY InitInv
<1>2. IInv /\ [SearchNext]_searchVars => IInv'
  BY TypeStep, TreeStep, FrontierStep DEF IInv
<1> QED BY <1>1, <1>2, PTL DEF SearchSpec

\* retrievePath from any known node, the goal among them, walks down a tree of
\* free nodes with falling scores to the start, in every search on every pool.
THEOREM TreeIsSound == ASSUME IsGrid PROVE SearchSpec => []TreeSound
<1>1. IInv => TreeSound BY DEF IInv
<1> QED BY <1>1, Inductive, PTL

\* A search that ends because the queue is empty has found a set of nodes that
\* separates the start from the goal: no path over free inner nodes exists.
THEOREM FailureIsACut == ASSUME IsGrid PROVE SearchSpec => []NoneMeansCut
<1>1. IInv => NoneMeansCut
  BY DEF IInv, Frontier, NoneMeansCut, Known, Running
<1> QED BY <1>1, Inductive, PTL
-----------------------------------------------------------------------------
\* What holds of 0, and of n + 1 when it holds of n, holds of every natural.
LEMMA Induction ==
  ASSUME NEW S, 0 \in S, \A n \in Nat : n \in S => n + 1 \in S
  PROVE  \A n \in Nat : n \in S
<1> DEFINE T == {n \in Nat : n \notin S}
<1>1. SUFFICES ASSUME T # {} PROVE FALSE
  OBVIOUS
<1>2. \E x \in T : \A y \in T : ~(<<y, x>> \in OpToRel(<, Nat))
  <2> HIDE DEF OpToRel, T
  <2>1. T \subseteq Nat
    BY DEF T
  <2> QED
    BY <1>1, <2>1, NatLessThanWellFounded, WFMin
<1>3. \A x, y \in T : y < x => <<y, x>> \in OpToRel(<, Nat)
  BY DEF OpToRel
<1>4. PICK x \in T : \A y \in T : ~(y < x)
  BY <1>2, <1>3
<1>5. x # 0 /\ x - 1 \in Nat /\ x - 1 < x
  BY <1>4
<1>6. x - 1 \in S
  BY <1>4, <1>5
<1>7. x \in S
  BY <1>5, <1>6, (x - 1) + 1 = x
<1> QED
  BY <1>4, <1>7

\* The turns of a loop take states of S to states of S; its history is the
\* states it runs through from x, turn by turn.
IsLoop(step, n, S) == step \in [S \X (1 .. n) -> S]
History(f, n, S, x, step) ==
  /\ f \in [0 .. n -> S] /\ f[0] = x
  /\ \A k \in 1 .. n : f[k] = step[<<f[k - 1], k>>]

\* Every loop of n turns has a history.
LEMMA Recursion ==
  ASSUME NEW n \in Nat, NEW S, NEW x \in S, NEW step, IsLoop(step, n, S)
  PROVE  \E f : History(f, n, S, x, step)
<1> USE DEF IsLoop
<1> DEFINE H(f, m) == /\ f \in [0 .. m -> S] /\ f[0] = x
                      /\ \A k \in 1 .. m : f[k] = step[<<f[k - 1], k>>]
           T == {m \in Nat : m <= n => \E f : H(f, m)}
<1>1. 0 \in T
  <2>1. H([k \in 0 .. 0 |-> x], 0)
    OBVIOUS
  <2> QED BY <2>1
<1>2. ASSUME NEW m \in Nat, m \in T PROVE m + 1 \in T
  <2>1. SUFFICES ASSUME m + 1 <= n PROVE \E f : H(f, m + 1)
    OBVIOUS
  <2>2. PICK f : H(f, m)
    BY <1>2, <2>1
  <2> DEFINE y == step[<<f[m], m + 1>>]
             g == [k \in 0 .. m + 1 |-> IF k = m + 1 THEN y ELSE f[k]]
  <2>3. f[m] \in S /\ y \in S
    BY <2>1, <2>2
  <2>4. g \in [0 .. m + 1 -> S] /\ g[0] = x
    BY <2>2, <2>3
  <2>5. ASSUME NEW k \in 1 .. m + 1 PROVE g[k] = step[<<g[k - 1], k>>]
    <3>1. k - 1 \in 0 .. m /\ g[k - 1] = f[k - 1]
      BY <2>5
    <3>2. CASE k = m + 1
      <4>1. k - 1 = m /\ g[k] = y
        BY <3>2
      <4>2. g[k - 1] = f[m]
        BY <3>1, <4>1
      <4> QED BY <3>2, <4>1, <4>2
    <3>3. CASE k # m + 1
      <4>1. k \in 1 .. m
        BY <3>3
      <4> QED BY <2>2, <3>1, <3>3, <4>1
    <3> QED BY <3>2, <3>3
  <2>6. H(g, m + 1)
    BY <2>4, <2>5
  <2> QED BY <2>6
<1>3. n \in T
  <2> HIDE DEF T
  <2> QED BY <1>1, <1>2, Induction
<1> QED BY <1>3 DEF History
-----------------------------------------------------------------------------
\* The k-th turn takes a state of V[k - 1] to one of V[k].
Grows(step, V, n) == \A k \in 1 .. n : \A a \in V[k - 1] : step[<<a, k>>] \in V[k]
Runs(f, x, step, n) == f[0] = x /\ \A k \in 1 .. n : f[k] = step[<<f[k - 1], k>>]

\* A loop whose turns keep what is claimed of each of them has a history, and
\* the claims hold along any that it has.
LEMMA Loop ==
  ASSUME NEW n \in Nat, NEW V, NEW x \in V[0], NEW step, Grows(step, V, n)
  PROVE  /\ \E f : f = [k \in 0 .. n |-> f[k]] /\ Runs(f, x, step, n)
         /\ \A f : Runs(f, x, step, n) => \A k \in 0 .. n : f[k] \in V[k]
<1>1. ASSUME NEW f, Runs(f, x, step, n) PROVE \A k \in 0 .. n : f[k] \in V[k]
  <2> DEFINE T == {k \in Nat : k <= n => f[k] \in V[k]}
  <2>1. 0 \in T
    BY <1>1 DEF Runs
  <2>2. ASSUME NEW k \in Nat, k \in T PROVE k + 1 \in T
    <3>1. SUFFICES ASSUME k + 1 <= n PROVE f[k + 1] \in V[k + 1]
      OBVIOUS
    <3>2. f[k] \in V[k] /\ k + 1 \in 1 .. n /\ (k + 1) - 1 = k
      BY <2>2, <3>1
    <3> QED BY <1>1, <3>2 DEF Runs, Grows
  <2>3. \A k \in Nat : k \in T
    <3> HIDE DEF T
    <3> QED BY <2>1, <2>2, Induction
  <2> QED BY <2>3
<1>2. \E f : f = [k \in 0 .. n |-> f[k]] /\ Runs(f, x, step, n)
  <2> DEFINE S == UNION {V[k] : k \in 0 .. n}
             kept == [p \in S \X (1 .. n) |-> IF step[p] \in S THEN step[p] ELSE x]
  <2>1. x \in S
    OBVIOUS
  <2>2. IsLoop(kept, n, S)
    <3> HIDE DEF S
    <3> QED BY <2>1 DEF IsLoop
  <2>3. PICK f : History(f, n, S, x, kept)
    <3> HIDE DEF S, kept
    <3> QED BY <2>1, <2>2, Recursion
  <2> DEFINE T == {k \in Nat : k <= n => f[k] \in V[k]}
  <2>4. ASSUME NEW k \in 1 .. n, f[k - 1] \in V[k - 1]
        PROVE  f[k] = step[<<f[k - 1], k>>] /\ f[k] \in V[k]
    <3>1. step[<<f[k - 1], k>>] \in V[k]
      BY <2>4 DEF Grows
    <3>2. step[<<f[k - 1], k>>] \in S
      BY <3>1
    <3>3. f[k - 1] \in S
      <4>1. k - 1 \in 0 .. n
        OBVIOUS
      <4> QED BY <2>4, <4>1
    <3>4. f[k] = kept[<<f[k - 1], k>>]
      BY <2>3 DEF History
    <3> HIDE DEF S
    <3>5. f[k] = step[<<f[k - 1], k>>]
      BY <3>2, <3>3, <3>4
    <3> QED BY <3>1, <3>5
  <2>5. 0 \in T
    BY <2>3 DEF History
  <2>6. ASSUME NEW k \in Nat, k \in T PROVE k + 1 \in T
    <3>1. SUFFICES ASSUME k + 1 <= n PROVE f[k + 1] \in V[k + 1]
      OBVIOUS
    <3>2. f[k] \in V[k] /\ k + 1 \in 1 .. n /\ (k + 1) - 1 = k
      BY <2>6, <3>1
    <3> QED BY <2>4, <3>2
  <2>7. \A k \in Nat : k \in T
    <3> HIDE DEF T
    <3> QED BY <2>5, <2>6, Induction
  <2>8. Runs(f, x, step, n)
    <3>1. ASSUME NEW k \in 1 .. n PROVE f[k] = step[<<f[k - 1], k>>]
      <4>1. k - 1 \in T /\ k - 1 <= n
        BY <2>7
      <4> QED BY <2>4, <4>1
    <3> QED BY <2>3, <3>1 DEF Runs, History
  <2>9. f = [k \in 0 .. n |-> f[k]]
    BY <2>3 DEF History
  <2> QED BY <2>8, <2>9
<1> QED BY <1>1, <1>2

\* The sequence g of length n holds every element of X once, and no other.
Lists(g, n, X) ==
  /\ g \in [1 .. n -> X]
  /\ \A x \in X : \E i \in 1 .. n : g[i] = x
  /\ \A i, j \in 1 .. n : g[i] = g[j] => i = j

\* A heap of length n with a hole in it, and the same with v in the hole.
Holed(n, E) == [heap : [1 .. n -> E], hole : 1 .. n]
Filled(s, v) == [s.heap EXCEPT ![s.hole] = v]

\* Wherever the hole goes, the same elements are around it.
LEMMA HoleMoves ==
  ASSUME NEW n \in Nat, NEW E, NEW X, NEW v \in E, NEW s \in Holed(n, E), NEW i \in 1 .. n
  PROVE  /\ HoleTo(s, i) \in Holed(n, E)
         /\ Lists(Filled(s, v), n, X) => Lists(Filled(HoleTo(s, i), v), n, X)
<1>1. s.heap \in [1 .. n -> E] /\ s.hole \in 1 .. n
  BY DEF Holed
<1>2. HoleTo(s, i).heap = [s.heap EXCEPT ![s.hole] = s.heap[i]] /\ HoleTo(s, i).hole = i
  BY DEF HoleTo
<1>3. HoleTo(s, i) \in Holed(n, E)
  BY <1>1 DEF HoleTo, Holed
<1> DEFINE f == Filled(s, v)
           g == Filled(HoleTo(s, i), v)
<1>4. g[s.hole] = f[i] /\ g[i] = f[s.hole] /\ f \in [1 .. n -> E] /\ g \in [1 .. n -> E]
  BY <1>1, <1>2 DEF Filled
<1>5. \A j \in 1 .. n : j # s.hole /\ j # i => g[j] = f[j]
  BY <1>1, <1>2 DEF Filled
<1>6. ASSUME Lists(f, n, X) PROVE Lists(g, n, X)
  <2> HIDE DEF f, g
  <2>1. ASSUME NEW x \in X PROVE \E j \in 1 .. n : g[j] = x
    <3>1. PICK k \in 1 .. n : f[k] = x
      BY <1>6 DEF Lists
    <3> QED BY <1>1, <1>4, <1>5, <3>1
  <2> DEFINE from(j) == IF j = s.hole THEN i ELSE IF j = i THEN s.hole ELSE j
  <2>2. \A j \in 1 .. n : from(j) \in 1 .. n /\ g[j] = f[from(j)]
    BY <1>1, <1>4, <1>5
  <2>3. \A j, k \in 1 .. n : from(j) = from(k) => j = k
    OBVIOUS
  <2>4. \A j, k \in 1 .. n : g[j] = g[k] => j = k
    <3> HIDE DEF from
    <3> QED BY <1>6, <2>2, <2>3 DEF Lists
  <2>5. g \in [1 .. n -> X]
    <3>1. \A j \in 1 .. n : f[j] \in X
      BY <1>6 DEF Lists
    <3>2. \A j \in 1 .. n : g[j] \in X
      <4> HIDE DEF from
      <4> QED BY <2>2, <3>1
    <3> QED BY <1>4, <3>2
  <2> QED BY <2>1, <2>4, <2>5 DEF Lists
<1> QED BY <1>3, <1>6

\* push_heap puts v somewhere among the elements it was given.
LEMMA SiftUpLists ==
  ASSUME NEW n \in Nat, NEW E, NEW X, NEW v \in E, NEW key,
         NEW h \in [1 .. n -> E], NEW i \in 1 .. n, Lists([h EXCEPT ![i] = v], n, X)
  PROVE  Lists(SiftUp(h, i, v, key), n, X)
<1> DEFINE s0 == [heap |-> h, hole |-> i]
           Turned(was) ==
             IF was.hole > 1 /\ key[was.heap[was.hole \div 2]] > key[v]
             THEN HoleTo(was, was.hole \div 2) ELSE was
           step == [p \in Holed(n, E) \X (1 .. i) |-> Turned(p[1])]
           IsUp(f) == f = [k \in 0 .. i |-> IF k = 0 THEN s0
                             ELSE LET was == f[k - 1]
                                      above == was.hole \div 2
                                  IN  IF was.hole > 1 /\ key[was.heap[above]] > key[v]
                                      THEN HoleTo(was, above) ELSE was]
           Kept(s) == s \in Holed(n, E) /\ Lists(Filled(s, v), n, X)
<1>1. Kept(s0)
  BY DEF Holed, Filled
<1>2. ASSUME NEW s \in Holed(n, E)
      PROVE  Turned(s) \in Holed(n, E) /\ (Kept(s) => Kept(Turned(s)))
  <2>1. CASE s.hole > 1
    <3>1. s.hole \in 1 .. n
      BY DEF Holed
    <3>2. s.hole \div 2 \in 1 .. n
      BY <2>1, <3>1
    <3>3. HoleTo(s, s.hole \div 2) \in Holed(n, E) /\ (Kept(s) => Kept(HoleTo(s, s.hole \div 2)))
      BY <3>2, HoleMoves
    <3> QED BY <3>3
  <2>2. CASE ~(s.hole > 1)
    BY <2>2
  <2> QED BY <2>1, <2>2
<1>3. \E f : IsUp(f)
  <2>1. step \in [Holed(n, E) \X (1 .. i) -> Holed(n, E)]
    BY <1>2
  <2>2. s0 \in Holed(n, E) /\ i \in Nat
    BY <1>1
  <2>3. PICK f : History(f, i, Holed(n, E), s0, step)
    <3>1. IsLoop(step, i, Holed(n, E)) /\ i \in Nat
      BY <2>1 DEF IsLoop
    <3> HIDE DEF step, s0
    <3> QED BY <2>2, <3>1, Recursion
  <2>4. ASSUME NEW k \in 1 .. i PROVE f[k] = Turned(f[k - 1])
    <3>1. f[k - 1] \in Holed(n, E)
      BY <2>3 DEF History
    <3> HIDE DEF Turned
    <3> QED BY <2>3, <3>1 DEF History
  <2>5. \A k \in 0 .. i : f[k] = IF k = 0 THEN s0 ELSE Turned(f[k - 1])
    <3>1. \A k \in 0 .. i : k = 0 \/ k \in 1 .. i
      OBVIOUS
    <3> HIDE DEF Turned, s0
    <3> QED BY <2>3, <2>4, <3>1 DEF History
  <2>6. f = [k \in 0 .. i |-> IF k = 0 THEN s0 ELSE Turned(f[k - 1])]
    <3> HIDE DEF Turned, s0
    <3> QED BY <2>3, <2>5 DEF History
  <2>7. IsUp(f)
    BY <2>6, Zenon
  <2> QED BY <2>7
<1> DEFINE U == CHOOSE f : IsUp(f)
<1>4. IsUp(U)
  <2> HIDE DEF IsUp
  <2> QED BY <1>3
<1>5. Kept(U[i])
  <2> HIDE DEF U, Kept
  <2>1. U[0] = s0
    <3>1. 0 \in 0 .. i
      OBVIOUS
    <3> HIDE DEF s0, Turned
    <3> QED BY <1>4, <3>1
  <2>2. ASSUME NEW k \in Nat, k + 1 <= i PROVE U[k + 1] = Turned(U[k])
    <3>1. k + 1 \in 0 .. i /\ k + 1 # 0 /\ (k + 1) - 1 = k
      BY <2>2
    <3> QED BY <1>4, <3>1
  <2>3. ASSUME NEW s, Kept(s) PROVE Kept(Turned(s))
    <3> HIDE DEF Turned
    <3>1. s \in Holed(n, E)
      BY <2>3 DEF Kept
    <3> QED BY <1>2, <2>3, <3>1
  <2> DEFINE T == {k \in Nat : k <= i => Kept(U[k])}
  <2> HIDE DEF IsUp, Turned
  <2>4. 0 \in T
    BY <1>1, <2>1
  <2>5. \A k \in Nat : k \in T => k + 1 \in T
    BY <2>2, <2>3
  <2>6. i \in T
    <3>1. i \in Nat
      OBVIOUS
    <3> HIDE DEF T
    <3>2. \A k \in Nat : k \in T
      BY <2>4, <2>5, Induction
    <3> QED BY <3>1, <3>2
  <2> QED BY <2>6
<1>6. SiftUp(h, i, v, key) = Filled(U[i], v)
  BY DEF SiftUp, Filled
<1> QED BY <1>5, <1>6

\* pop_heap, once the top is off: v goes back among the rest.
LEMMA SiftDownLists ==
  ASSUME NEW n \in Nat, n > 0, NEW E, NEW X, NEW v \in E, NEW key,
         NEW h \in [1 .. n -> E], Len(h) = n, Lists([h EXCEPT ![1] = v], n, X)
  PROVE  Lists(SiftDown(h, v, key), n, X)
<1> DEFINE s0 == [heap |-> h, hole |-> 1]
           Child(was) ==
             IF 2 * was.hole = n
                \/ key[was.heap[2 * was.hole + 1]] > key[was.heap[2 * was.hole]]
             THEN 2 * was.hole ELSE 2 * was.hole + 1
           Turned(was) == IF 2 * was.hole > n THEN was ELSE HoleTo(was, Child(was))
           step == [p \in Holed(n, E) \X (1 .. n) |-> Turned(p[1])]
           IsDown(f) == f = [k \in 0 .. n |-> IF k = 0 THEN s0
                               ELSE LET was == f[k - 1]
                                        left == 2 * was.hole
                                        child == IF left = n \/ key[was.heap[left + 1]] > key[was.heap[left]]
                                                 THEN left ELSE left + 1
                                    IN  IF left > n THEN was ELSE HoleTo(was, child)]
           Kept(s) == s \in Holed(n, E) /\ Lists(Filled(s, v), n, X)
<1>1. Kept(s0)
  BY DEF Holed, Filled
<1>2. ASSUME NEW s \in Holed(n, E)
      PROVE  Turned(s) \in Holed(n, E) /\ (Kept(s) => Kept(Turned(s)))
  <2>1. CASE ~(2 * s.hole > n)
    <3>1. s.hole \in 1 .. n
      BY DEF Holed
    <3>2. Child(s) \in 1 .. n
      BY <2>1, <3>1
    <3>3. HoleTo(s, Child(s)) \in Holed(n, E) /\ (Kept(s) => Kept(HoleTo(s, Child(s))))
      <4> HIDE DEF Child
      <4> QED BY <3>2, HoleMoves
    <3> QED BY <2>1, <3>3
  <2>2. CASE 2 * s.hole > n
    BY <2>2
  <2> QED BY <2>1, <2>2
<1>3. \E f : IsDown(f)
  <2>1. step \in [Holed(n, E) \X (1 .. n) -> Holed(n, E)]
    <3> HIDE DEF Turned
    <3> QED BY <1>2
  <2>2. s0 \in Holed(n, E)
    BY <1>1
  <2>3. PICK f : History(f, n, Holed(n, E), s0, step)
    <3>1. IsLoop(step, n, Holed(n, E))
      BY <2>1 DEF IsLoop
    <3> HIDE DEF step, s0
    <3> QED BY <2>2, <3>1, Recursion
  <2>4. ASSUME NEW k \in 1 .. n PROVE f[k] = Turned(f[k - 1])
    <3>1. f[k - 1] \in Holed(n, E)
      BY <2>3 DEF History
    <3> HIDE DEF Turned
    <3> QED BY <2>3, <3>1 DEF History
  <2>5. \A k \in 0 .. n : f[k] = IF k = 0 THEN s0 ELSE Turned(f[k - 1])
    <3>1. \A k \in 0 .. n : k = 0 \/ k \in 1 .. n
      OBVIOUS
    <3> HIDE DEF Turned, s0
    <3> QED BY <2>3, <2>4, <3>1 DEF History
  <2>6. f = [k \in 0 .. n |-> IF k = 0 THEN s0 ELSE Turned(f[k - 1])]
    <3> HIDE DEF Turned, s0
    <3> QED BY <2>3, <2>5 DEF History
  <2>7. IsDown(f)
    BY <2>6, Zenon
  <2> QED BY <2>7
<1> DEFINE D == CHOOSE f : IsDown(f)
<1>4. IsDown(D)
  <2> HIDE DEF IsDown
  <2> QED BY <1>3
<1>5. Kept(D[n])
  <2> HIDE DEF D, Kept
  <2>1. D[0] = s0
    BY <1>4
  <2>2. ASSUME NEW k \in Nat, k + 1 <= n PROVE D[k + 1] = Turned(D[k])
    <3>1. k + 1 \in 0 .. n /\ k + 1 # 0 /\ (k + 1) - 1 = k
      BY <2>2
    <3> QED BY <1>4, <3>1
  <2>3. ASSUME NEW s, Kept(s) PROVE Kept(Turned(s))
    <3> HIDE DEF Turned
    <3>1. s \in Holed(n, E)
      BY <2>3 DEF Kept
    <3> QED BY <1>2, <2>3, <3>1
  <2> DEFINE T == {k \in Nat : k <= n => Kept(D[k])}
  <2> HIDE DEF IsDown, Turned
  <2>4. 0 \in T
    BY <1>1, <2>1
  <2>5. \A k \in Nat : k \in T => k + 1 \in T
    BY <2>2, <2>3
  <2>6. n \in T
    <3> HIDE DEF T
    <3> QED BY <2>4, <2>5, Induction
  <2> QED BY <2>6
<1>6. SiftDown(h, v, key) = SiftUp(D[n].heap, D[n].hole, v, key)
  BY DEF SiftDown
<1>7. Lists(SiftUp(D[n].heap, D[n].hole, v, key), n, X)
  <2> HIDE DEF D
  <2>1. D[n].heap \in [1 .. n -> E] /\ D[n].hole \in 1 .. n
    BY <1>5 DEF Holed
  <2>2. Lists([D[n].heap EXCEPT ![D[n].hole] = v], n, X)
    BY <1>5 DEF Filled
  <2> QED BY <2>1, <2>2, SiftUpLists
<1> QED BY <1>6, <1>7

Elements(q) == {q[i] : i \in 1 .. Len(q)}
Distinct(q) == \A i, j \in 1 .. Len(q) : q[i] = q[j] => i = j

\* An interval from 1 has one length.
LEMMA SameLength ==
  ASSUME NEW m \in Nat, NEW n \in Nat, 1 .. m = 1 .. n
  PROVE  m = n
<1>1. m > 0 => m \in 1 .. n
  <2>1. m > 0 => m \in 1 .. m
    OBVIOUS
  <2> QED BY <2>1
<1>2. n > 0 => n \in 1 .. m
  <2>1. n > 0 => n \in 1 .. n
    OBVIOUS
  <2> QED BY <2>1
<1>3. (m > 0 => m <= n) /\ (n > 0 => n <= m)
  BY <1>1, <1>2
<1> QED BY <1>3

\* A listing of X is a sequence with X as its elements.
LEMMA ListsIsSeq ==
  ASSUME NEW S, NEW X, X \subseteq S, NEW n \in Nat, NEW g, Lists(g, n, X)
  PROVE  g \in Seq(S) /\ Elements(g) = X /\ Distinct(g)
<1>1. g \in [1 .. n -> S] /\ g \in [1 .. n -> X]
  BY DEF Lists
<1>2. g \in Seq(S)
  BY <1>1, SeqDef
<1>3. Len(g) = n
  <2>1. DOMAIN g = 1 .. Len(g) /\ Len(g) \in Nat /\ DOMAIN g = 1 .. n
    BY <1>1, <1>2, LenProperties
  <2> QED BY <2>1, SameLength
<1>4. Elements(g) = X
  BY <1>1, <1>3 DEF Elements, Lists
<1> QED BY <1>2, <1>3, <1>4 DEF Distinct, Lists

\* Whatever the keys, push adds the element and loses none (push_heap).
LEMMA PushKeeps ==
  ASSUME NEW S, NEW q \in Seq(S), NEW v \in S, NEW key, Distinct(q), v \notin Elements(q)
  PROVE  /\ PushHeap(q, v, key) \in Seq(S) /\ Distinct(PushHeap(q, v, key))
         /\ Elements(PushHeap(q, v, key)) = Elements(q) \cup {v}
<1> DEFINE n == Len(q) + 1
           X == Elements(q) \cup {v}
           h == Append(q, v)
<1>1. n \in Nat /\ n \in 1 .. n /\ Len(h) = n /\ v \in X /\ X \subseteq S
  BY LenProperties, ElementOfSeq DEF Elements
<1>2. \A i \in 1 .. n : h[i] = IF i = n THEN v ELSE q[i]
  OBVIOUS
<1>3. h \in [1 .. n -> X]
  <2>1. h \in Seq(S)
    OBVIOUS
  <2>2. DOMAIN h = 1 .. n /\ h \in [1 .. n -> S]
    BY <1>1, <2>1, LenProperties
  <2>3. \A i \in 1 .. n : h[i] \in X
    BY <1>1, <1>2 DEF Elements
  <2> HIDE DEF X
  <2> QED BY <2>2, <2>3
<1>4. Lists([h EXCEPT ![n] = v], n, X)
  <2>1. \A i \in 1 .. n : [h EXCEPT ![n] = v][i] = h[i]
    BY <1>1, <1>2, <1>3
  <2>2. [h EXCEPT ![n] = v] \in [1 .. n -> X]
    BY <1>1, <1>3
  <2>3. \A x \in X : \E i \in 1 .. n : h[i] = x
    <3>1. ASSUME NEW x \in Elements(q) PROVE \E i \in 1 .. n : h[i] = x
      <4>1. PICK i \in 1 .. Len(q) : x = q[i]
        BY DEF Elements
      <4>2. i \in 1 .. n /\ i # n
        BY <1>1, <4>1
      <4> QED BY <1>2, <4>1, <4>2
    <3>2. h[n] = v
      BY <1>1, <1>2
    <3> QED BY <1>1, <3>1, <3>2
  <2>4. ASSUME NEW i \in 1 .. n, NEW j \in 1 .. n, h[i] = h[j] PROVE i = j
    <3>1. \A k \in 1 .. n : k = n \/ k \in 1 .. Len(q)
      BY <1>1
    <3>2. \A k \in 1 .. Len(q) : q[k] # v
      BY DEF Elements
    <3> QED BY <1>2, <2>4, <3>1, <3>2 DEF Distinct
  <2> HIDE DEF h, n, X
  <2> QED BY <2>1, <2>2, <2>3, <2>4 DEF Lists
<1>5. Lists(PushHeap(q, v, key), n, X)
  <2>1. PushHeap(q, v, key) = SiftUp(h, n, v, key)
    BY DEF PushHeap
  <2> HIDE DEF h, n, X
  <2>2. h \in [1 .. n -> X] /\ n \in 1 .. n /\ n \in Nat /\ v \in X
    BY <1>1, <1>3
  <2>3. Lists(SiftUp(h, n, v, key), n, X)
    BY <1>4, <2>2, SiftUpLists
  <2> QED BY <2>1, <2>3
<1> QED
  <2> HIDE DEF n, X
  <2>1. PushHeap(q, v, key) \in Seq(S) /\ Elements(PushHeap(q, v, key)) = X
        /\ Distinct(PushHeap(q, v, key))
    BY <1>1, <1>5, ListsIsSeq
  <2> QED BY <2>1 DEF X

\* Whatever the keys, pop removes the element on top and no other (pop_heap).
LEMMA PopKeeps ==
  ASSUME NEW S, NEW q \in Seq(S), NEW key, q # <<>>, Distinct(q)
  PROVE  /\ PopHeap(q, key) \in Seq(S) /\ Distinct(PopHeap(q, key))
         /\ Elements(PopHeap(q, key)) = Elements(q) \ {TopOf(q)}
         /\ TopOf(q) \in Elements(q) /\ TopOf(q) \in S
<1> DEFINE m == Len(q)
           n == Len(q) - 1
           X == Elements(q) \ {q[1]}
           rest == SubSeq(q, 1, n)
           v == q[m]
<1>1. m \in Nat \ {0} /\ n \in Nat /\ m = n + 1 /\ 1 \in 1 .. m /\ m \in 1 .. m
  BY EmptySeq, LenProperties
<1>2. TopOf(q) = q[1] /\ TopOf(q) \in Elements(q) /\ X \subseteq S /\ TopOf(q) \in S
  BY <1>1, ElementOfSeq DEF TopOf, Elements
<1>3. rest \in Seq(S) /\ Len(rest) = n /\ \A i \in 1 .. n : rest[i] = q[i]
  <2>1. \A i \in 1 .. n : q[i] \in S
    BY <1>1, ElementOfSeq
  <2> HIDE DEF n
  <2>2. 1 \in Int /\ n \in Int /\ n >= 0
    BY <1>1
  <2>3. rest \in Seq(S) /\ Len(rest) = (IF 1 <= n THEN n - 1 + 1 ELSE 0)
        /\ \A i \in 1 .. n - 1 + 1 : rest[i] = q[1 + i - 1]
    BY <2>1, <2>2, SubSeqProperties
  <2>4. \A i \in 1 .. n : i \in 1 .. n - 1 + 1 /\ 1 + i - 1 = i
    BY <2>2
  <2> HIDE DEF rest
  <2> QED BY <2>2, <2>3, <2>4
<1>4. CASE n = 0
  <2>1. rest = <<>>
    <3> HIDE DEF n, rest
    <3> QED BY <1>3, <1>4, EmptySeq
  <2>2. PopHeap(q, key) = <<>>
    BY <2>1 DEF PopHeap
  <2>3. Elements(<<>>) = {} /\ Distinct(<<>>) /\ <<>> \in Seq(S)
    BY EmptySeq DEF Elements, Distinct
  <2>4. Elements(q) = {q[1]}
    <3>1. Len(q) = 1
      <4>1. m = 1
        <5> HIDE DEF m, n
        <5> QED BY <1>1, <1>4
      <4> QED BY <4>1
    <3> QED BY <3>1 DEF Elements
  <2> QED BY <1>2, <2>2, <2>3, <2>4
<1>5. CASE n > 0
  <2>1. rest # <<>>
    <3> HIDE DEF n, rest
    <3> QED BY <1>3, <1>5, EmptySeq
  <2>2. PopHeap(q, key) = SiftDown(rest, v, key)
    BY <2>1 DEF PopHeap
  <2> DEFINE h == [rest EXCEPT ![1] = v]
  <2>3. v \in X
    <3>1. q[m] # q[1]
      BY <1>1, <1>5 DEF Distinct
    <3> QED BY <1>1, <3>1 DEF Elements
  <2> DEFINE Y == Elements(q)
  <2>4. rest \in [1 .. n -> Y]
    <3>1. \A i \in 1 .. n : q[i] \in Y
      BY <1>1 DEF Elements
    <3>2. DOMAIN rest = 1 .. n /\ rest \in [1 .. n -> S]
      <4> HIDE DEF rest, n
      <4> QED BY <1>3, LenProperties
    <3> HIDE DEF n, rest, Y
    <3> QED BY <1>3, <3>1, <3>2
  <2>5. \A i \in 1 .. n : h[i] = IF i = 1 THEN v ELSE q[i]
    <3> HIDE DEF n, rest, Y
    <3> QED BY <1>3, <2>4
  <2>6. h \in [1 .. n -> X]
    <3>1. \A i \in 1 .. n : i # 1 => q[i] \in X
      BY <1>1 DEF Elements, Distinct
    <3>2. h \in [1 .. n -> Y \cup {v}]
      BY <2>4
    <3> HIDE DEF h, X, n, Y
    <3> QED BY <2>3, <2>5, <3>1, <3>2
  <2>7. Lists(h, n, X)
    <3>1. ASSUME NEW x \in X PROVE \E i \in 1 .. n : h[i] = x
      <4>1. PICK i \in 1 .. m : q[i] = x
        BY DEF Elements
      <4>2. i # 1
        BY <4>1
      <4>3. i = m \/ i \in 1 .. n
        <5> HIDE DEF m, n
        <5> QED BY <1>1
      <4>4. 1 \in 1 .. n
        BY <1>5, <1>1
      <4> HIDE DEF h
      <4> QED BY <2>5, <4>1, <4>2, <4>3, <4>4
    <3>2. ASSUME NEW i \in 1 .. n, NEW j \in 1 .. n, h[i] = h[j] PROVE i = j
      <4> DEFINE At(k) == IF k = 1 THEN m ELSE k
      <4>1. \A k \in 1 .. n : At(k) \in 1 .. m /\ h[k] = q[At(k)]
        <5> HIDE DEF h
        <5> QED BY <1>1, <2>5
      <4>2. \A k, l \in 1 .. n : At(k) = At(l) => k = l
        BY <1>1
      <4> HIDE DEF At, h
      <4> QED BY <3>2, <4>1, <4>2 DEF Distinct
    <3> HIDE DEF h, X, n
    <3> QED BY <2>6, <3>1, <3>2 DEF Lists
  <2>8. Lists(SiftDown(rest, v, key), n, X)
    <3>1. v \in Y
      BY <2>3
    <3> HIDE DEF X, Y, n, v, rest
    <3> QED BY <1>1, <1>3, <1>5, <2>4, <2>7, <3>1, SiftDownLists
  <2> HIDE DEF X, n, v, rest
  <2>9. PopHeap(q, key) \in Seq(S) /\ Elements(PopHeap(q, key)) = X /\ Distinct(PopHeap(q, key))
    BY <1>1, <1>2, <2>2, <2>8, ListsIsSeq
  <2> QED BY <1>2, <2>9 DEF X
<1> QED BY <1>1, <1>4, <1>5
-----------------------------------------------------------------------------
\* A node is a pair of integers.
LEMMA NodeIsPair ==
  ASSUME NEW n \in Nodes
  PROVE  n = <<n[1], n[2]>> /\ n[1] \in Int /\ n[2] \in Int
BY PoolSize DEF Nodes

\* Steps have a length, and the estimate of what is left is one too (getHeu).
LEMMA CostsAreNat ==
  ASSUME NEW a \in Nodes, NEW b \in Nodes
  PROVE  StepCost(a, b) \in Nat \ {0} /\ getHeu(a, b) \in Nat
<1>1. StepCost(a, b) \in Nat \ {0}
  BY DEF StepCost, Diagonal, Straight
<1> DEFINE dx == Abs(a[1] - b[1])
           dy == Abs(a[2] - b[2])
           diag == IF dx < dy THEN dx ELSE dy
           h == diag * Diagonal + (dx + dy - 2 * diag) * Straight
<1>2. dx \in Nat /\ dy \in Nat
  BY NodeIsPair DEF Abs
<1>3. h \in Nat
  <2> HIDE DEF dx, dy
  <2> QED BY <1>2 DEF Diagonal, Straight
<1>4. getHeu(a, b) = h + h \div 10000
  BY DEF getHeu
<1>5. h \div 10000 \in Nat
  <2> HIDE DEF h
  <2> QED BY <1>3
<1> QED
  <2> HIDE DEF h
  <2> QED BY <1>1, <1>3, <1>4, <1>5

\* Where a point is pushed to is free (ConvertToIndexAndAdjustStartEndPoints).
LEMMA PushedIsFree ==
  ASSUME NEW pt, NEW away, NEW occ, PushOut(pt, away, occ) # NoNode
  PROVE  PushOut(pt, away, occ) \in Nodes \ occ
<1> DEFINE idx(k) == Coord2Index(<<pt[1] + k * away[1], pt[2] + k * away[2]>>)
           Stops(k) == idx(k) \notin Nodes \cap occ /\ \A j \in 0 .. k - 1 : idx(j) \in Nodes \cap occ
           at == CHOOSE k \in 0 .. Far : Stops(k)
<1>1. PushOut(pt, away, occ) = IF \E k \in 0 .. Far : Stops(k) /\ idx(k) \in Nodes
                               THEN idx(at) ELSE NoNode
  BY DEF PushOut
<1> HIDE DEF idx
<1>2. PICK k \in 0 .. Far : Stops(k) /\ idx(k) \in Nodes
  BY <1>1
<1>3. at \in 0 .. Far /\ Stops(at)
  BY <1>2
<1>4. at = k
  <2> HIDE DEF at
  <2>1. ~(at < k) /\ ~(k < at)
    <3>1. at < k => at \in 0 .. k - 1
      BY <1>3
    <3>2. k < at => k \in 0 .. at - 1
      BY <1>3
    <3> QED BY <1>2, <1>3, <3>1, <3>2
  <2> QED BY <1>3, <2>1
<1> QED BY <1>1, <1>2, <1>4

\* The eight neighbours are visited once each, and the node itself is not one.
LEMMA EightNeighbours ==
  ASSUME NEW n \in Nodes
  PROVE  /\ \A i, j \in 1 .. 8 :
              Beside(n, Directions[i]) = Beside(n, Directions[j]) => i = j
         /\ \A i \in 1 .. 8 : Beside(n, Directions[i]) # n
         /\ \A m \in Nodes :
              <<n, m>> \in Neighbours <=> \E i \in 1 .. 8 : m = Beside(n, Directions[i])
<1>1. n[1] \in Int /\ n[2] \in Int /\ n = <<n[1], n[2]>>
  BY NodeIsPair
<1>2. \A i \in 1 .. 8 : /\ Directions[i][1] \in {-1, 0, 1} /\ Directions[i][2] \in {-1, 0, 1}
                        /\ Directions[i][1] # 0 \/ Directions[i][2] # 0
                        /\ i = IF Directions[i][1] = -1 THEN Directions[i][2] + 2
                               ELSE IF Directions[i][1] = 1 THEN Directions[i][2] + 7
                               ELSE IF Directions[i][2] = -1 THEN 4 ELSE 5
  <2>1. \A i \in 1 .. 8 : i = 1 \/ i = 2 \/ i = 3 \/ i = 4 \/ i = 5 \/ i = 6 \/ i = 7 \/ i = 8
    OBVIOUS
  <2>2. /\ Directions[1] = <<-1, -1>> /\ Directions[2] = <<-1, 0>> /\ Directions[3] = <<-1, 1>>
        /\ Directions[4] = <<0, -1>> /\ Directions[5] = <<0, 1>> /\ Directions[6] = <<1, -1>>
        /\ Directions[7] = <<1, 0>> /\ Directions[8] = <<1, 1>>
    BY DEF Directions
  <2> QED BY <2>1, <2>2
<1>3. \A i \in 1 .. 8 : Beside(n, Directions[i]) = <<n[1] + Directions[i][1], n[2] + Directions[i][2]>>
  BY DEF Beside
<1>4. \A i \in 1 .. 8 : /\ Beside(n, Directions[i])[1] - n[1] = Directions[i][1]
                        /\ Beside(n, Directions[i])[2] - n[2] = Directions[i][2]
  <2> SUFFICES ASSUME NEW i \in 1 .. 8
               PROVE  /\ Beside(n, Directions[i])[1] - n[1] = Directions[i][1]
                      /\ Beside(n, Directions[i])[2] - n[2] = Directions[i][2]
    OBVIOUS
  <2> DEFINE x == Directions[i][1]
             y == Directions[i][2]
  <2>1. x \in Int /\ y \in Int
    <3>1. x \in {-1, 0, 1} /\ y \in {-1, 0, 1}
      BY <1>2, Zenon
    <3> QED BY <3>1
  <2>2. Beside(n, Directions[i]) = <<n[1] + x, n[2] + y>>
    BY <1>3
  <2> HIDE DEF x, y
  <2>3. Beside(n, Directions[i])[1] - n[1] = x /\ Beside(n, Directions[i])[2] - n[2] = y
    BY <1>1, <2>1, <2>2
  <2> QED BY <2>3 DEF x, y
<1>5. /\ \A i, j \in 1 .. 8 : Beside(n, Directions[i]) = Beside(n, Directions[j]) => i = j
      /\ \A i \in 1 .. 8 : Beside(n, Directions[i]) # n
  <2>1. ASSUME NEW i \in 1 .. 8, NEW j \in 1 .. 8, Beside(n, Directions[i]) = Beside(n, Directions[j])
        PROVE  i = j
    <3>1. Directions[i][1] = Directions[j][1] /\ Directions[i][2] = Directions[j][2]
      <4>1. /\ Beside(n, Directions[i])[1] - n[1] = Directions[i][1]
            /\ Beside(n, Directions[i])[2] - n[2] = Directions[i][2]
        BY <1>4
      <4>2. /\ Beside(n, Directions[j])[1] - n[1] = Directions[j][1]
            /\ Beside(n, Directions[j])[2] - n[2] = Directions[j][2]
        BY <1>4
      <4> QED BY <2>1, <4>1, <4>2
    <3> QED BY <1>2, <3>1
  <2>2. ASSUME NEW i \in 1 .. 8, Beside(n, Directions[i]) = n PROVE FALSE
    <3>1. Directions[i][1] = 0 /\ Directions[i][2] = 0
      BY <1>1, <1>4, <2>2
    <3> QED BY <1>2, <3>1
  <2> QED BY <2>1, <2>2
<1>6. ASSUME NEW m \in Nodes
      PROVE  <<n, m>> \in Neighbours <=> \E i \in 1 .. 8 : m = Beside(n, Directions[i])
  <2>1. m[1] \in Int /\ m[2] \in Int /\ m = <<m[1], m[2]>>
    BY NodeIsPair
  <2>2. <<n, m>> \in Neighbours <=>
          n # m /\ Abs(n[1] - m[1]) <= 1 /\ Abs(n[2] - m[2]) <= 1
    BY DEF Neighbours
  <2>3. ASSUME NEW i \in 1 .. 8, m = Beside(n, Directions[i]) PROVE <<n, m>> \in Neighbours
    <3>1. m # n /\ m[1] - n[1] \in {-1, 0, 1} /\ m[2] - n[2] \in {-1, 0, 1}
      <4>1. Directions[i][1] \in {-1, 0, 1} /\ Directions[i][2] \in {-1, 0, 1}
        BY <1>2, Zenon
      <4>2. m # n
        BY <1>5, <2>3, Zenon
      <4>3. m[1] - n[1] = Directions[i][1] /\ m[2] - n[2] = Directions[i][2]
        BY <1>4, <2>3, Zenon
      <4> QED BY <4>1, <4>2, <4>3
    <3>2. Abs(n[1] - m[1]) <= 1 /\ Abs(n[2] - m[2]) <= 1
      BY <1>1, <2>1, <3>1 DEF Abs
    <3> QED BY <2>2, <3>1, <3>2
  <2>4. ASSUME <<n, m>> \in Neighbours PROVE \E i \in 1 .. 8 : m = Beside(n, Directions[i])
    <3> DEFINE dx == m[1] - n[1]
               dy == m[2] - n[2]
    <3>1. dx \in {-1, 0, 1} /\ dy \in {-1, 0, 1} /\ (dx # 0 \/ dy # 0)
      BY <1>1, <2>1, <2>2, <2>4 DEF Abs
    <3>2. \E i \in 1 .. 8 : Directions[i] = <<dx, dy>>
      <4> HIDE DEF dx, dy
      <4>1. /\ Directions[1] = <<-1, -1>> /\ Directions[2] = <<-1, 0>> /\ Directions[3] = <<-1, 1>>
            /\ Directions[4] = <<0, -1>> /\ Directions[5] = <<0, 1>> /\ Directions[6] = <<1, -1>>
            /\ Directions[7] = <<1, 0>> /\ Directions[8] = <<1, 1>>
        BY DEF Directions
      <4>2. \A i \in {1, 2, 3, 4, 5, 6, 7, 8} : i \in 1 .. 8
        OBVIOUS
      <4> QED BY <3>1, <4>1, <4>2
    <3> QED BY <1>1, <1>3, <2>1, <3>2
  <2> QED BY <2>3, <2>4
<1> QED BY <1>5, <1>6
-----------------------------------------------------------------------------
\* What a node of the pool carries.
Data == [rounds : Nat, state : {"UNDEFINED", "OPENSET", "CLOSEDSET"}, gScore : Nat,
         fScore : Nat, cameFrom : Nodes \cup {NoNode}]

SearchTypes ==
  /\ rounds_ \in Nat /\ GridNodeMap_ \in [Nodes -> Data]
  /\ openSet_ \in Seq(Nodes) /\ gridPath_ \in Seq(Nodes)
  /\ result \in {"idle", "searching", "retrieving", "found", "none", "late", "refused"}
  /\ Answered => startPtr \in Free /\ endPtr \in Free

\* No stamp is of a later search; after a refusal none is of this one.
Ages ==
  /\ \A n \in Nodes : GridNodeMap_[n].rounds <= rounds_
  /\ result = "refused" => \A n \in Nodes : GridNodeMap_[n].rounds < rounds_
  /\ result = "idle" => rounds_ = 0 /\ GridNodeMap_ = [n \in Nodes |-> Fresh]

\* The queue holds each met node that is not done with once, and no other.
Queued ==
  Answered =>
    /\ Distinct(openSet_)
    /\ \A n \in OpenNodes : n \in Stamped /\ GridNodeMap_[n].state = "OPENSET"
    /\ Stamped \subseteq OpenNodes \cup ClosedNodes
    /\ HasEnd => endPtr \notin Elements(openSet_)

\* Parents and scores of the nodes met in this search.
Tree ==
  Answered =>
    \A n \in Stamped :
      IF n = startPtr THEN GridNodeMap_[n].cameFrom = NoNode /\ GridNodeMap_[n].gScore = 0
      ELSE LET from == GridNodeMap_[n].cameFrom
           IN  /\ from \in ClosedNodes /\ <<from, n>> \in Neighbours
               /\ GridNodeMap_[n].gScore = GridNodeMap_[from].gScore + StepCost(from, n)

\* No free inner neighbour of a closed node has been passed over.
Cut ==
  Answered =>
    /\ startPtr \in Stamped /\ endPtr \notin ClosedNodes
    /\ \A e \in Neighbours : e[1] \in ClosedNodes /\ e[2] \in Inner \cap Free => e[2] \in Stamped
    /\ result = "none" => openSet_ = <<>>

\* The path so far follows the parents, and the scores fall along it.
Walk ==
  HasEnd =>
    /\ gridPath_ # <<>> /\ gridPath_[1] = endPtr
    /\ \A i \in 1 .. Len(gridPath_) : gridPath_[i] \in Stamped
    /\ \A i \in 1 .. Len(gridPath_) - 1 : gridPath_[i + 1] = GridNodeMap_[gridPath_[i]].cameFrom
    /\ \A i, j \in 1 .. Len(gridPath_) : i < j =>
         GridNodeMap_[gridPath_[i]].gScore > GridNodeMap_[gridPath_[j]].gScore
    /\ result = "found" => GridNodeMap_[gridPath_[Len(gridPath_)]].cameFrom = NoNode

SearchInv == SearchTypes /\ Ages /\ Queued /\ Tree /\ Cut /\ Walk

\* What a visit to m, coming from the node came whose score is g, leaves in m.
After(node, came, m, g) ==
  LET reached == [node EXCEPT !.rounds = rounds_, !.cameFrom = came,
                              !.gScore = g + StepCost(came, m),
                              !.fScore = g + StepCost(came, m) + getHeu(m, endPtr)]
  IN  IF m \notin Inner \/ (node.rounds = rounds_ /\ node.state = "CLOSEDSET") THEN node
      ELSE IF m \in obstacles THEN [node EXCEPT !.rounds = rounds_]
      ELSE IF node.rounds # rounds_ THEN [reached EXCEPT !.state = "OPENSET"]
      ELSE IF g + StepCost(came, m) < node.gScore THEN reached
      ELSE node

\* The visit is the first of this search to a node it may enter.
Opens(node, m) == m \in Inner \ obstacles /\ node.rounds # rounds_

Visits == [map : [Nodes -> Data], open : Seq(Nodes)]

\* A node keeps its type through a visit.
LEMMA AfterIsData ==
  ASSUME rounds_ \in Nat, endPtr \in Nodes, NEW node \in Data, NEW came \in Nodes,
         NEW m \in Nodes, NEW g \in Nat
  PROVE  After(node, came, m, g) \in Data
<1>1. g + StepCost(came, m) \in Nat /\ g + StepCost(came, m) + getHeu(m, endPtr) \in Nat
  BY CostsAreNat
<1> DEFINE c == g + StepCost(came, m)
           e == g + StepCost(came, m) + getHeu(m, endPtr)
           reached == [node EXCEPT !.rounds = rounds_, !.cameFrom = came, !.gScore = c, !.fScore = e]
<1>2. After(node, came, m, g) \in {node, [node EXCEPT !.rounds = rounds_],
                                   [reached EXCEPT !.state = "OPENSET"], reached}
  BY DEF After
<1> HIDE DEF c, e
<1>3. [node EXCEPT !.rounds = rounds_] \in Data
  BY DEF Data
<1>4. reached \in Data
  BY <1>1 DEF Data, c, e
<1>5. [reached EXCEPT !.state = "OPENSET"] \in Data
  <2> HIDE DEF reached
  <2> QED BY <1>4 DEF Data
<1> QED BY <1>2, <1>3, <1>4, <1>5

\* One visit changes one node, and the queue by that node at most.
LEMMA VisitEffect ==
  ASSUME rounds_ \in Nat, endPtr \in Nodes, NEW acc \in Visits, NEW came \in Nodes, NEW m,
         Distinct(acc.open), m \in Nodes /\ Opens(acc.map[m], m) => m \notin Elements(acc.open)
  PROVE  /\ Visit(acc, came, m) \in Visits
         /\ \A n \in Nodes : Visit(acc, came, m).map[n] =
              IF n = m THEN After(acc.map[n], came, n, acc.map[came].gScore) ELSE acc.map[n]
         /\ Distinct(Visit(acc, came, m).open)
         /\ Elements(Visit(acc, came, m).open) =
              Elements(acc.open) \cup {n \in Nodes : n = m /\ Opens(acc.map[n], n)}
<1>1. acc.map \in [Nodes -> Data] /\ acc.open \in Seq(Nodes) /\ acc = [map |-> acc.map, open |-> acc.open]
  BY DEF Visits
<1>2. Inner \subseteq Nodes
  BY PoolSize DEF Inner, Nodes
<1>3. CASE m \notin Inner
  <2>1. Visit(acc, came, m) = acc
    BY <1>3 DEF Visit
  <2> QED BY <1>1, <1>3, <2>1 DEF After, Opens
<1>4. CASE m \in Inner
  <2> DEFINE g == acc.map[came].gScore
             node == acc.map[m]
             new == After(node, came, m, g)
             put == [acc.map EXCEPT ![m] = new]
             key == [n \in Nodes |-> put[n].fScore]
  <2>1. m \in Nodes /\ node \in Data /\ g \in Nat
    BY <1>1, <1>2, <1>4 DEF Data
  <2>2. new \in Data
    <3> HIDE DEF g, node
    <3> QED BY <2>1, AfterIsData
  <2>3. put \in [Nodes -> Data]
    <3> HIDE DEF new
    <3> QED BY <1>1, <2>1, <2>2
  <2>4. CASE Opens(node, m)
    <3>1. Visit(acc, came, m) = [map |-> put, open |-> PushHeap(acc.open, m, key)]
      BY <1>4, <2>4 DEF Visit, After, Opens
    <3>2. /\ PushHeap(acc.open, m, key) \in Seq(Nodes) /\ Distinct(PushHeap(acc.open, m, key))
          /\ Elements(PushHeap(acc.open, m, key)) = Elements(acc.open) \cup {m}
      <4> HIDE DEF key
      <4> QED BY <1>1, <2>1, <2>4, PushKeeps
    <3> HIDE DEF key
    <3>3. Visit(acc, came, m) \in Visits
      <4> HIDE DEF put
      <4> QED BY <2>3, <3>1, <3>2 DEF Visits
    <3>4. \A n \in Nodes : put[n] =
            IF n = m THEN After(acc.map[n], came, n, acc.map[came].gScore) ELSE acc.map[n]
      BY <1>1, <2>1
    <3> HIDE DEF put
    <3> QED BY <2>1, <2>4, <3>1, <3>2, <3>3, <3>4
  <2>5. CASE ~Opens(node, m)
    <3>1. Visit(acc, came, m) = [map |-> put, open |-> acc.open]
      <4> DEFINE rest == [acc EXCEPT !.map = put]
      <4>1. rest = [map |-> put, open |-> acc.open]
        <5> HIDE DEF put
        <5> QED BY <1>1
      <4>2. new = node => put = acc.map
        <5> HIDE DEF new
        <5> QED BY <1>1, <2>1
      <4>3. new = node => rest = acc
        <5> HIDE DEF put, new
        <5> QED BY <1>1, <4>1, <4>2
      <4>4. CASE node.rounds = rounds_ /\ node.state = "CLOSEDSET"
        <5>1. Visit(acc, came, m) = acc /\ new = node
          BY <4>4 DEF Visit, After
        <5> QED BY <4>1, <4>3, <5>1
      <4>5. CASE ~(node.rounds = rounds_ /\ node.state = "CLOSEDSET") /\ m \in obstacles
        <5>1. Visit(acc, came, m) = rest
          BY <1>4, <4>5 DEF Visit, After
        <5> QED BY <4>1, <5>1
      <4>6. CASE ~(node.rounds = rounds_ /\ node.state = "CLOSEDSET") /\ m \notin obstacles
        <5>1. node.rounds = rounds_
          BY <1>4, <2>5, <4>6 DEF Opens
        <5>2. CASE g + StepCost(came, m) < node.gScore
          <6>1. Visit(acc, came, m) = rest
            BY <1>4, <4>6, <5>1, <5>2 DEF Visit, After
          <6> QED BY <4>1, <6>1
        <5>3. CASE ~(g + StepCost(came, m) < node.gScore)
          <6>1. Visit(acc, came, m) = acc /\ new = node
            BY <1>4, <4>6, <5>1, <5>3 DEF Visit, After
          <6> QED BY <4>1, <4>3, <6>1
        <5> QED BY <5>2, <5>3
      <4> QED BY <4>4, <4>5, <4>6
    <3>2. Visit(acc, came, m) \in Visits
      <4> HIDE DEF put
      <4> QED BY <1>1, <2>3, <3>1 DEF Visits
    <3>3. \A n \in Nodes : put[n] =
            IF n = m THEN After(acc.map[n], came, n, acc.map[came].gScore) ELSE acc.map[n]
      BY <1>1, <2>1
    <3> HIDE DEF put
    <3> QED BY <2>1, <2>5, <3>1, <3>2, <3>3
  <2> QED BY <2>4, <2>5
<1> QED BY <1>3, <1>4

\* What the first k visits from came make of the pool and queue of c.
Met(came, n, k) == \E j \in 1 .. k : n = Beside(came, Directions[j])
Visited(acc, c, came, k) ==
  /\ acc \in Visits /\ Distinct(acc.open)
  /\ \A n \in Nodes : acc.map[n] =
       IF Met(came, n, k) THEN After(c.map[n], came, n, c.map[came].gScore) ELSE c.map[n]
  /\ Elements(acc.open) =
       Elements(c.open) \cup {n \in Nodes : Met(came, n, k) /\ Opens(c.map[n], n)}

\* Each of the eight visits does to its neighbour what it would do alone.
LEMMA VisitTurn ==
  ASSUME rounds_ \in Nat, endPtr \in Nodes, NEW came \in Nodes, NEW c \in Visits,
         \A n \in Elements(c.open) : c.map[n].rounds = rounds_,
         NEW k \in 1 .. 8, NEW acc, Visited(acc, c, came, k - 1)
  PROVE  Visited(Visit(acc, came, Beside(came, Directions[k])), c, came, k)
<1> DEFINE m == Beside(came, Directions[k])
           next == Visit(acc, came, m)
<1>1. m # came /\ \A j \in 1 .. k - 1 : m # Beside(came, Directions[j])
  <2>1. k \in 1 .. 8 /\ \A j \in 1 .. k - 1 : j \in 1 .. 8 /\ j # k
    OBVIOUS
  <2> QED BY <2>1, EightNeighbours
<1>2. ~Met(came, m, k - 1) /\ ~Met(came, came, k - 1)
  <2>1. \A j \in 1 .. k - 1 : j \in 1 .. 8
    OBVIOUS
  <2>2. \A j \in 1 .. k - 1 : came # Beside(came, Directions[j])
    BY <2>1, EightNeighbours
  <2> QED BY <1>1, <2>2 DEF Met
<1>3. \A n : Met(came, n, k) <=> Met(came, n, k - 1) \/ n = m
  <2>1. \A j : j \in 1 .. k <=> j \in 1 .. k - 1 \/ j = k
    OBVIOUS
  <2> QED BY <2>1 DEF Met
<1>4. acc.map[came] = c.map[came] /\ (m \in Nodes => acc.map[m] = c.map[m])
  <2> HIDE DEF m
  <2> QED BY <1>2 DEF Visited
<1> HIDE DEF m
<1>5. m \in Nodes /\ Opens(acc.map[m], m) => m \notin Elements(acc.open)
  <2>1. SUFFICES ASSUME m \in Nodes, Opens(c.map[m], m), m \in Elements(acc.open) PROVE FALSE
    BY <1>4
  <2>2. m \in Elements(c.open)
    BY <1>2, <2>1 DEF Visited
  <2> QED BY <2>1, <2>2 DEF Opens
<1>6. /\ next \in Visits
      /\ \A n \in Nodes : next.map[n] =
           IF n = m THEN After(acc.map[n], came, n, acc.map[came].gScore) ELSE acc.map[n]
      /\ Distinct(next.open)
      /\ Elements(next.open) =
           Elements(acc.open) \cup {n \in Nodes : n = m /\ Opens(acc.map[n], n)}
  BY <1>5, VisitEffect DEF Visited
<1> HIDE DEF next
<1>7. \A n \in Nodes : next.map[n] =
        IF Met(came, n, k) THEN After(c.map[n], came, n, c.map[came].gScore) ELSE c.map[n]
  BY <1>2, <1>3, <1>4, <1>6 DEF Visited
<1>8. Elements(next.open) =
        Elements(c.open) \cup {n \in Nodes : Met(came, n, k) /\ Opens(c.map[n], n)}
  BY <1>3, <1>4, <1>6 DEF Visited
<1> QED BY <1>6, <1>7, <1>8 DEF Visited, next, m

\* The loop over the eight neighbours (AstarSearch).
LEMMA NeighbourLoop ==
  ASSUME rounds_ \in Nat, endPtr \in Nodes, NEW came \in Nodes, NEW c \in Visits,
         Distinct(c.open), \A n \in Elements(c.open) : c.map[n].rounds = rounds_,
         NEW after,
         after = CHOOSE f : f = [k \in 0 .. 8 |-> IF k = 0 THEN c
                                  ELSE Visit(f[k - 1], came, Beside(came, Directions[k]))]
  PROVE  Visited(after[8], c, came, 8)
<1> DEFINE V == [k \in 0 .. 8 |-> {acc \in Visits : Visited(acc, c, came, k)}]
           step == [p \in Visits \X (1 .. 8) |->
                      Visit(p[1], came, Beside(came, Directions[p[2]]))]
           IsAfter(f) == f = [k \in 0 .. 8 |-> IF k = 0 THEN c
                                ELSE Visit(f[k - 1], came, Beside(came, Directions[k]))]
<1>1. c \in V[0]
  <2>1. \A n : ~Met(came, n, 0)
    BY DEF Met
  <2> QED BY <2>1 DEF Visited
<1>2. \A k \in 1 .. 8 : \A a \in V[k - 1] :
        /\ a \in Visits /\ step[<<a, k>>] = Visit(a, came, Beside(came, Directions[k]))
        /\ step[<<a, k>>] \in V[k]
  <2> SUFFICES ASSUME NEW k \in 1 .. 8, NEW a \in V[k - 1]
               PROVE  /\ a \in Visits
                      /\ step[<<a, k>>] = Visit(a, came, Beside(came, Directions[k]))
                      /\ step[<<a, k>>] \in V[k]
    OBVIOUS
  <2>1. k - 1 \in 0 .. 8 /\ k \in 0 .. 8
    OBVIOUS
  <2>2. a \in Visits /\ Visited(a, c, came, k - 1)
    BY <2>1
  <2>3. Visited(Visit(a, came, Beside(came, Directions[k])), c, came, k)
    BY <2>2, VisitTurn
  <2>4. step[<<a, k>>] = Visit(a, came, Beside(came, Directions[k]))
    BY <2>2
  <2>5. Visit(a, came, Beside(came, Directions[k])) \in Visits
    BY <2>3 DEF Visited
  <2> HIDE DEF step
  <2> QED BY <2>1, <2>2, <2>3, <2>4, <2>5
<1>3. Grows(step, V, 8)
  <2> HIDE DEF step, V
  <2> QED BY <1>2 DEF Grows
<1>4. /\ \E f : f = [k \in 0 .. 8 |-> f[k]] /\ Runs(f, c, step, 8)
      /\ \A f : Runs(f, c, step, 8) => \A k \in 0 .. 8 : f[k] \in V[k]
  <2> HIDE DEF step, V
  <2> QED BY <1>1, <1>3, Loop
<1>5. \E f : IsAfter(f)
  <2>1. PICK f : f = [k \in 0 .. 8 |-> f[k]] /\ Runs(f, c, step, 8)
    BY <1>4
  <2>2. \A k \in 0 .. 8 : f[k] \in V[k]
    <3> HIDE DEF step, V
    <3> QED BY <1>4, <2>1
  <2>3. ASSUME NEW k \in 0 .. 8, k # 0
        PROVE  f[k] = Visit(f[k - 1], came, Beside(came, Directions[k]))
    <3>1. k \in 1 .. 8 /\ k - 1 \in 0 .. 8
      BY <2>3
    <3> HIDE DEF step, V
    <3> QED BY <1>2, <2>1, <2>2, <3>1 DEF Runs
  <2>4. f[0] = c
    BY <2>1 DEF Runs
  <2> HIDE DEF step, V
  <2>5. f = [k \in 0 .. 8 |-> IF k = 0 THEN c
               ELSE Visit(f[k - 1], came, Beside(came, Directions[k]))]
    BY <2>1, <2>3, <2>4
  <2> QED BY <2>5
<1>6. IsAfter(after)
  <2>1. after = CHOOSE f : IsAfter(f)
    OBVIOUS
  <2> HIDE DEF IsAfter
  <2> QED BY <1>5, <2>1
<1>7. after[8] \in V[8]
  <2>1. after[0] = c
    BY <1>6
  <2>2. \A k \in 1 .. 8 : after[k] = Visit(after[k - 1], came, Beside(came, Directions[k]))
    <3>1. \A k \in 1 .. 8 : k \in 0 .. 8 /\ k # 0
      OBVIOUS
    <3> QED BY <1>6, <3>1
  <2> DEFINE T == {k \in Nat : k <= 8 => after[k] \in V[k]}
  <2>3. 0 \in T
    BY <1>1, <2>1
  <2> HIDE DEF step, V
  <2>4. ASSUME NEW k \in Nat, k \in T PROVE k + 1 \in T
    <3>1. SUFFICES ASSUME k + 1 <= 8 PROVE after[k + 1] \in V[k + 1]
      OBVIOUS
    <3>2. after[k] \in V[k] /\ k + 1 \in 1 .. 8 /\ (k + 1) - 1 = k
      BY <2>4, <3>1
    <3>3. after[k + 1] = Visit(after[k], came, Beside(came, Directions[k + 1]))
      BY <2>2, <3>2
    <3> QED BY <1>2, <3>2, <3>3
  <2>5. \A k \in Nat : k \in T
    <3>1. \A k \in Nat : k \in T => k + 1 \in T
      BY <2>4
    <3> HIDE DEF T
    <3> QED BY <2>3, <3>1, Induction
  <2> QED BY <2>5
<1> QED BY <1>7

\* While a search runs the top of its queue is a met node, not yet closed.
LEMMA TopIsOpen ==
  ASSUME SearchInv, result = "searching", openSet_ # <<>>
  PROVE  /\ TopOf(openSet_) \in Elements(openSet_) /\ TopOf(openSet_) \in Nodes
         /\ Elements(openSet_) = OpenNodes /\ TopOf(openSet_) \in Stamped
         /\ GridNodeMap_[TopOf(openSet_)].state = "OPENSET"
<1>1. openSet_ \in Seq(Nodes) /\ Distinct(openSet_) /\ Answered
  BY DEF SearchInv, SearchTypes, Queued, Answered
<1>2. TopOf(openSet_) \in Elements(openSet_) /\ TopOf(openSet_) \in Nodes
  BY <1>1, PopKeeps
<1>3. Elements(openSet_) = OpenNodes
  BY <1>1 DEF OpenNodes, Elements, HasEnd
<1> QED BY <1>1, <1>2, <1>3 DEF SearchInv, Queued

\* A turn of the search loop that does not reach the goal: the node on top is
\* closed and its neighbours are visited.
LEMMA TurnEffect ==
  ASSUME SearchInv, Turn, TopOf(openSet_) # endPtr, NEW came, came = TopOf(openSet_)
  PROVE  /\ GridNodeMap_' \in [Nodes -> Data] /\ openSet_' \in Seq(Nodes)
         /\ \A n \in Nodes : GridNodeMap_'[n] =
              IF <<came, n>> \in Neighbours
              THEN After(GridNodeMap_[n], came, n, GridNodeMap_[came].gScore)
              ELSE IF n = came THEN [GridNodeMap_[n] EXCEPT !.state = "CLOSEDSET"]
              ELSE GridNodeMap_[n]
         /\ Distinct(openSet_')
         /\ Elements(openSet_') = (Elements(openSet_) \ {came}) \cup
              {n \in Nodes : <<came, n>> \in Neighbours /\ Opens(GridNodeMap_[n], n)}
         /\ result' \in {"searching", "late"} /\ UNCHANGED gridPath_
<1> DEFINE rest == PopHeap(openSet_, [n \in Nodes |-> GridNodeMap_[n].fScore])
           c == [map |-> [GridNodeMap_ EXCEPT ![came].state = "CLOSEDSET"], open |-> rest]
           after == CHOOSE f : f = [k \in 0 .. 8 |-> IF k = 0 THEN c
                                     ELSE Visit(f[k - 1], came, Beside(came, Directions[k]))]
<1>1. result = "searching" /\ openSet_ # <<>>
  BY DEF Turn
<1>2. /\ rounds_ \in Nat /\ endPtr \in Nodes /\ GridNodeMap_ \in [Nodes -> Data]
      /\ openSet_ \in Seq(Nodes) /\ Distinct(openSet_) /\ Answered
  BY <1>1 DEF SearchInv, SearchTypes, Queued, Answered, Free
<1>3. came \in Nodes
  BY <1>1, TopIsOpen
<1>4. /\ rest \in Seq(Nodes) /\ Distinct(rest) /\ Elements(rest) = Elements(openSet_) \ {came}
  BY <1>1, <1>2, PopKeeps
<1>5. c \in Visits /\ Distinct(c.open) /\ Elements(c.open) = Elements(openSet_) \ {came}
  <2>1. [GridNodeMap_[came] EXCEPT !.state = "CLOSEDSET"] \in Data
    BY <1>2, <1>3 DEF Data
  <2>2. [GridNodeMap_ EXCEPT ![came].state = "CLOSEDSET"] \in [Nodes -> Data]
    BY <1>2, <1>3, <2>1
  <2> HIDE DEF rest
  <2> QED BY <1>4, <2>2 DEF Visits
<1>6. \A n \in Nodes : c.map[n] = IF n = came THEN [GridNodeMap_[n] EXCEPT !.state = "CLOSEDSET"]
                                 ELSE GridNodeMap_[n]
  BY <1>2, <1>3
<1>7. \A n \in Elements(c.open) : c.map[n].rounds = rounds_
  <2>1. \A n \in Elements(openSet_) : n \in Nodes /\ GridNodeMap_[n].rounds = rounds_
    BY <1>1, <1>2, TopIsOpen DEF SearchInv, Queued, Stamped, Free
  <2> HIDE DEF c
  <2> QED BY <1>5, <1>6, <2>1
<1>8. Visited(after[8], c, came, 8)
  <2> DEFINE A == after
  <2>1. A = CHOOSE f : f = [k \in 0 .. 8 |-> IF k = 0 THEN c
                             ELSE Visit(f[k - 1], came, Beside(came, Directions[k]))]
    OBVIOUS
  <2> HIDE DEF A, c
  <2>2. Visited(A[8], c, came, 8)
    BY <1>2, <1>3, <1>5, <1>7, <2>1, NeighbourLoop
  <2> QED BY <2>2 DEF A
<1>9. /\ GridNodeMap_' = after[8].map /\ openSet_' = after[8].open
      /\ result' \in {"searching", "late"} /\ UNCHANGED gridPath_
  BY DEF Turn
<1> HIDE DEF after
<1>10. \A n \in Nodes : Met(came, n, 8) <=> <<came, n>> \in Neighbours
  BY <1>3, EightNeighbours DEF Met
<1>11. c.map[came].gScore = GridNodeMap_[came].gScore /\ <<came, came>> \notin Neighbours
  <2>1. [GridNodeMap_[came] EXCEPT !.state = "CLOSEDSET"].gScore = GridNodeMap_[came].gScore
    BY <1>2, <1>3 DEF Data
  <2>2. <<came, came>> \notin Neighbours
    BY DEF Neighbours
  <2> HIDE DEF c
  <2> QED BY <1>3, <1>6, <2>1, <2>2
<1> HIDE DEF c
<1>12. \A n \in Nodes : <<came, n>> \in Neighbours => c.map[n] = GridNodeMap_[n]
  BY <1>6, <1>11
<1>13. after[8].map \in [Nodes -> Data] /\ after[8].open \in Seq(Nodes) /\ Distinct(after[8].open)
  BY <1>8 DEF Visited, Visits
<1>14. \A n \in Nodes : after[8].map[n] =
         IF <<came, n>> \in Neighbours
         THEN After(GridNodeMap_[n], came, n, GridNodeMap_[came].gScore)
         ELSE IF n = came THEN [GridNodeMap_[n] EXCEPT !.state = "CLOSEDSET"]
         ELSE GridNodeMap_[n]
  BY <1>6, <1>8, <1>10, <1>11, <1>12 DEF Visited
<1>15. Elements(after[8].open) = (Elements(openSet_) \ {came}) \cup
         {n \in Nodes : <<came, n>> \in Neighbours /\ Opens(GridNodeMap_[n], n)}
  BY <1>5, <1>8, <1>10, <1>12 DEF Visited
<1> QED BY <1>9, <1>13, <1>14, <1>15

\* The nodes a turn meets for the first time, and those it finds a shorter way to.
FoundFrom(came) == {n \in Nodes : <<came, n>> \in Neighbours /\ Opens(GridNodeMap_[n], n)}
ShortFrom(came) ==
  {n \in (Inner \cap Stamped) \ (ClosedNodes \cup {came}) :
     /\ <<came, n>> \in Neighbours
     /\ GridNodeMap_[came].gScore + StepCost(came, n) < GridNodeMap_[n].gScore}

\* A turn as the nodes of this search see it.
LEMMA TurnNodes ==
  ASSUME SearchInv, Turn, TopOf(openSet_) # endPtr, NEW came, came = TopOf(openSet_)
  PROVE  /\ FoundFrom(came) \subseteq Inner \cap Free /\ FoundFrom(came) \cap Stamped = {}
         /\ ShortFrom(came) \subseteq Stamped /\ came \in Stamped
         /\ Stamped' = Stamped \cup FoundFrom(came)
         /\ ClosedNodes' = ClosedNodes \cup {came} /\ came \notin ClosedNodes
         /\ Elements(openSet_') = (Elements(openSet_) \ {came}) \cup FoundFrom(came)
         /\ \A n \in Stamped' :
              IF n \in FoundFrom(came) \cup ShortFrom(came)
              THEN /\ GridNodeMap_'[n].cameFrom = came
                   /\ GridNodeMap_'[n].gScore = GridNodeMap_[came].gScore + StepCost(came, n)
                   /\ n # came /\ <<came, n>> \in Neighbours
              ELSE /\ GridNodeMap_'[n].cameFrom = GridNodeMap_[n].cameFrom
                   /\ GridNodeMap_'[n].gScore = GridNodeMap_[n].gScore
         /\ \A n \in Stamped' \ {came} : GridNodeMap_'[n].state =
              IF n \in FoundFrom(came) THEN "OPENSET" ELSE GridNodeMap_[n].state
         /\ \A n \in Nodes : GridNodeMap_'[n].rounds \in {GridNodeMap_[n].rounds, rounds_}
<1> DEFINE g == GridNodeMap_[came].gScore
<1>1. result = "searching" /\ openSet_ # <<>> /\ UNCHANGED <<rounds_, startPtr, endPtr, obstacles>>
  BY DEF Turn
<1>2. /\ rounds_ \in Nat /\ GridNodeMap_ \in [Nodes -> Data] /\ Free' = Free /\ Free \subseteq Nodes
  BY <1>1 DEF SearchInv, SearchTypes, Free
<1>3. came \in Stamped /\ GridNodeMap_[came].state = "OPENSET" /\ came \in Nodes
  BY <1>1, TopIsOpen
<1>4. <<came, came>> \notin Neighbours
  BY DEF Neighbours
<1>5. /\ Elements(openSet_') = (Elements(openSet_) \ {came}) \cup FoundFrom(came)
      /\ \A n \in Nodes : GridNodeMap_'[n] =
           IF <<came, n>> \in Neighbours THEN After(GridNodeMap_[n], came, n, g)
           ELSE IF n = came THEN [GridNodeMap_[n] EXCEPT !.state = "CLOSEDSET"]
           ELSE GridNodeMap_[n]
  BY TurnEffect DEF FoundFrom
<1>6. /\ FoundFrom(came) \subseteq Inner \cap Free /\ FoundFrom(came) \cap Stamped = {}
      /\ ShortFrom(came) \subseteq Stamped
      /\ \A n \in FoundFrom(came) \cup ShortFrom(came) : n # came /\ <<came, n>> \in Neighbours
  BY <1>2, <1>4 DEF FoundFrom, ShortFrom, Opens, Free, Stamped
<1>7. ASSUME NEW n \in Nodes, <<came, n>> \in Neighbours
      PROVE  /\ After(GridNodeMap_[n], came, n, g).rounds \in {GridNodeMap_[n].rounds, rounds_}
             /\ n \in FoundFrom(came) =>
                  /\ After(GridNodeMap_[n], came, n, g).rounds = rounds_
                  /\ After(GridNodeMap_[n], came, n, g).cameFrom = came
                  /\ After(GridNodeMap_[n], came, n, g).gScore = g + StepCost(came, n)
                  /\ After(GridNodeMap_[n], came, n, g).state = "OPENSET"
             /\ n \in ShortFrom(came) =>
                  /\ After(GridNodeMap_[n], came, n, g).rounds = rounds_
                  /\ After(GridNodeMap_[n], came, n, g).cameFrom = came
                  /\ After(GridNodeMap_[n], came, n, g).gScore = g + StepCost(came, n)
                  /\ After(GridNodeMap_[n], came, n, g).state = GridNodeMap_[n].state
             /\ n \in Free /\ n \notin FoundFrom(came) \cup ShortFrom(came) =>
                  After(GridNodeMap_[n], came, n, g) = GridNodeMap_[n]
  <2> DEFINE node == GridNodeMap_[n]
  <2>1. node \in Data
    BY <1>2
  <2>2. CASE n \in FoundFrom(came)
    <3>1. n \in Inner \ obstacles /\ node.rounds # rounds_ /\ n \notin ShortFrom(came)
      BY <1>6, <2>2 DEF FoundFrom, Opens
    <3> HIDE DEF g, node
    <3>2. /\ After(node, came, n, g).rounds = rounds_ /\ After(node, came, n, g).cameFrom = came
          /\ After(node, came, n, g).gScore = g + StepCost(came, n)
          /\ After(node, came, n, g).state = "OPENSET"
      BY <2>1, <3>1 DEF After, Data
    <3> QED BY <2>2, <3>1, <3>2 DEF node
  <2>3. CASE n \in ShortFrom(came)
    <3>1. /\ n \in Inner \ obstacles /\ node.rounds = rounds_ /\ n \notin FoundFrom(came)
          /\ node.state # "CLOSEDSET" /\ g + StepCost(came, n) < node.gScore
      BY <1>6, <2>3 DEF ShortFrom, Stamped, ClosedNodes, Free
    <3> HIDE DEF g, node
    <3>2. /\ After(node, came, n, g).rounds = rounds_ /\ After(node, came, n, g).cameFrom = came
          /\ After(node, came, n, g).gScore = g + StepCost(came, n)
          /\ After(node, came, n, g).state = node.state
      BY <2>1, <3>1 DEF After, Data
    <3> QED BY <2>3, <3>1, <3>2 DEF node
  <2>4. CASE n \in Free /\ n \notin FoundFrom(came) \cup ShortFrom(came)
    <3>1. n \notin obstacles
      BY <2>4 DEF Free
    <3>2. \/ n \notin Inner
          \/ node.rounds = rounds_ /\ node.state = "CLOSEDSET"
          \/ node.rounds = rounds_ /\ ~(g + StepCost(came, n) < node.gScore)
      BY <1>3, <1>4, <1>7, <2>4, <3>1 DEF FoundFrom, ShortFrom, Opens, Stamped, ClosedNodes
    <3>3. After(node, came, n, g) = node
      <4> HIDE DEF g, node
      <4> QED BY <3>1, <3>2 DEF After
    <3> QED BY <2>4, <3>3
  <2>5. CASE n \notin Free /\ n \notin FoundFrom(came) \cup ShortFrom(came)
    <3>1. n \in obstacles
      BY <2>5 DEF Free
    <3>2. After(node, came, n, g) \in {node, [node EXCEPT !.rounds = rounds_]}
      <4> HIDE DEF g, node
      <4> QED BY <3>1 DEF After
    <3>3. After(node, came, n, g).rounds \in {node.rounds, rounds_}
      <4> HIDE DEF g, node
      <4> QED BY <2>1, <3>2 DEF Data
    <3> QED BY <2>5, <3>3
  <2> QED BY <2>2, <2>3, <2>4, <2>5
<1>8. /\ GridNodeMap_'[came].rounds = GridNodeMap_[came].rounds
      /\ GridNodeMap_'[came].cameFrom = GridNodeMap_[came].cameFrom
      /\ GridNodeMap_'[came].gScore = GridNodeMap_[came].gScore
      /\ GridNodeMap_'[came].state = "CLOSEDSET"
  <2>1. GridNodeMap_'[came] = [GridNodeMap_[came] EXCEPT !.state = "CLOSEDSET"]
    BY <1>3, <1>4, <1>5
  <2> QED BY <1>2, <1>3, <2>1 DEF Data
<1> HIDE DEF g
<1>9. ASSUME NEW n \in Nodes
      PROVE  GridNodeMap_'[n].rounds \in {GridNodeMap_[n].rounds, rounds_}
  BY <1>5, <1>7, <1>8
<1>10. ASSUME NEW n \in Free
       PROVE  /\ n \in FoundFrom(came) \cup ShortFrom(came) =>
                   /\ GridNodeMap_'[n].rounds = rounds_ /\ GridNodeMap_'[n].cameFrom = came
                   /\ GridNodeMap_'[n].gScore = g + StepCost(came, n)
                   /\ GridNodeMap_'[n].state =
                        IF n \in FoundFrom(came) THEN "OPENSET" ELSE GridNodeMap_[n].state
              /\ n \notin FoundFrom(came) \cup ShortFrom(came) =>
                   /\ GridNodeMap_'[n].rounds = GridNodeMap_[n].rounds
                   /\ GridNodeMap_'[n].cameFrom = GridNodeMap_[n].cameFrom
                   /\ GridNodeMap_'[n].gScore = GridNodeMap_[n].gScore
                   /\ n # came => GridNodeMap_'[n].state = GridNodeMap_[n].state
  <2>1. n \in Nodes
    BY <1>2
  <2>2. CASE <<came, n>> \in Neighbours
    <3>1. GridNodeMap_'[n] = After(GridNodeMap_[n], came, n, g)
      BY <1>5, <2>1, <2>2
    <3>2. n \in ShortFrom(came) => n \notin FoundFrom(came)
      BY <1>6
    <3> QED BY <1>7, <2>1, <2>2, <3>1, <3>2
  <2>3. CASE n = came
    BY <1>3, <1>4, <1>6, <1>8, <2>3 DEF Stamped
  <2>4. CASE <<came, n>> \notin Neighbours /\ n # came
    <3>1. GridNodeMap_'[n] = GridNodeMap_[n] /\ n \notin FoundFrom(came) \cup ShortFrom(came)
      BY <1>5, <1>6, <2>1, <2>4
    <3> QED BY <2>4, <3>1
  <2> QED BY <2>2, <2>3, <2>4
<1>11. Stamped' = Stamped \cup FoundFrom(came)
  <2>1. Stamped' = {n \in Free : GridNodeMap_'[n].rounds = rounds_}
    BY <1>1, <1>2 DEF Stamped
  <2> QED BY <1>6, <1>10, <2>1 DEF Stamped
<1>12. ClosedNodes' = ClosedNodes \cup {came} /\ came \notin ClosedNodes
  <2>1. ClosedNodes' = {n \in Stamped' : GridNodeMap_'[n].state = "CLOSEDSET"}
    BY DEF ClosedNodes
  <2>2. \A n \in Stamped' : n \in Free
    BY <1>2 DEF Stamped
  <2>3. came \in Stamped'
    BY <1>3, <1>11
  <2>4. \A n \in ClosedNodes : n \in Stamped /\ n # came /\ n \notin FoundFrom(came)
    BY <1>3, <1>6 DEF ClosedNodes
  <2>5. ASSUME NEW n \in Stamped', n # came
        PROVE  GridNodeMap_'[n].state = "CLOSEDSET" <=> n \in ClosedNodes
    BY <1>6, <1>10, <1>11, <2>2, <2>4, <2>5 DEF ClosedNodes
  <2> QED BY <1>3, <1>8, <1>11, <2>1, <2>3, <2>4, <2>5
<1>13. \A n \in Stamped' : n \in Free
  BY <1>2 DEF Stamped
<1>14. \A n \in Stamped' \ {came} : GridNodeMap_'[n].state =
         IF n \in FoundFrom(came) THEN "OPENSET" ELSE GridNodeMap_[n].state
  BY <1>10, <1>13
<1> QED BY <1>3, <1>5, <1>6, <1>9, <1>10, <1>11, <1>12, <1>13, <1>14 DEF g
-----------------------------------------------------------------------------
\* The pool is a grid: what is proved above of BestFirst holds of a search on it.
LEMMA PoolIsGrid == FreshSearch!IsGrid
<1>1. Inner \subseteq Nodes
  BY PoolSize DEF Inner, Nodes
<1>2. \A e \in Neighbours : EdgeCost[e] \in Nat
  BY DEF EdgeCost, StepCost, Diagonal, Straight
<1>3. EdgeCost \in [Neighbours -> Nat]
  BY <1>2 DEF EdgeCost
<1> QED BY <1>1, <1>3, NullIsNoNode DEF FreshSearch!IsGrid, Neighbours

\* A call of the search is refused, or the start alone is stamped and queued.
LEMMA BeginEffect ==
  ASSUME SearchInv, NEW d, NEW occ, AstarSearch(d, occ)
  PROVE  /\ result \notin {"searching", "retrieving"} /\ rounds_' = rounds_ + 1
         /\ UNCHANGED gridPath_
         /\ \/ /\ result' = "refused" /\ UNCHANGED <<GridNodeMap_, openSet_>>
               /\ Stamped' = {}
            \/ /\ result' = "searching" /\ startPtr' \in Free' /\ endPtr' \in Free'
               /\ GridNodeMap_' \in [Nodes -> Data]
               /\ GridNodeMap_'[startPtr'].state = "OPENSET"
               /\ GridNodeMap_'[startPtr'].gScore = 0
               /\ GridNodeMap_'[startPtr'].cameFrom = NoNode
               /\ \A n \in Nodes : GridNodeMap_'[n].rounds <= rounds_'
               /\ openSet_' = <<startPtr'>> /\ Stamped' = {startPtr'}
<1> DEFINE s == PushOut(<<-(d[1] \div 2), -(d[2] \div 2)>>, Unit(<<-d[1], -d[2]>>), occ)
           t == PushOut(<<d[1] \div 2, d[2] \div 2>>, Unit(d), occ)
           entry == [rounds |-> rounds_ + 1, state |-> "OPENSET", gScore |-> 0,
                     fScore |-> getHeu(s, t), cameFrom |-> NoNode]
<1>1. /\ result \notin {"searching", "retrieving"} /\ rounds_' = rounds_ + 1 /\ obstacles' = occ
      /\ IF s = NoNode \/ t = NoNode
         THEN /\ result' = "refused"
              /\ UNCHANGED <<GridNodeMap_, openSet_, startPtr, endPtr, gridPath_>>
         ELSE /\ result' = "searching" /\ startPtr' = s /\ endPtr' = t
              /\ GridNodeMap_' = [GridNodeMap_ EXCEPT ![s] = entry]
              /\ openSet_' = <<s>> /\ UNCHANGED gridPath_
  BY DEF AstarSearch
<1>2. (s # NoNode => s \in Nodes \ occ) /\ (t # NoNode => t \in Nodes \ occ)
  BY PushedIsFree
<1> HIDE DEF s, t
<1>3. /\ rounds_ \in Nat /\ GridNodeMap_ \in [Nodes -> Data]
      /\ \A n \in Nodes : GridNodeMap_[n].rounds \in Nat /\ GridNodeMap_[n].rounds <= rounds_
  BY DEF SearchInv, SearchTypes, Ages, Data
<1>4. CASE s = NoNode \/ t = NoNode
  <2>1. \A n \in Nodes : GridNodeMap_[n].rounds # rounds_ + 1
    BY <1>3
  <2>2. Stamped' = {}
    BY <1>1, <1>4, <2>1 DEF Stamped, Free
  <2> QED BY <1>1, <1>4, <2>2
<1>5. CASE s # NoNode /\ t # NoNode
  <2>1. s \in Nodes /\ t \in Nodes /\ s \in Free' /\ t \in Free'
    BY <1>1, <1>2, <1>5 DEF Free
  <2>2. entry \in Data
    BY <1>3, <2>1, CostsAreNat DEF Data
  <2>3. /\ entry.rounds = rounds_ + 1 /\ entry.state = "OPENSET" /\ entry.gScore = 0
        /\ entry.cameFrom = NoNode
    OBVIOUS
  <2> HIDE DEF entry
  <2>4. /\ GridNodeMap_' \in [Nodes -> Data] /\ GridNodeMap_'[s] = entry
        /\ \A n \in Nodes : n # s => GridNodeMap_'[n] = GridNodeMap_[n]
    BY <1>1, <1>3, <1>5, <2>1, <2>2
  <2>5. \A n \in Nodes : /\ GridNodeMap_'[n].rounds <= rounds_ + 1
                         /\ GridNodeMap_'[n].rounds = rounds_ + 1 <=> n = s
    BY <1>3, <2>3, <2>4
  <2>6. Stamped' = {s}
    <3>1. Stamped' = {n \in Free' : GridNodeMap_'[n].rounds = rounds_ + 1} /\ Free' \subseteq Nodes
      BY <1>1 DEF Stamped, Free
    <3> QED BY <2>1, <2>5, <3>1
  <2>7. startPtr' = s /\ endPtr' = t /\ result' = "searching" /\ openSet_' = <<s>>
        /\ UNCHANGED gridPath_
    BY <1>1, <1>5
  <2>8. /\ GridNodeMap_'[startPtr'].state = "OPENSET" /\ GridNodeMap_'[startPtr'].gScore = 0
        /\ GridNodeMap_'[startPtr'].cameFrom = NoNode
    BY <2>3, <2>4, <2>7
  <2>9. \A n \in Nodes : GridNodeMap_'[n].rounds <= rounds_'
    BY <1>1, <2>5
  <2>10. startPtr' \in Free' /\ endPtr' \in Free' /\ openSet_' = <<startPtr'>>
         /\ Stamped' = {startPtr'}
    BY <2>1, <2>6, <2>7
  <2> QED BY <1>1, <2>4, <2>7, <2>8, <2>9, <2>10
<1> QED BY <1>1, <1>4, <1>5

\* The invariant holds before the first search.
LEMMA InitSearch == Init => SearchInv
<1> SUFFICES ASSUME Init PROVE SearchInv
  OBVIOUS
<1>1. result = "idle" /\ rounds_ = 0 /\ GridNodeMap_ = [n \in Nodes |-> Fresh]
      /\ openSet_ = <<>> /\ gridPath_ = <<>>
  BY DEF Init
<1>2. ~Answered /\ ~HasEnd
  BY <1>1 DEF Answered, HasEnd
<1>3. Fresh \in Data /\ Fresh.rounds = 0
  BY DEF Fresh, Data
<1>4. GridNodeMap_ \in [Nodes -> Data] /\ openSet_ \in Seq(Nodes) /\ gridPath_ \in Seq(Nodes)
  BY <1>1, <1>3
<1>5. SearchTypes
  BY <1>1, <1>2, <1>4 DEF SearchTypes
<1>6. Ages
  BY <1>1, <1>3 DEF Ages
<1> QED BY <1>2, <1>5, <1>6 DEF SearchInv, Queued, Tree, Cut, Walk

\* A new search starts from what the last one left (AstarSearch).
LEMMA BeginStep ==
  ASSUME SearchInv, NEW d, NEW occ, AstarSearch(d, occ)
  PROVE  SearchInv'
<1>1. /\ rounds_ \in Nat /\ gridPath_ \in Seq(Nodes) /\ GridNodeMap_ \in [Nodes -> Data]
      /\ openSet_ \in Seq(Nodes) /\ \A n \in Nodes : GridNodeMap_[n].rounds <= rounds_
      /\ \A n \in Nodes : GridNodeMap_[n].rounds \in Nat
  BY DEF SearchInv, SearchTypes, Ages, Data
<1>2. rounds_' = rounds_ + 1 /\ gridPath_' = gridPath_
  BY BeginEffect
<1>3. CASE result' = "refused"
  <2>1. GridNodeMap_' = GridNodeMap_ /\ openSet_' = openSet_
    BY <1>3, BeginEffect
  <2>2. ~Answered' /\ ~HasEnd'
    BY <1>3 DEF Answered, HasEnd
  <2>3. SearchTypes'
    BY <1>1, <1>2, <1>3, <2>1, <2>2 DEF SearchTypes
  <2>4. Ages'
    <3>1. \A n \in Nodes : GridNodeMap_[n].rounds < rounds_ + 1
      BY <1>1
    <3> QED BY <1>1, <1>2, <1>3, <2>1, <3>1 DEF Ages
  <2> QED BY <2>2, <2>3, <2>4 DEF SearchInv, Queued, Tree, Cut, Walk
<1>4. CASE result' # "refused"
  <2>1. /\ result' = "searching" /\ startPtr' \in Free' /\ endPtr' \in Free'
        /\ GridNodeMap_' \in [Nodes -> Data] /\ GridNodeMap_'[startPtr'].state = "OPENSET"
        /\ GridNodeMap_'[startPtr'].gScore = 0 /\ GridNodeMap_'[startPtr'].cameFrom = NoNode
        /\ \A n \in Nodes : GridNodeMap_'[n].rounds <= rounds_'
        /\ openSet_' = <<startPtr'>> /\ Stamped' = {startPtr'}
    BY <1>4, BeginEffect
  <2>2. Answered' /\ ~HasEnd' /\ startPtr' \in Nodes
    BY <2>1 DEF Answered, HasEnd, Free
  <2>3. Distinct(openSet_') /\ Elements(openSet_') = {startPtr'} /\ openSet_' \in Seq(Nodes)
    BY <2>1, <2>2 DEF Distinct, Elements
  <2>4. OpenNodes' = {startPtr'} /\ ClosedNodes' = {}
    <3>1. OpenNodes' = Elements(openSet_')
      BY <2>2 DEF OpenNodes, Elements
    <3>2. ClosedNodes' = {n \in Stamped' : GridNodeMap_'[n].state = "CLOSEDSET"}
      BY DEF ClosedNodes
    <3> QED BY <2>1, <2>3, <3>1, <3>2
  <2>5. SearchTypes'
    BY <1>1, <1>2, <2>1, <2>3 DEF SearchTypes
  <2>6. Ages'
    BY <2>1 DEF Ages
  <2>7. Queued'
    BY <2>1, <2>2, <2>3, <2>4 DEF Queued
  <2>8. Tree'
    BY <2>1 DEF Tree
  <2>9. Cut'
    BY <2>1, <2>4 DEF Cut
  <2> QED BY <2>2, <2>5, <2>6, <2>7, <2>8, <2>9 DEF SearchInv, Walk
<1> QED BY <1>3, <1>4

\* The turn that takes the goal off the queue: the goal stays met.
LEMMA ReachEffect ==
  ASSUME SearchInv, Turn, TopOf(openSet_) = endPtr
  PROVE  /\ result = "searching" /\ result' = "retrieving" /\ gridPath_' = <<endPtr>>
         /\ UNCHANGED <<rounds_, GridNodeMap_, startPtr, endPtr, obstacles>>
         /\ openSet_' \in Seq(Nodes) /\ Distinct(openSet_')
         /\ Elements(openSet_') = Elements(openSet_) \ {endPtr}
         /\ endPtr \in OpenNodes /\ OpenNodes' = OpenNodes
         /\ Stamped' = Stamped /\ ClosedNodes' = ClosedNodes
<1> DEFINE rest == PopHeap(openSet_, [n \in Nodes |-> GridNodeMap_[n].fScore])
<1>1. /\ result = "searching" /\ openSet_ # <<>> /\ result' = "retrieving" /\ openSet_' = rest
      /\ gridPath_' = <<endPtr>> /\ UNCHANGED <<rounds_, GridNodeMap_, startPtr, endPtr, obstacles>>
  BY DEF Turn
<1>2. openSet_ \in Seq(Nodes) /\ Distinct(openSet_)
  BY <1>1 DEF SearchInv, SearchTypes, Queued, Answered
<1>3. rest \in Seq(Nodes) /\ Distinct(rest) /\ Elements(rest) = Elements(openSet_) \ {endPtr}
  BY <1>1, <1>2, PopKeeps
<1>4. endPtr \in Elements(openSet_) /\ OpenNodes = Elements(openSet_)
  BY <1>1, TopIsOpen
<1>5. OpenNodes' = Elements(openSet_') \cup {endPtr'}
  BY <1>1 DEF OpenNodes, Answered, HasEnd, Elements
<1>6. Stamped' = Stamped /\ ClosedNodes' = ClosedNodes
  BY <1>1 DEF Stamped, Free, ClosedNodes
<1> HIDE DEF rest
<1> QED BY <1>1, <1>3, <1>4, <1>5, <1>6

\* The goal is reached.
LEMMA ReachStep ==
  ASSUME SearchInv, Turn, TopOf(openSet_) = endPtr
  PROVE  SearchInv'
<1>1. /\ result = "searching" /\ result' = "retrieving" /\ gridPath_' = <<endPtr>>
      /\ UNCHANGED <<rounds_, GridNodeMap_, startPtr, endPtr, obstacles>>
      /\ openSet_' \in Seq(Nodes) /\ Distinct(openSet_')
      /\ Elements(openSet_') = Elements(openSet_) \ {endPtr}
      /\ endPtr \in OpenNodes /\ OpenNodes' = OpenNodes
      /\ Stamped' = Stamped /\ ClosedNodes' = ClosedNodes
  BY ReachEffect
<1>2. Answered /\ Answered' /\ HasEnd' /\ Free' = Free
  BY <1>1 DEF Answered, HasEnd, Free
<1>3. endPtr \in Stamped /\ endPtr \in Nodes
  BY <1>1, <1>2 DEF SearchInv, Queued, Stamped, Free
<1>4. SearchTypes'
  <2>1. <<endPtr>> \in Seq(Nodes)
    BY <1>3
  <2> QED BY <1>1, <1>2, <2>1 DEF SearchInv, SearchTypes
<1>5. Ages'
  BY <1>1 DEF SearchInv, Ages
<1>6. Queued'
  BY <1>1, <1>2 DEF SearchInv, Queued
<1>7. Tree'
  BY <1>1, <1>2 DEF SearchInv, Tree
<1>8. Cut'
  BY <1>1, <1>2 DEF SearchInv, Cut
<1>9. Walk'
  BY <1>1, <1>3 DEF Walk
<1> QED BY <1>4, <1>5, <1>6, <1>7, <1>8, <1>9 DEF SearchInv

\* A node is expanded.
LEMMA ExpandStep ==
  ASSUME SearchInv, Turn, TopOf(openSet_) # endPtr
  PROVE  SearchInv'
<1> DEFINE came == TopOf(openSet_)
           F == FoundFrom(came)
           R == FoundFrom(came) \cup ShortFrom(came)
<1>1. result = "searching" /\ openSet_ # <<>> /\ UNCHANGED <<rounds_, startPtr, endPtr, obstacles>>
  BY DEF Turn
<1>2. /\ GridNodeMap_' \in [Nodes -> Data] /\ openSet_' \in Seq(Nodes) /\ Distinct(openSet_')
      /\ result' \in {"searching", "late"} /\ gridPath_' = gridPath_
  BY TurnEffect
<1>3. /\ F \subseteq Inner \cap Free /\ F \cap Stamped = {}
      /\ ShortFrom(came) \subseteq Stamped /\ came \in Stamped
      /\ Stamped' = Stamped \cup F
      /\ ClosedNodes' = ClosedNodes \cup {came} /\ came \notin ClosedNodes
      /\ Elements(openSet_') = (Elements(openSet_) \ {came}) \cup F
      /\ \A n \in Stamped' :
           IF n \in R
           THEN /\ GridNodeMap_'[n].cameFrom = came
                /\ GridNodeMap_'[n].gScore = GridNodeMap_[came].gScore + StepCost(came, n)
                /\ n # came /\ <<came, n>> \in Neighbours
           ELSE /\ GridNodeMap_'[n].cameFrom = GridNodeMap_[n].cameFrom
                /\ GridNodeMap_'[n].gScore = GridNodeMap_[n].gScore
      /\ \A n \in Stamped' \ {came} : GridNodeMap_'[n].state =
           IF n \in F THEN "OPENSET" ELSE GridNodeMap_[n].state
      /\ \A n \in Nodes : GridNodeMap_'[n].rounds \in {GridNodeMap_[n].rounds, rounds_}
  BY TurnNodes
<1>4. /\ came \in Elements(openSet_) /\ Elements(openSet_) = OpenNodes /\ came # endPtr
      /\ GridNodeMap_[came].state = "OPENSET" /\ came \in Nodes
  BY <1>1, TopIsOpen
<1>5. Answered /\ Answered' /\ ~HasEnd' /\ ~HasEnd /\ Free' = Free
  BY <1>1, <1>2 DEF Answered, HasEnd, Free
<1>6. OpenNodes' = (OpenNodes \ {came}) \cup F
  <2>1. OpenNodes' = Elements(openSet_')
    BY <1>5 DEF OpenNodes, Elements
  <2> QED BY <1>3, <1>4, <2>1
<1>7. SearchTypes'
  BY <1>1, <1>2, <1>5 DEF SearchInv, SearchTypes
<1>8. Ages'
  <2>1. \A n \in Nodes : GridNodeMap_'[n].rounds <= rounds_
    BY <1>3 DEF SearchInv, SearchTypes, Ages
  <2> QED BY <1>1, <1>2, <2>1 DEF Ages
<1> HIDE DEF came, F, R
<1>9. Queued'
  <2>1. \A n \in OpenNodes : n \in Stamped /\ GridNodeMap_[n].state = "OPENSET"
    BY <1>5 DEF SearchInv, Queued
  <2>2. \A n \in OpenNodes' : n \in Stamped' /\ GridNodeMap_'[n].state = "OPENSET"
    BY <1>3, <1>4, <1>6, <2>1
  <2>3. Stamped' \subseteq OpenNodes' \cup ClosedNodes'
    BY <1>3, <1>5, <1>6 DEF SearchInv, Queued
  <2> QED BY <1>2, <1>5, <2>2, <2>3 DEF Queued
<1>10. Tree'
  <2>1. startPtr \in Stamped /\ GridNodeMap_[startPtr].gScore = 0
    BY <1>5 DEF SearchInv, Cut, Tree
  <2>2. startPtr \notin R
    <3>1. startPtr \notin F
      BY <1>3, <2>1
    <3>2. ASSUME startPtr \in ShortFrom(came) PROVE FALSE
      <4>1. startPtr \in Nodes /\ GridNodeMap_[came].gScore \in Nat
        BY <1>4, <2>1 DEF SearchInv, SearchTypes, Stamped, Free, Data
      <4>2. StepCost(came, startPtr) \in Nat \ {0}
        BY <1>4, <4>1, CostsAreNat
      <4> QED BY <2>1, <3>2, <4>1, <4>2 DEF ShortFrom
    <3> QED BY <3>1, <3>2 DEF R, F
  <2>3. \A n \in ClosedNodes' : n \in Stamped /\ GridNodeMap_'[n].gScore = GridNodeMap_[n].gScore
    <3>1. \A n \in ClosedNodes : n \in Stamped /\ n \notin R
      BY <1>3 DEF ClosedNodes, ShortFrom, R, F
    <3>2. came \in Stamped' /\ came \notin R
      BY <1>3
    <3> QED BY <1>3, <3>1, <3>2
  <2>4. ASSUME NEW n \in Stamped'
        PROVE  IF n = startPtr
               THEN GridNodeMap_'[n].cameFrom = NoNode /\ GridNodeMap_'[n].gScore = 0
               ELSE LET from == GridNodeMap_'[n].cameFrom
                    IN  /\ from \in ClosedNodes' /\ <<from, n>> \in Neighbours
                        /\ GridNodeMap_'[n].gScore = GridNodeMap_'[from].gScore + StepCost(from, n)
    <3>1. CASE n \in R
      <4>1. came \in ClosedNodes'
        BY <1>3
      <4>2. GridNodeMap_'[came].gScore = GridNodeMap_[came].gScore
        BY <2>3, <4>1
      <4>3. /\ GridNodeMap_'[n].cameFrom = came /\ <<came, n>> \in Neighbours
            /\ GridNodeMap_'[n].gScore = GridNodeMap_[came].gScore + StepCost(came, n)
        BY <1>3, <2>4, <3>1
      <4>4. n # startPtr
        BY <2>2, <3>1
      <4> HIDE DEF R
      <4> QED BY <4>1, <4>2, <4>3, <4>4
    <3>2. CASE n \notin R
      <4>1. n \in Stamped
        BY <1>3, <3>2 DEF R, F
      <4>2. /\ GridNodeMap_'[n].cameFrom = GridNodeMap_[n].cameFrom
            /\ GridNodeMap_'[n].gScore = GridNodeMap_[n].gScore
        BY <1>3, <3>2
      <4>3. IF n = startPtr
            THEN GridNodeMap_[n].cameFrom = NoNode /\ GridNodeMap_[n].gScore = 0
            ELSE LET from == GridNodeMap_[n].cameFrom
                 IN  /\ from \in ClosedNodes /\ <<from, n>> \in Neighbours
                     /\ GridNodeMap_[n].gScore = GridNodeMap_[from].gScore + StepCost(from, n)
        BY <1>5, <4>1 DEF SearchInv, Tree
      <4>4. \A m \in ClosedNodes : m \in ClosedNodes'
        BY <1>3
      <4> QED BY <2>3, <4>2, <4>3, <4>4
    <3> QED BY <3>1, <3>2
  <2> QED BY <1>1, <2>4 DEF Tree
<1>11. Cut'
  <2>1. startPtr' \in Stamped' /\ endPtr' \notin ClosedNodes'
    BY <1>1, <1>3, <1>4, <1>5 DEF SearchInv, Cut
  <2>2. ASSUME NEW e \in Neighbours, e[1] \in ClosedNodes', e[2] \in Inner \cap Free'
        PROVE  e[2] \in Stamped'
    <3>1. CASE e[1] \in ClosedNodes
      BY <1>3, <1>5, <2>2, <3>1 DEF SearchInv, Cut
    <3>2. CASE e[1] = came
      <4>1. e = <<came, e[2]>> /\ e[2] \in Nodes
        BY <2>2, <3>2 DEF Neighbours
      <4>2. e[2] \in Stamped \/ e[2] \in F
        BY <1>5, <2>2, <4>1 DEF F, FoundFrom, Opens, Stamped, Free
      <4> QED BY <1>3, <4>2
    <3> QED BY <1>3, <2>2, <3>1, <3>2
  <2> QED BY <1>2, <2>1, <2>2 DEF Cut
<1> QED BY <1>5, <1>7, <1>8, <1>9, <1>10, <1>11 DEF SearchInv, Walk

\* What a turn back along the parents leaves alone.
LEMMA RetrieveFrame ==
  ASSUME SearchInv, retrievePath
  PROVE  /\ result = "retrieving" /\ result' \in {"retrieving", "found"}
         /\ UNCHANGED <<rounds_, GridNodeMap_, openSet_, startPtr, endPtr, obstacles>>
         /\ Answered /\ Answered' /\ HasEnd /\ HasEnd' /\ Free' = Free
         /\ Stamped' = Stamped /\ ClosedNodes' = ClosedNodes /\ OpenNodes' = OpenNodes
<1>1. /\ result = "retrieving" /\ result' \in {"retrieving", "found"}
      /\ UNCHANGED <<rounds_, GridNodeMap_, openSet_, startPtr, endPtr, obstacles>>
  BY DEF retrievePath
<1>2. Answered /\ Answered' /\ HasEnd /\ HasEnd' /\ Free' = Free
  BY <1>1 DEF Answered, HasEnd, Free
<1>3. Stamped' = Stamped
  BY <1>1, <1>2 DEF Stamped
<1>4. ClosedNodes' = ClosedNodes
  BY <1>1, <1>3 DEF ClosedNodes
<1>5. OpenNodes' = OpenNodes
  BY <1>1, <1>2 DEF OpenNodes
<1> QED BY <1>1, <1>2, <1>3, <1>4, <1>5

\* The path grows by a parent, or is complete (retrievePath).
LEMMA RetrieveStep ==
  ASSUME SearchInv, retrievePath
  PROVE  SearchInv'
<1> DEFINE last == gridPath_[Len(gridPath_)]
           from == GridNodeMap_[last].cameFrom
<1>1. /\ result = "retrieving" /\ result' \in {"retrieving", "found"}
      /\ UNCHANGED <<rounds_, GridNodeMap_, openSet_, startPtr, endPtr, obstacles>>
      /\ Answered /\ Answered' /\ HasEnd /\ HasEnd' /\ Free' = Free
      /\ Stamped' = Stamped /\ ClosedNodes' = ClosedNodes /\ OpenNodes' = OpenNodes
  BY RetrieveFrame
<1>2. /\ gridPath_ \in Seq(Nodes) /\ gridPath_ # <<>> /\ gridPath_[1] = endPtr
      /\ \A i \in 1 .. Len(gridPath_) : gridPath_[i] \in Stamped
      /\ \A i \in 1 .. Len(gridPath_) - 1 : gridPath_[i + 1] = GridNodeMap_[gridPath_[i]].cameFrom
      /\ \A i, j \in 1 .. Len(gridPath_) : i < j =>
           GridNodeMap_[gridPath_[i]].gScore > GridNodeMap_[gridPath_[j]].gScore
  BY <1>1 DEF SearchInv, SearchTypes, Walk
<1>3. Len(gridPath_) \in Nat \ {0} /\ last \in Stamped
  <2>1. Len(gridPath_) \in Nat \ {0}
    BY <1>2, EmptySeq
  <2> QED BY <1>2, <2>1
<1>4. Queued' /\ Tree' /\ Cut' /\ Ages'
  <2>1. Queued'
    BY <1>1 DEF SearchInv, Queued
  <2>2. Tree'
    BY <1>1 DEF SearchInv, Tree
  <2>3. Cut'
    BY <1>1 DEF SearchInv, Cut
  <2>4. Ages'
    BY <1>1 DEF SearchInv, Ages
  <2> QED BY <2>1, <2>2, <2>3, <2>4
<1>5. CASE from = NoNode
  <2>1. gridPath_' = gridPath_ /\ result' = "found"
    BY <1>5 DEF retrievePath
  <2>2. SearchTypes'
    BY <1>1, <2>1 DEF SearchInv, SearchTypes
  <2>3. Walk'
    BY <1>1, <1>2, <1>5, <2>1 DEF Walk
  <2> QED BY <1>4, <2>2, <2>3 DEF SearchInv
<1>6. CASE from # NoNode
  <2>1. gridPath_' = Append(gridPath_, from) /\ result' = "retrieving"
    BY <1>1, <1>6 DEF retrievePath
  <2>2. /\ from \in ClosedNodes /\ <<from, last>> \in Neighbours
        /\ GridNodeMap_[last].gScore = GridNodeMap_[from].gScore + StepCost(from, last)
    <3> HIDE DEF last
    <3> QED BY <1>1, <1>3, <1>6 DEF SearchInv, Tree
  <2>3. from \in Stamped /\ from \in Nodes /\ last \in Nodes
    BY <1>3, <2>2 DEF ClosedNodes, Stamped, Free
  <2>4. /\ GridNodeMap_[last].gScore > GridNodeMap_[from].gScore
        /\ \A n \in Nodes : GridNodeMap_[n].gScore \in Nat
    <3>1. \A n \in Nodes : GridNodeMap_[n].gScore \in Nat
      BY DEF SearchInv, SearchTypes, Data
    <3>2. StepCost(from, last) \in Nat \ {0}
      BY <2>3, CostsAreNat
    <3> HIDE DEF last, from
    <3> QED BY <2>2, <2>3, <3>1, <3>2
  <2> DEFINE len == Len(gridPath_)
             path == Append(gridPath_, from)
  <2>5. /\ path \in Seq(Nodes) /\ Len(path) = len + 1 /\ path # <<>> /\ path[len + 1] = from
        /\ \A i \in 1 .. len : path[i] = gridPath_[i]
    <3> HIDE DEF from
    <3> QED BY <1>2, <2>3
  <2>6. \A i \in 1 .. len + 1 : i \in 1 .. len \/ i = len + 1
    BY <1>3
  <2>7. path[1] = endPtr /\ \A i \in 1 .. len + 1 : path[i] \in Stamped
    <3> HIDE DEF path, from
    <3>1. 1 \in 1 .. len
      BY <1>3
    <3> QED BY <1>2, <2>3, <2>5, <2>6, <3>1
  <2>8. \A i \in 1 .. len : path[i + 1] = GridNodeMap_[path[i]].cameFrom
    <3> SUFFICES ASSUME NEW i \in 1 .. len PROVE path[i + 1] = GridNodeMap_[path[i]].cameFrom
      OBVIOUS
    <3>1. CASE i = len
      BY <2>5, <3>1
    <3>2. CASE i # len
      <4>1. i \in 1 .. len - 1 /\ i + 1 \in 1 .. len
        BY <1>3, <3>2
      <4> HIDE DEF path
      <4> QED BY <1>2, <2>5, <4>1
    <3> QED BY <3>1, <3>2
  <2>9. \A i, j \in 1 .. len + 1 : i < j =>
          GridNodeMap_[path[i]].gScore > GridNodeMap_[path[j]].gScore
    <3> SUFFICES ASSUME NEW i \in 1 .. len + 1, NEW j \in 1 .. len + 1, i < j
                 PROVE  GridNodeMap_[path[i]].gScore > GridNodeMap_[path[j]].gScore
      OBVIOUS
    <3>1. i \in 1 .. len /\ path[i] = gridPath_[i]
      <4> HIDE DEF path
      <4> QED BY <1>3, <2>5
    <3>2. CASE j \in 1 .. len
      <4> HIDE DEF path
      <4> QED BY <1>2, <2>5, <3>1, <3>2
    <3>3. CASE j = len + 1
      <4>1. GridNodeMap_[gridPath_[i]].gScore >= GridNodeMap_[last].gScore
        <5>1. gridPath_[i] \in Nodes
          BY <1>2, <3>1 DEF Stamped, Free
        <5>2. CASE i = len
          BY <2>4, <5>1, <5>2
        <5>3. CASE i # len
          <6>1. len \in 1 .. len /\ i < len
            BY <1>3, <3>1, <5>3
          <6> QED BY <1>2, <2>3, <2>4, <3>1, <5>1, <6>1
        <5> QED BY <5>2, <5>3
      <4>2. path[j] = from /\ gridPath_[i] \in Nodes
        <5> HIDE DEF path, from
        <5> QED BY <1>2, <2>5, <3>1, <3>3 DEF Stamped, Free
      <4> HIDE DEF path, from, last
      <4> QED BY <2>3, <2>4, <3>1, <4>1, <4>2
    <3> QED BY <2>6, <3>2, <3>3
  <2>10. SearchTypes'
    <3> HIDE DEF path, from
    <3> QED BY <1>1, <2>1, <2>5 DEF SearchInv, SearchTypes, path
  <2>11. Walk'
    <3>1. gridPath_' = path /\ Len(path) - 1 = len
      <4> HIDE DEF from
      <4> QED BY <1>3, <2>1, <2>5
    <3> HIDE DEF path, from, len
    <3> QED BY <1>1, <2>1, <2>5, <2>7, <2>8, <2>9, <3>1 DEF Walk
  <2> QED BY <1>4, <2>10, <2>11 DEF SearchInv
<1> QED BY <1>5, <1>6

\* The queue is empty.
LEMMA NoPathStep ==
  ASSUME SearchInv, NoPath
  PROVE  SearchInv'
<1>1. /\ result = "searching" /\ openSet_ = <<>> /\ result' = "none"
      /\ UNCHANGED <<rounds_, GridNodeMap_, openSet_, startPtr, endPtr, gridPath_, obstacles>>
  BY DEF NoPath
<1>2. Answered /\ Answered' /\ ~HasEnd /\ ~HasEnd' /\ Free' = Free
  BY <1>1 DEF Answered, HasEnd, Free
<1>3. Stamped' = Stamped /\ OpenNodes' = OpenNodes
  BY <1>1, <1>2 DEF Stamped, OpenNodes
<1>4. ClosedNodes' = ClosedNodes
  BY <1>1, <1>3 DEF ClosedNodes
<1>5. SearchTypes' /\ Ages' /\ Queued' /\ Tree'
  BY <1>1, <1>2, <1>3, <1>4 DEF SearchInv, SearchTypes, Ages, Queued, Tree
<1>6. Cut'
  BY <1>1, <1>2, <1>3, <1>4 DEF SearchInv, Cut
<1> QED BY <1>2, <1>5, <1>6 DEF SearchInv, Walk

\* The invariant of all searches on one pool.
LEMMA SearchInductive == Spec => []SearchInv
<1>1. Init => SearchInv
  BY InitSearch
<1>2. SearchInv /\ [Next]_vars => SearchInv'
  <2> SUFFICES ASSUME SearchInv, [Next]_vars PROVE SearchInv'
    OBVIOUS
  <2>1. ASSUME NEW d, NEW occ, AstarSearch(d, occ) PROVE SearchInv'
    BY <2>1, BeginStep
  <2>2. CASE Turn
    BY <2>2, ReachStep, ExpandStep
  <2>3. CASE retrievePath
    BY <2>3, RetrieveStep
  <2>4. CASE NoPath
    BY <2>4, NoPathStep
  <2>5. CASE UNCHANGED vars
    <3>1. UNCHANGED <<rounds_, GridNodeMap_, openSet_, startPtr, endPtr, gridPath_, obstacles, result>>
      BY <2>5 DEF vars
    <3>2. Answered' = Answered /\ HasEnd' = HasEnd /\ Free' = Free
      BY <3>1 DEF Answered, HasEnd, Free
    <3>3. Stamped' = Stamped /\ OpenNodes' = OpenNodes
      BY <3>1, <3>2 DEF Stamped, OpenNodes
    <3>4. ClosedNodes' = ClosedNodes
      BY <3>1, <3>3 DEF ClosedNodes
    <3> QED BY <3>1, <3>2, <3>3, <3>4 DEF SearchInv, SearchTypes, Ages, Queued, Tree, Cut, Walk
  <2> QED BY <2>1, <2>2, <2>3, <2>4, <2>5 DEF Next
<1> QED BY <1>1, <1>2, PTL DEF Spec

\* A node is beside those beside it.
LEMMA BesideEachOther ==
  ASSUME NEW a, NEW b, <<a, b>> \in Neighbours
  PROVE  <<b, a>> \in Neighbours
<1>1. /\ a \in Nodes /\ b \in Nodes /\ a # b
      /\ Abs(a[1] - b[1]) <= 1 /\ Abs(a[2] - b[2]) <= 1
  BY DEF Neighbours
<1>2. a[1] \in Int /\ a[2] \in Int /\ b[1] \in Int /\ b[2] \in Int
  BY <1>1, NodeIsPair
<1>3. Abs(b[1] - a[1]) <= 1 /\ Abs(b[2] - a[2]) <= 1
  BY <1>1, <1>2 DEF Abs
<1> QED BY <1>1, <1>3 DEF Neighbours

\* The path handed to the optimiser is one: it follows the parents of nodes of
\* this search, which form a tree that hangs on the start, and the scores fall
\* along it, so that the walk back visits no node twice (retrievePath).
THEOREM PathsAreReal == Spec => []PathIsReal
<1>1. SearchInv => PathIsReal
  <2> SUFFICES ASSUME SearchInv, result = "found" PROVE PathIsReal
    BY DEF PathIsReal
  <2> DEFINE len == Len(gridPath_)
             last == gridPath_[len]
  <2>1. HasEnd /\ Answered
    BY DEF HasEnd, Answered
  <2>2. /\ gridPath_ \in Seq(Nodes) /\ gridPath_ # <<>> /\ gridPath_[1] = endPtr
        /\ \A i \in 1 .. len : gridPath_[i] \in Stamped
        /\ \A i \in 1 .. len - 1 : gridPath_[i + 1] = GridNodeMap_[gridPath_[i]].cameFrom
        /\ \A i, j \in 1 .. len : i < j =>
             GridNodeMap_[gridPath_[i]].gScore > GridNodeMap_[gridPath_[j]].gScore
        /\ GridNodeMap_[last].cameFrom = NoNode
    BY <2>1 DEF SearchInv, SearchTypes, Walk
  <2>3. len \in Nat \ {0} /\ len \in 1 .. len
    BY <2>2, EmptySeq
  <2>4. Stamped \subseteq Free /\ Free \subseteq Nodes /\ ClosedNodes \subseteq Stamped
    BY DEF Stamped, Free, ClosedNodes
  <2>5. \A n \in Nodes : GridNodeMap_[n].gScore \in Nat
    BY DEF SearchInv, SearchTypes, Data
  <2>6. ASSUME NEW n \in Stamped, n # startPtr
        PROVE  /\ GridNodeMap_[n].cameFrom \in ClosedNodes
               /\ <<GridNodeMap_[n].cameFrom, n>> \in Neighbours
    BY <2>1, <2>6 DEF SearchInv, Tree
  <2>7. last = startPtr
    <3>1. NoNode \notin ClosedNodes
      BY <2>4, NullIsNoNode
    <3> HIDE DEF last
    <3> QED BY <2>2, <2>3, <2>6, <3>1 DEF last
  <2>8. ASSUME NEW i \in 1 .. len - 1
        PROVE  <<gridPath_[i], gridPath_[i + 1]>> \in Neighbours
    <3>1. i \in 1 .. len /\ i + 1 \in 1 .. len /\ i < len
      BY <2>3
    <3>2. gridPath_[i] # startPtr
      <4>1. GridNodeMap_[gridPath_[i]].gScore > GridNodeMap_[startPtr].gScore
        <5> HIDE DEF last
        <5> QED BY <2>2, <2>3, <2>7, <3>1 DEF last
      <4>2. gridPath_[i] \in Nodes
        BY <2>2, <2>4, <3>1
      <4> QED BY <2>5, <4>1, <4>2
    <3>3. <<gridPath_[i + 1], gridPath_[i]>> \in Neighbours
      <4>1. gridPath_[i + 1] = GridNodeMap_[gridPath_[i]].cameFrom /\ gridPath_[i] \in Stamped
        BY <2>2, <3>1
      <4> QED BY <2>6, <3>2, <4>1
    <3> QED BY <3>3, BesideEachOther
  <2>9. ASSUME NEW i \in 1 .. len, NEW j \in 1 .. len, gridPath_[i] = gridPath_[j]
        PROVE  i = j
    <3>1. gridPath_[i] \in Nodes
      BY <2>2, <2>4
    <3>2. ~(i < j) /\ ~(j < i)
      BY <2>2, <2>5, <2>9, <3>1
    <3> QED BY <2>3, <3>2
  <2>10. \A i \in 1 .. len : gridPath_[i] \in Free
    BY <2>2, <2>4
  <2> QED BY <2>2, <2>7, <2>8, <2>9, <2>10 DEF PathIsReal
<1> QED BY <1>1, SearchInductive, PTL

\* What a step beyond the edge of a set never reaches, no number of steps does.
LEMMA WalkStaysInside ==
  ASSUME NEW S, NEW A, A \subseteq S, S \subseteq Nodes,
         \A m \in S : Near(m) \subseteq S
  PROVE  ReachedFrom(A) \subseteq S
<1> DEFINE n == PoolX * PoolY
           V == [k \in 0 .. n |-> SUBSET S]
           step == [p \in (SUBSET S) \X (1 .. n) |-> UNION {Near(m) : m \in p[1]}]
           IsWithin(f) == f = [k \in 0 .. n |-> IF k = 0 THEN A
                                 ELSE UNION {Near(m) : m \in f[k - 1]}]
           within == CHOOSE f : IsWithin(f)
<1>1. n \in Nat
  BY PoolSize
<1>2. A \in V[0]
  BY <1>1
<1>3. ASSUME NEW T \in SUBSET S, NEW k \in 1 .. n
      PROVE  step[<<T, k>>] = UNION {Near(m) : m \in T} /\ step[<<T, k>>] \in SUBSET S
  OBVIOUS
<1>4. Grows(step, V, n)
  <2>1. \A k \in 1 .. n : V[k - 1] = SUBSET S /\ V[k] = SUBSET S
    BY <1>1
  <2> HIDE DEF step, V
  <2> QED BY <1>3, <2>1 DEF Grows
<1>5. /\ \E f : f = [k \in 0 .. n |-> f[k]] /\ Runs(f, A, step, n)
      /\ \A f : Runs(f, A, step, n) => \A k \in 0 .. n : f[k] \in V[k]
  <2> HIDE DEF step, V, n
  <2> QED BY <1>1, <1>2, <1>4, Loop
<1>6. \E f : IsWithin(f)
  <2>1. PICK f : f = [k \in 0 .. n |-> f[k]] /\ Runs(f, A, step, n)
    BY <1>5
  <2>2. \A k \in 0 .. n : f[k] \in SUBSET S
    <3>1. \A k \in 0 .. n : f[k] \in V[k]
      <4> HIDE DEF step, V, n
      <4> QED BY <1>5, <2>1
    <3> QED BY <3>1
  <2>3. ASSUME NEW k \in 0 .. n, k # 0 PROVE f[k] = UNION {Near(m) : m \in f[k - 1]}
    <3>1. k \in 1 .. n /\ k - 1 \in 0 .. n
      BY <1>1, <2>3
    <3>2. f[k] = step[<<f[k - 1], k>>]
      <4> HIDE DEF step, n
      <4> QED BY <2>1, <3>1 DEF Runs
    <3> HIDE DEF step, n
    <3> QED BY <1>3, <2>2, <3>1, <3>2
  <2>4. f[0] = A
    BY <2>1 DEF Runs
  <2> HIDE DEF step, V, n
  <2>5. f = [k \in 0 .. n |-> IF k = 0 THEN A ELSE UNION {Near(m) : m \in f[k - 1]}]
    BY <2>1, <2>3, <2>4
  <2> QED BY <2>5
<1>7. IsWithin(within)
  <2> HIDE DEF IsWithin
  <2> QED BY <1>6
<1>8. Runs(within, A, step, n)
  <2>1. 0 \in 0 .. n
    BY <1>1
  <2>2. within[0] = A
    <3> HIDE DEF within, n
    <3> QED BY <1>7, <2>1
  <2>3. \A k \in 1 .. n : within[k] = UNION {Near(m) : m \in within[k - 1]}
    <3>1. \A k \in 1 .. n : k \in 0 .. n /\ k # 0
      OBVIOUS
    <3> HIDE DEF within, n
    <3> QED BY <1>7, <3>1
  <2> DEFINE Q == {k \in Nat : k <= n => within[k] \in SUBSET S}
  <2>4. 0 \in Q
    <3> HIDE DEF within, n
    <3> QED BY <2>2
  <2>5. ASSUME NEW k \in Nat, k \in Q PROVE k + 1 \in Q
    <3> HIDE DEF within, n, step
    <3>1. SUFFICES ASSUME k + 1 <= n PROVE within[k + 1] \in SUBSET S
      OBVIOUS
    <3>2. within[k] \in SUBSET S /\ k + 1 \in 1 .. n /\ (k + 1) - 1 = k
      BY <1>1, <2>5, <3>1
    <3>3. within[k + 1] = UNION {Near(m) : m \in within[k]}
      BY <2>3, <3>2
    <3> QED BY <3>2, <3>3
  <2>6. \A k \in Nat : k \in Q
    <3> HIDE DEF Q
    <3> QED BY <2>4, <2>5, Induction
  <2>7. ASSUME NEW k \in 1 .. n PROVE within[k] = step[<<within[k - 1], k>>]
    <3> HIDE DEF within, n, step
    <3>1. k - 1 \in Nat /\ k - 1 <= n
      BY <1>1
    <3>2. within[k - 1] \in SUBSET S
      BY <2>6, <3>1
    <3> QED BY <1>3, <2>3, <3>2
  <2> HIDE DEF within, n, step
  <2> QED BY <2>2, <2>7 DEF Runs
<1>9. within[n] \in V[n]
  <2>1. n \in 0 .. n
    BY <1>1
  <2> HIDE DEF within, n, step, V
  <2> QED BY <1>5, <1>8, <2>1
<1>10. ReachedFrom(A) = within[n]
  BY DEF ReachedFrom
<1>11. V[n] = SUBSET S
  BY <1>1
<1> HIDE DEF within, V, n
<1> QED BY <1>9, <1>10, <1>11

\* A search that fails is right: when the queue is empty every node it met is
\* closed, so the closed nodes are a set that holds the start, lacks the goal
\* and that no walk over free nodes leaves (the "Open set is empty" return).
THEOREM FailuresAreReal == Spec => []NoPathMeansNone
<1>1. SearchInv => NoPathMeansNone
  <2> SUFFICES ASSUME SearchInv, result = "none" PROVE endPtr \notin ReachedFrom({startPtr})
    BY DEF NoPathMeansNone
  <2>1. Answered /\ ~HasEnd /\ openSet_ = <<>>
    <3>1. Answered /\ ~HasEnd
      BY DEF Answered, HasEnd
    <3> QED BY <3>1 DEF SearchInv, Cut
  <2>2. Stamped \subseteq ClosedNodes
    <3>1. OpenNodes = {}
      BY <2>1 DEF OpenNodes
    <3> QED BY <2>1, <3>1 DEF SearchInv, Queued
  <2>3. ClosedNodes \subseteq Nodes /\ startPtr \in ClosedNodes /\ endPtr \notin ClosedNodes
    BY <2>1, <2>2 DEF SearchInv, Cut, ClosedNodes, Stamped, Free
  <2>4. ASSUME NEW m \in ClosedNodes, NEW n \in Near(m) PROVE n \in ClosedNodes
    <3>1. CASE n = m
      BY <3>1
    <3>2. CASE n \in Inner \cap Free /\ <<m, n>> \in Neighbours
      <4>1. <<m, n>>[1] = m /\ <<m, n>>[2] = n
        OBVIOUS
      <4>2. \A e \in Neighbours : e[1] \in ClosedNodes /\ e[2] \in Inner \cap Free => e[2] \in Stamped
        BY <2>1 DEF SearchInv, Cut
      <4>3. n \in Stamped
        BY <3>2, <4>1, <4>2
      <4> QED BY <2>2, <4>3
    <3> QED BY <3>1, <3>2 DEF Near
  <2>5. ReachedFrom({startPtr}) \subseteq ClosedNodes
    <3>1. \A m \in ClosedNodes : Near(m) \subseteq ClosedNodes
      BY <2>4
    <3> QED BY <2>3, <3>1, WalkStaysInside
  <2> QED BY <2>3, <2>5
<1> QED BY <1>1, SearchInductive, PTL
-----------------------------------------------------------------------------
\* The nodes met in a search are its open and its closed ones.
LEMMA StampedIsKnown ==
  ASSUME SearchInv, Answered
  PROVE  Stamped = OpenNodes \cup ClosedNodes /\ OpenNodes \cap ClosedNodes = {}
<1>1. \A n \in OpenNodes : n \in Stamped /\ GridNodeMap_[n].state = "OPENSET"
  BY DEF SearchInv, Queued
<1>2. Stamped \subseteq OpenNodes \cup ClosedNodes
  BY DEF SearchInv, Queued
<1> QED BY <1>1, <1>2 DEF ClosedNodes

\* Before the first search nothing is known of any node.
LEMMA InitIsFresh == Init => FreshSearch!SearchInit
<1> SUFFICES ASSUME Init PROVE FreshSearch!SearchInit
  OBVIOUS
<1>1. /\ result = "idle" /\ rounds_ = 0 /\ GridNodeMap_ = [n \in Nodes |-> Fresh]
      /\ ~Answered /\ OpenNodes = {}
  BY DEF Init, Answered, OpenNodes
<1>2. \A n \in Nodes : /\ GridNodeMap_[n].state = "UNDEFINED" /\ GridNodeMap_[n].cameFrom = NoNode
                       /\ GridNodeMap_[n].gScore = 0
  BY <1>1 DEF Fresh
<1>3. ClosedNodes = {}
  BY <1>2 DEF ClosedNodes, Stamped, Free
<1>4. ParentOf = [n \in Nodes |-> NoNode] /\ ScoreOf = [n \in Nodes |-> 0]
  BY <1>2 DEF ParentOf, ScoreOf
<1> QED BY <1>1, <1>3, <1>4 DEF FreshSearch!SearchInit

\* A call of the search forgets what earlier searches left in the pool.
LEMMA BeginIsFresh ==
  ASSUME SearchInv, NEW d, NEW occ, AstarSearch(d, occ)
  PROVE  FreshSearch!Begin \/ FreshSearch!Refuse
<1>1. result \notin {"searching", "retrieving"}
  BY BeginEffect
<1>2. CASE result' = "refused"
  <2>1. Stamped' = {} /\ ~Answered'
    BY <1>2, BeginEffect DEF Answered
  <2>2. ClosedNodes' = {} /\ OpenNodes' = {}
    BY <2>1 DEF ClosedNodes, OpenNodes
  <2>3. ParentOf' = [n \in Nodes |-> NoNode] /\ ScoreOf' = [n \in Nodes |-> 0]
    BY <2>1 DEF ParentOf, ScoreOf
  <2> QED BY <1>1, <1>2, <2>1, <2>2, <2>3 DEF FreshSearch!Refuse
<1>3. CASE result' # "refused"
  <2>1. /\ result' = "searching" /\ startPtr' \in Free' /\ endPtr' \in Free'
        /\ GridNodeMap_'[startPtr'].state = "OPENSET" /\ GridNodeMap_'[startPtr'].gScore = 0
        /\ GridNodeMap_'[startPtr'].cameFrom = NoNode
        /\ openSet_' = <<startPtr'>> /\ Stamped' = {startPtr'}
    BY <1>3, BeginEffect
  <2>2. Answered' /\ ~HasEnd' /\ Free' \subseteq Nodes
    BY <2>1 DEF Answered, HasEnd, Free
  <2>3. OpenNodes' = {startPtr'}
    <3>1. Len(<<startPtr'>>) = 1 /\ <<startPtr'>>[1] = startPtr'
      OBVIOUS
    <3>2. {openSet_'[i] : i \in 1 .. Len(openSet_')} = {startPtr'}
      BY <2>1, <3>1
    <3> QED BY <2>2, <3>2 DEF OpenNodes
  <2>4. ClosedNodes' = {}
    BY <2>1 DEF ClosedNodes
  <2>5. ParentOf' = [n \in Nodes |-> NoNode]
    BY <2>1 DEF ParentOf
  <2>6. ScoreOf' = [n \in Nodes |-> 0]
    BY <2>1 DEF ScoreOf
  <2> QED BY <1>1, <2>1, <2>2, <2>3, <2>4, <2>5, <2>6 DEF FreshSearch!Begin
<1> QED BY <1>2, <1>3

\* A turn of the search loop takes the goal off the queue: the search is over,
\* what is left is the walk back.
LEMMA ReachIsFresh ==
  ASSUME SearchInv, Turn, TopOf(openSet_) = endPtr
  PROVE  FreshSearch!Reach
<1>1. /\ result = "searching" /\ result' = "retrieving"
      /\ UNCHANGED <<rounds_, GridNodeMap_, startPtr, endPtr, obstacles>>
      /\ endPtr \in OpenNodes /\ OpenNodes' = OpenNodes
      /\ Stamped' = Stamped /\ ClosedNodes' = ClosedNodes
  BY ReachEffect
<1>2. Answered /\ Answered' /\ Free' = Free
  BY <1>1 DEF Answered, Free
<1>3. ParentOf' = ParentOf /\ ScoreOf' = ScoreOf
  BY <1>1 DEF ParentOf, ScoreOf
<1> QED BY <1>1, <1>2, <1>3 DEF FreshSearch!Reach

\* Any other turn expands the node on top, whichever it is.
LEMMA ExpandIsFresh ==
  ASSUME SearchInv, Turn, NEW came, came = TopOf(openSet_), came # endPtr
  PROVE  FreshSearch!Expand(came)
<1>1. result = "searching" /\ openSet_ # <<>> /\ UNCHANGED <<rounds_, startPtr, endPtr, obstacles>>
  BY DEF Turn
<1>2. result' \in {"searching", "late"}
  BY TurnEffect
<1>3. Answered /\ Answered' /\ ~HasEnd /\ ~HasEnd' /\ Free' = Free
  BY <1>1, <1>2 DEF Answered, HasEnd, Free
<1>4. came \in OpenNodes /\ came \in Nodes /\ Elements(openSet_) = OpenNodes
  BY <1>1, TopIsOpen
<1>5. OpenNodes' = Elements(openSet_')
  BY <1>3 DEF OpenNodes, Elements
<1>6. Stamped = OpenNodes \cup ClosedNodes /\ OpenNodes \cap ClosedNodes = {}
  BY <1>3, StampedIsKnown
<1> DEFINE F == FoundFrom(came)
           R == FoundFrom(came) \cup ShortFrom(came)
<1>7. /\ F \subseteq Inner \cap Free /\ F \cap Stamped = {}
      /\ ShortFrom(came) \subseteq Stamped /\ came \in Stamped
      /\ Stamped' = Stamped \cup F /\ ClosedNodes' = ClosedNodes \cup {came}
      /\ Elements(openSet_') = (Elements(openSet_) \ {came}) \cup F
      /\ \A n \in Stamped' :
           IF n \in R
           THEN /\ GridNodeMap_'[n].cameFrom = came
                /\ GridNodeMap_'[n].gScore = GridNodeMap_[came].gScore + StepCost(came, n)
                /\ n # came /\ <<came, n>> \in Neighbours
           ELSE /\ GridNodeMap_'[n].cameFrom = GridNodeMap_[n].cameFrom
                /\ GridNodeMap_'[n].gScore = GridNodeMap_[n].gScore
  BY TurnNodes
<1>8. FreshSearch!Found(came) = F
  <2>1. F = {n \in (Inner \cap Free) \ Stamped : <<came, n>> \in Neighbours}
    BY DEF FoundFrom, Opens, Free, Stamped
  <2> QED BY <1>3, <1>6, <2>1 DEF FreshSearch!Found, FreshSearch!Known
<1>9. FreshSearch!Shortened(came) = ShortFrom(came)
  <2>1. \A m : <<came, m>> \in Neighbours => EdgeCost[<<came, m>>] = StepCost(came, m)
    BY DEF EdgeCost
  <2>2. \A m \in Stamped : ScoreOf[m] = GridNodeMap_[m].gScore
    BY DEF ScoreOf, Stamped, Free
  <2>3. \A m \in OpenNodes \ {came} : m \in Stamped /\ GridNodeMap_[m].state = "OPENSET"
    BY <1>3 DEF SearchInv, Queued
  <2>4. \A m \in Stamped : m \in OpenNodes <=> GridNodeMap_[m].state # "CLOSEDSET"
    BY <1>6 DEF ClosedNodes
  <2> QED BY <1>3, <1>6, <1>7, <2>1, <2>2, <2>3, <2>4
             DEF FreshSearch!Shortened, ShortFrom, Free, Stamped
<1>10. ParentOf' = [n \in Nodes |-> IF n \in R THEN came ELSE ParentOf[n]]
  <2> SUFFICES ASSUME NEW n \in Nodes
               PROVE  (IF n \in Stamped' THEN GridNodeMap_'[n].cameFrom ELSE NoNode) =
                      IF n \in R THEN came ELSE ParentOf[n]
    BY DEF ParentOf
  <2> HIDE DEF F
  <2> QED BY <1>7 DEF ParentOf, F
<1>11. ScoreOf' = [n \in Nodes |-> IF n \in R THEN ScoreOf[came] + EdgeCost[<<came, n>>]
                                   ELSE ScoreOf[n]]
  <2> SUFFICES ASSUME NEW n \in Nodes
               PROVE  (IF n \in Stamped' THEN GridNodeMap_'[n].gScore ELSE 0) =
                      IF n \in R THEN ScoreOf[came] + EdgeCost[<<came, n>>] ELSE ScoreOf[n]
    BY DEF ScoreOf
  <2>1. <<came, n>> \in Neighbours => EdgeCost[<<came, n>>] = StepCost(came, n)
    BY DEF EdgeCost
  <2>2. ScoreOf[came] = GridNodeMap_[came].gScore
    BY <1>4, <1>7 DEF ScoreOf
  <2> QED BY <1>7, <2>1, <2>2 DEF ScoreOf
<1> QED BY <1>1, <1>2, <1>3, <1>4, <1>5, <1>7, <1>8, <1>9, <1>10, <1>11 DEF FreshSearch!Expand

\* The walk back does not touch the search.
LEMMA RetrieveIsFresh ==
  ASSUME SearchInv, retrievePath
  PROVE  UNCHANGED FreshSearch!searchVars
<1>1. /\ result = "retrieving" /\ result' \in {"retrieving", "found"}
      /\ UNCHANGED <<rounds_, GridNodeMap_, openSet_, startPtr, endPtr, obstacles>>
      /\ Answered /\ Answered' /\ Free' = Free
      /\ Stamped' = Stamped /\ ClosedNodes' = ClosedNodes /\ OpenNodes' = OpenNodes
  BY RetrieveFrame
<1>2. ParentOf' = ParentOf /\ ScoreOf' = ScoreOf
  BY <1>1 DEF ParentOf, ScoreOf
<1> QED BY <1>1, <1>2 DEF FreshSearch!searchVars

\* The queue runs empty.
LEMMA NoPathIsFresh ==
  ASSUME SearchInv, NoPath
  PROVE  FreshSearch!Exhaust
<1>1. /\ result = "searching" /\ openSet_ = <<>> /\ result' = "none"
      /\ UNCHANGED <<rounds_, GridNodeMap_, openSet_, startPtr, endPtr, gridPath_, obstacles>>
  BY DEF NoPath
<1>2. Answered /\ Answered' /\ ~HasEnd /\ ~HasEnd' /\ Free' = Free
  BY <1>1 DEF Answered, HasEnd, Free
<1>3. Stamped' = Stamped /\ OpenNodes' = OpenNodes /\ OpenNodes = {}
  BY <1>1, <1>2 DEF Stamped, OpenNodes
<1>4. ClosedNodes' = ClosedNodes
  BY <1>1, <1>3 DEF ClosedNodes
<1>5. ParentOf' = ParentOf /\ ScoreOf' = ScoreOf
  BY <1>1, <1>3 DEF ParentOf, ScoreOf
<1> QED BY <1>1, <1>2, <1>3, <1>4, <1>5 DEF FreshSearch!Exhaust

\* The search in the recycled pool, with its queue whose order decays, is a
\* search on a fresh grid: every call begins one or is refused, every turn of
\* the loop expands an open node or reaches the goal, and the walk back along
\* the parents is invisible (AstarSearch).
THEOREM PoolImplementsSearch == Spec => ImplementsBestFirst
<1>1. Init => FreshSearch!SearchInit
  BY InitIsFresh
<1>2. SearchInv /\ [Next]_vars => [FreshSearch!SearchNext]_(FreshSearch!searchVars)
  <2> SUFFICES ASSUME SearchInv, [Next]_vars
               PROVE  FreshSearch!SearchNext \/ UNCHANGED FreshSearch!searchVars
    OBVIOUS
  <2>1. ASSUME NEW d, NEW occ, AstarSearch(d, occ) PROVE FreshSearch!SearchNext
    BY <2>1, BeginIsFresh DEF FreshSearch!SearchNext
  <2>2. CASE Turn
    <3>1. CASE TopOf(openSet_) = endPtr
      BY <2>2, <3>1, ReachIsFresh DEF FreshSearch!SearchNext
    <3>2. CASE TopOf(openSet_) # endPtr
      <4>1. result = "searching" /\ openSet_ # <<>>
        BY <2>2 DEF Turn
      <4>2. TopOf(openSet_) \in Nodes
        BY <4>1, TopIsOpen
      <4>3. FreshSearch!Expand(TopOf(openSet_))
        BY <2>2, <3>2, ExpandIsFresh
      <4> QED BY <4>2, <4>3 DEF FreshSearch!SearchNext
    <3> QED BY <3>1, <3>2
  <2>3. CASE retrievePath
    BY <2>3, RetrieveIsFresh
  <2>4. CASE NoPath
    BY <2>4, NoPathIsFresh DEF FreshSearch!SearchNext
  <2>5. CASE UNCHANGED vars
    <3>1. UNCHANGED <<rounds_, GridNodeMap_, openSet_, startPtr, endPtr, gridPath_, obstacles, result>>
      BY <2>5 DEF vars
    <3>2. Answered' = Answered /\ HasEnd' = HasEnd /\ Free' = Free
      BY <3>1 DEF Answered, HasEnd, Free
    <3>3. Stamped' = Stamped /\ OpenNodes' = OpenNodes
      BY <3>1, <3>2 DEF Stamped, OpenNodes
    <3>4. ClosedNodes' = ClosedNodes
      BY <3>1, <3>3 DEF ClosedNodes
    <3>5. ParentOf' = ParentOf /\ ScoreOf' = ScoreOf
      BY <3>1, <3>3 DEF ParentOf, ScoreOf
    <3> QED BY <3>1, <3>2, <3>3, <3>4, <3>5 DEF FreshSearch!searchVars
  <2> QED BY <2>1, <2>2, <2>3, <2>4, <2>5 DEF Next
<1> QED BY <1>1, <1>2, SearchInductive, PTL DEF Spec, ImplementsBestFirst, FreshSearch!SearchSpec
=============================================================================
