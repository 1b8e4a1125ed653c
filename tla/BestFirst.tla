----------------------------- MODULE BestFirst -----------------------------
(***************************************************************************)
(* What a search over a grid promises, whatever the order in which it      *)
(* takes the open nodes and however it stores them: a tree of parents,     *)
(* grown from the start over free nodes only, whose scores are the lengths *)
(* of its branches.  Every search begins with a fresh grid.  AStar, which  *)
(* recycles its grid from search to search and whose priority queue may be *)
(* out of order, implements it.                                            *)
(***************************************************************************)
EXTENDS Naturals

CONSTANTS
  Vertices,    \* the nodes of the pool
  Interior,    \* those a search may enter
  Edges,       \* pairs of neighbouring nodes
  Cost,        \* the length of an edge
  NoVertex     \* no parent

\* What the pool is given as.
IsGrid ==
  /\ Interior \subseteq Vertices /\ Edges \subseteq Vertices \X Vertices
  /\ Cost \in [Edges -> Nat] /\ NoVertex \notin Vertices

VARIABLES
  status,      \* "idle", "searching", "found", "none", "late" or "refused"
  free,        \* the nodes without an obstacle, for the current search
  start, goal,
  open, closed,
  parent,      \* cameFrom of the nodes in open and closed
  score        \* gScore of the nodes in open and closed

searchVars == <<status, free, start, goal, open, closed, parent, score>>

Known == open \cup closed

SearchInit ==
  /\ status = "idle" /\ free = {} /\ start = NoVertex /\ goal = NoVertex
  /\ open = {} /\ closed = {}
  /\ parent = [n \in Vertices |-> NoVertex] /\ score = [n \in Vertices |-> 0]

\* Any map, and any two free nodes of it.
Begin ==
  /\ status # "searching" /\ status' = "searching"
  /\ free' \subseteq Vertices /\ start' \in free' /\ goal' \in free'
  /\ open' = {start'} /\ closed' = {}
  /\ parent' = [n \in Vertices |-> NoVertex] /\ score' = [n \in Vertices |-> 0]

\* The start or the end of the search cannot be placed in the pool.
Refuse ==
  /\ status # "searching" /\ status' = "refused"
  /\ free' = {} /\ start' = NoVertex /\ goal' = NoVertex
  /\ open' = {} /\ closed' = {}
  /\ parent' = [n \in Vertices |-> NoVertex] /\ score' = [n \in Vertices |-> 0]

Found(n) == {m \in (Interior \cap free) \ Known : <<n, m>> \in Edges}

Shortened(n) ==
  {m \in (Interior \cap free) \cap (open \ {n}) :
     <<n, m>> \in Edges /\ score[n] + Cost[<<n, m>>] < score[m]}

\* Any open node may be the one the queue has on top.  The time spent is
\* looked at after each node.
Expand(n) ==
  LET reached == Found(n) \cup Shortened(n)
  IN  /\ status = "searching" /\ n \in open /\ n # goal
      /\ open' = (open \ {n}) \cup Found(n)
      /\ closed' = closed \cup {n}
      /\ parent' = [m \in Vertices |-> IF m \in reached THEN n ELSE parent[m]]
      /\ score' = [m \in Vertices |->
                     IF m \in reached THEN score[n] + Cost[<<n, m>>] ELSE score[m]]
      /\ status' \in {"searching", "late"}
      /\ UNCHANGED <<free, start, goal>>

Reach ==
  /\ status = "searching" /\ goal \in open /\ status' = "found"
  /\ UNCHANGED <<free, start, goal, open, closed, parent, score>>

Exhaust ==
  /\ status = "searching" /\ open = {} /\ status' = "none"
  /\ UNCHANGED <<free, start, goal, open, closed, parent, score>>

SearchNext ==
  \/ Begin
  \/ Refuse
  \/ \E n \in Vertices : Expand(n)
  \/ Reach
  \/ Exhaust

SearchSpec == SearchInit /\ [][SearchNext]_searchVars
-----------------------------------------------------------------------------
SearchTypeOK ==
  /\ status \in {"idle", "searching", "found", "none", "late", "refused"}
  /\ free \subseteq Vertices
  /\ start \in Vertices \cup {NoVertex} /\ goal \in Vertices \cup {NoVertex}
  /\ open \subseteq Vertices /\ closed \subseteq Vertices /\ open \cap closed = {}
  /\ parent \in [Vertices -> Vertices \cup {NoVertex}]
  /\ score \in [Vertices -> Nat]

\* Every known node other than the start hangs on an expanded one, over an
\* edge, from free node to free node, and its score is its parent's plus the
\* length of that edge: what retrievePath follows from the goal is a walk
\* over free nodes along which the score falls, so it ends, and it ends in
\* the start.
TreeSound ==
  \A n \in Known :
    /\ n \in free
    /\ IF n = start THEN parent[n] = NoVertex /\ score[n] = 0
       ELSE /\ parent[n] \in closed /\ <<parent[n], n>> \in Edges
            /\ score[n] = score[parent[n]] + Cost[<<parent[n], n>>]

\* When the search says that there is no path, the expanded nodes are a set
\* that holds the start and not the goal and that no step over free inner
\* nodes leaves.
NoneMeansCut ==
  status = "none" =>
    /\ start \in closed /\ goal \notin closed
    /\ \A e \in Edges : e[1] \in closed /\ e[2] \in Interior \cap free => e[2] \in closed
=============================================================================
