------------------------------- MODULE AStar -------------------------------
(***************************************************************************)
(* path_searching/dyn_a_star: the search BsplineOptimizer calls for every  *)
(* colliding piece of a trajectory.  One pool of nodes, centred anew on    *)
(* the middle of each request, serves all searches; nothing is cleared     *)
(* between them, the round a node was last stamped with says whether its   *)
(* data is of this search.                                                 *)
(*                                                                         *)
(* A node is its index; points are in thousandths of a step and relative   *)
(* to center_.  A search sees one map from beginning to end: it runs       *)
(* inside a callback of a single-threaded node.                            *)
(***************************************************************************)
EXTENDS Integers, PriorityQueue

CONSTANTS
  PoolX, PoolY,  \* POOL_SIZE_
  Requests,      \* end_pt - start_pt of the searches
  Maps,          \* Maps[r]: the sets of obstacles search r may meet
  MaxRounds,     \* bound on the searches
  NoNode         \* NULL

ASSUME PoolSize == PoolX \in Nat /\ PoolY \in Nat

Nodes == (0 .. PoolX - 1) \X (0 .. PoolY - 1)
Inner == (1 .. PoolX - 2) \X (1 .. PoolY - 2)

ASSUME NullIsNoNode == NoNode \notin Nodes

VARIABLES
  rounds_,       \* the search that is or was last run
  GridNodeMap_,  \* the pool: what each node carries, this search's or not
  openSet_,      \* the priority queue
  startPtr, endPtr,
  gridPath_,     \* from the end back to the start, as far as it is retrieved
  obstacles,     \* the inflated 2D map under the pool, its outside included
  result         \* "idle", "searching", "retrieving", "found", "none", "late"
                 \* or "refused"

vars == <<rounds_, GridNodeMap_, openSet_, startPtr, endPtr, gridPath_,
          obstacles, result>>

Straight == 1000000
Diagonal == 1414214

StepCost(a, b) == IF a[1] # b[1] /\ a[2] # b[2] THEN Diagonal ELSE Straight

Abs(i) == IF i < 0 THEN -i ELSE i

\* The octile distance, raised by a ten-thousandth to break ties.
getHeu(a, b) ==
  LET dx == Abs(a[1] - b[1])
      dy == Abs(a[2] - b[2])
      diag == IF dx < dy THEN dx ELSE dy
      h == diag * Diagonal + (dx + dy - 2 * diag) * Straight
  IN  h + h \div 10000

\* The cast to int rounds towards zero, on either side of the centre.
Truncated(i) == IF i < 0 THEN -((-i) \div 1000) ELSE i \div 1000

Coord2Index(pt) ==
  <<Truncated(pt[1] + 500) + PoolX \div 2, Truncated(pt[2] + 500) + PoolY \div 2>>

\* A vector of one step away from the other point; requests lie along an axis
\* or a diagonal.
Unit(d) ==
  LET len == IF d[1] # 0 /\ d[2] # 0 THEN 707 ELSE 1000
      Sign(i) == IF i < 0 THEN -1 ELSE IF i > 0 THEN 1 ELSE 0
  IN  <<len * Sign(d[1]), len * Sign(d[2])>>

\* More steps than it takes to leave the pool from anywhere in it.
Far == 2 * (PoolX + PoolY)

\* A point inside an obstacle moves outwards until it is in none, or out of
\* the pool.
PushOut(pt, away, occ) ==
  LET idx(k) == Coord2Index(<<pt[1] + k * away[1], pt[2] + k * away[2]>>)
      Stops(k) == idx(k) \notin Nodes \cap occ /\ \A j \in 0 .. k - 1 : idx(j) \in Nodes \cap occ
  IN  IF \E k \in 0 .. Far : Stops(k) /\ idx(k) \in Nodes
      THEN idx(CHOOSE k \in 0 .. Far : Stops(k))
      ELSE NoNode

Fresh == [rounds |-> 0, state |-> "UNDEFINED", gScore |-> 0, fScore |-> 0,
          cameFrom |-> NoNode]

Init ==
  /\ rounds_ = 0 /\ GridNodeMap_ = [n \in Nodes |-> Fresh]
  /\ openSet_ = <<>> /\ startPtr = NoNode /\ endPtr = NoNode
  /\ gridPath_ = <<>> /\ obstacles = {} /\ result = "idle"

\* Mutant: the start is not stamped with the round.
AstarSearch_Unstamped(d, occ) ==
  LET s == PushOut(<<-(d[1] \div 2), -(d[2] \div 2)>>, Unit(<<-d[1], -d[2]>>), occ)
      t == PushOut(<<d[1] \div 2, d[2] \div 2>>, Unit(d), occ)
  IN  /\ result \notin {"searching", "retrieving"} /\ s # NoNode /\ t # NoNode
      /\ rounds_' = rounds_ + 1 /\ obstacles' = occ
      /\ result' = "searching" /\ startPtr' = s /\ endPtr' = t
      /\ GridNodeMap_' = [GridNodeMap_ EXCEPT ![s] =
           [@ EXCEPT !.state = "OPENSET", !.gScore = 0, !.cameFrom = NoNode]]
      /\ openSet_' = <<s>>
      /\ UNCHANGED gridPath_

\* From the call to the first look at the queue.
AstarSearch(d, occ) ==
  LET start_pt == <<-(d[1] \div 2), -(d[2] \div 2)>>
      end_pt == <<d[1] \div 2, d[2] \div 2>>
      s == PushOut(start_pt, Unit(<<-d[1], -d[2]>>), occ)
      t == PushOut(end_pt, Unit(d), occ)
  IN  /\ result \notin {"searching", "retrieving"}
      /\ rounds_' = rounds_ + 1 /\ obstacles' = occ
      /\ IF s = NoNode \/ t = NoNode
         THEN /\ result' = "refused"
              /\ UNCHANGED <<GridNodeMap_, openSet_, startPtr, endPtr, gridPath_>>
         ELSE /\ result' = "searching" /\ startPtr' = s /\ endPtr' = t
              /\ GridNodeMap_' = [GridNodeMap_ EXCEPT ![s] =
                   [rounds |-> rounds_ + 1, state |-> "OPENSET", gScore |-> 0,
                    fScore |-> getHeu(s, t), cameFrom |-> NoNode]]
              /\ openSet_' = <<s>>
              /\ UNCHANGED gridPath_

\* Mutant: a node of an earlier search counts as seen.
Visit_Recycled(acc, current, neighbor) ==
  LET node == acc.map[neighbor]
      tentative == acc.map[current].gScore + StepCost(current, neighbor)
      reached == [node EXCEPT !.rounds = rounds_, !.cameFrom = current, !.gScore = tentative,
                              !.fScore = tentative + getHeu(neighbor, endPtr)]
      opened == [acc.map EXCEPT ![neighbor] = [reached EXCEPT !.state = "OPENSET"]]
  IN  IF neighbor \notin Inner \/ node.state = "CLOSEDSET" \/ neighbor \in obstacles THEN acc
      ELSE IF node.state = "UNDEFINED"
        THEN [map |-> opened, open |-> PushHeap(acc.open, neighbor,
                                                [n \in Nodes |-> opened[n].fScore])]
      ELSE IF tentative < node.gScore
        THEN [acc EXCEPT !.map = [@ EXCEPT ![neighbor] = reached]]
      ELSE acc

\* Mutant: the occupancy of a neighbour is not looked at.
Visit_Blind(acc, current, neighbor) ==
  LET node == acc.map[neighbor]
      explored == node.rounds = rounds_
      tentative == acc.map[current].gScore + StepCost(current, neighbor)
      reached == [node EXCEPT !.rounds = rounds_, !.cameFrom = current, !.gScore = tentative,
                              !.fScore = tentative + getHeu(neighbor, endPtr)]
      opened == [acc.map EXCEPT ![neighbor] = [reached EXCEPT !.state = "OPENSET"]]
  IN  IF neighbor \notin Inner \/ explored THEN acc
      ELSE [map |-> opened, open |-> PushHeap(acc.open, neighbor,
                                              [n \in Nodes |-> opened[n].fScore])]

\* One neighbour of current: the pool and the queue of acc after it.
Visit(acc, current, neighbor) ==
  LET node == acc.map[neighbor]
      explored == node.rounds = rounds_
      tentative == acc.map[current].gScore + StepCost(current, neighbor)
      stamped == [node EXCEPT !.rounds = rounds_]
      reached == [stamped EXCEPT !.cameFrom = current, !.gScore = tentative,
                                 !.fScore = tentative + getHeu(neighbor, endPtr)]
      Put(entry) == [acc.map EXCEPT ![neighbor] = entry]
  IN  IF neighbor \notin Inner \/ (explored /\ node.state = "CLOSEDSET") THEN acc
      ELSE IF neighbor \in obstacles THEN [acc EXCEPT !.map = Put(stamped)]
      ELSE IF ~explored
        THEN LET opened == Put([reached EXCEPT !.state = "OPENSET"])
             IN  [map |-> opened,
                  open |-> PushHeap(acc.open, neighbor,
                                    [n \in Nodes |-> opened[n].fScore])]
      ELSE IF tentative < node.gScore THEN [acc EXCEPT !.map = Put(reached)]
      ELSE acc

Directions ==
  << <<-1, -1>>, <<-1, 0>>, <<-1, 1>>, <<0, -1>>, <<0, 1>>, <<1, -1>>, <<1, 0>>, <<1, 1>> >>

Beside(n, d) == <<n[1] + d[1], n[2] + d[2]>>

\* One turn of the search loop.  When it does not end the search the clock is
\* read, and may show that too much time has passed.
Turn ==
  LET current == TopOf(openSet_)
      rest == PopHeap(openSet_, [n \in Nodes |-> GridNodeMap_[n].fScore])
      after[k \in 0 .. 8] ==
        IF k = 0 THEN [map |-> [GridNodeMap_ EXCEPT ![current].state = "CLOSEDSET"],
                       open |-> rest]
        ELSE Visit(after[k - 1], current, Beside(current, Directions[k]))
  IN  /\ result = "searching" /\ openSet_ # <<>>
      /\ IF current = endPtr
         THEN /\ result' = "retrieving" /\ openSet_' = rest
              /\ gridPath_' = <<current>>
              /\ UNCHANGED GridNodeMap_
         ELSE /\ GridNodeMap_' = after[8].map /\ openSet_' = after[8].open
              /\ result' \in {"searching", "late"}
              /\ UNCHANGED gridPath_
      /\ UNCHANGED <<rounds_, startPtr, endPtr, obstacles>>

\* One turn of the loop that follows cameFrom back to a node without one.
retrievePath ==
  LET from == GridNodeMap_[gridPath_[Len(gridPath_)]].cameFrom
  IN  /\ result = "retrieving"
      /\ IF from = NoNode
         THEN result' = "found" /\ UNCHANGED gridPath_
         ELSE gridPath_' = Append(gridPath_, from) /\ UNCHANGED result
      /\ UNCHANGED <<rounds_, GridNodeMap_, openSet_, startPtr, endPtr, obstacles>>

NoPath ==
  /\ result = "searching" /\ openSet_ = <<>>
  /\ result' = "none"
  /\ UNCHANGED <<rounds_, GridNodeMap_, openSet_, startPtr, endPtr, gridPath_, obstacles>>

Next ==
  \/ /\ rounds_ < MaxRounds
     /\ \E d \in Requests : \E occ \in Maps[rounds_ + 1] : AstarSearch(d, occ)
  \/ Turn
  \/ retrievePath
  \/ NoPath

Spec == Init /\ [][Next]_vars

\* The loops keep turning once they are entered: weak fairness of their
\* steps, one of which is enabled exactly while a search runs.
FairSpec ==
  Spec /\ (\/ []<>(result \notin {"searching", "retrieving"})
           \/ []<><<Turn \/ retrievePath \/ NoPath>>_vars)
-----------------------------------------------------------------------------
Neighbours == {e \in Nodes \X Nodes :
                 e[1] # e[2] /\ Abs(e[1][1] - e[2][1]) <= 1 /\ Abs(e[1][2] - e[2][2]) <= 1}

Free == Nodes \ obstacles

\* The nodes whose data is of the current search.
Stamped == {n \in Free : GridNodeMap_[n].rounds = rounds_}

Answered == result \notin {"idle", "refused"}

\* What the search knows: the nodes it has met, those it is done with, and
\* how it came to them.  The goal stays met when it is taken off the queue.
HasEnd == result \in {"retrieving", "found"}
OpenNodes ==
  IF ~Answered THEN {}
  ELSE {openSet_[i] : i \in 1 .. Len(openSet_)} \cup (IF HasEnd THEN {endPtr} ELSE {})
ClosedNodes == {n \in Stamped : GridNodeMap_[n].state = "CLOSEDSET"}
ParentOf == [n \in Nodes |-> IF n \in Stamped THEN GridNodeMap_[n].cameFrom ELSE NoNode]
ScoreOf == [n \in Nodes |-> IF n \in Stamped THEN GridNodeMap_[n].gScore ELSE 0]
EdgeCost == [e \in Neighbours |-> StepCost(e[1], e[2])]

\* A search on the recycled pool, whatever the last ones left in it and in
\* whatever order the queue hands out its nodes, as a search on a fresh one.
FreshSearch == INSTANCE BestFirst WITH
  Vertices <- Nodes, Interior <- Inner, NoVertex <- NoNode,
  Edges <- Neighbours, Cost <- EdgeCost,
  status <- IF result = "retrieving" THEN "found" ELSE result,
  free <- IF Answered THEN Free ELSE {},
  start <- IF Answered THEN startPtr ELSE NoNode,
  goal <- IF Answered THEN endPtr ELSE NoNode,
  open <- OpenNodes, closed <- ClosedNodes, parent <- ParentOf, score <- ScoreOf

\* The recycled pool and the disordered queue implement the fresh search.
ImplementsBestFirst == FreshSearch!SearchSpec

\* The path handed to the optimiser leads from the end of the request to its
\* start in steps of one node, over free nodes, and visits none twice.
PathIsReal ==
  result = "found" =>
    /\ gridPath_[1] = endPtr /\ gridPath_[Len(gridPath_)] = startPtr
    /\ \A i \in 1 .. Len(gridPath_) : gridPath_[i] \in Free
    /\ \A i \in 1 .. Len(gridPath_) - 1 : <<gridPath_[i], gridPath_[i + 1]>> \in Neighbours
    /\ \A i, j \in 1 .. Len(gridPath_) : gridPath_[i] = gridPath_[j] => i = j

\* The nodes a walk over free inner nodes reaches from those of S.
Near(m) == {m} \cup {n \in Inner \cap Free : <<m, n>> \in Neighbours}

ReachedFrom(S) ==
  LET within[k \in 0 .. PoolX * PoolY] ==
        IF k = 0 THEN S ELSE UNION {Near(m) : m \in within[k - 1]}
  IN  within[PoolX * PoolY]

\* A search that runs out of nodes is right: no path over free nodes exists,
\* although free and occupied nodes alike carry stamps, states and scores of
\* earlier searches.
NoPathMeansNone == result = "none" => endPtr \notin ReachedFrom({startPtr})

\* Every search ends, found or not, and so does the walk back along the parents.
SearchEnds == []<>(result \notin {"searching", "retrieving"})
=============================================================================
