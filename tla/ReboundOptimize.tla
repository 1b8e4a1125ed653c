-------------------------- MODULE ReboundOptimize --------------------------
(***************************************************************************)
(* bspline_opt/bspline_optimizer: how a trajectory is pushed out of        *)
(* obstacles.  The solver moves the control points; each evaluation of the *)
(* cost may find a new collision, which cancels the solver and begins      *)
(* another round with the collision's points pushed away (a rebound), and  *)
(* a result that still collides begins another one too (a restart).        *)
(*                                                                         *)
(* Control points are 0 .. Cols - 1; the first and the last order_ of them *)
(* do not move.  Positions are abstracted to what the map says there, and  *)
(* the base points and directions of a control point to whether it has     *)
(* any: planes.                                                            *)
(***************************************************************************)
EXTENDS Integers, SequencesExt, FiniteSetsExt

CONSTANTS
  order_, Cols,         \* cps_.size
  PerSpan,              \* samples between two control points
  Rows,                 \* Rows[n]: rows of samples that may be read at restart n
  Starts, Ends,         \* the occupied ones of the points that do not move
  MaxRestarts,          \* MAX_RESART_NUMS_SET
  MaxRebounds,          \* as often rebounds are repeated
  MaxEvaluations        \* bound on the evaluations of one solver run

ASSUME OptimizeAssumption ==
  /\ order_ \in Nat \ {0} /\ Cols \in Nat
  /\ Cols >= 2 * order_ + 3   \* seven points are fitted at least
  /\ {PerSpan, MaxRestarts} \subseteq Nat \ {0} /\ MaxRebounds \in Nat
  /\ Starts \subseteq SUBSET (0 .. order_ - 1)
  /\ Ends \subseteq SUBSET (Cols - order_ .. Cols - 1)
  /\ \A n \in 0 .. MaxRestarts - 1 : Rows[n] \subseteq Seq(BOOLEAN)
  /\ MaxEvaluations \in Nat

VARIABLES
  pc,                \* "idle", "init", "round", "solve", "refine"
  occupied,          \* the control points inside an obstacle
  curve,             \* where it first collides in its first two thirds, once looked at
  planes,            \* the control points with a base point and a direction
  covered,           \* the occupied ones their planes push out already
  samples,           \* what initControlPoints read along the control polygon
  segment_ids,       \* of the last look along the points
  force_stop_type_,
  iter_num_,         \* evaluations of this solver run; 0 outside one
  restart_nums, rebound_times,
  success            \* what the last call returned

pointVars == <<occupied, curve>>
stopVars == <<force_stop_type_, covered>>
countVars == <<restart_nums, rebound_times>>
vars == <<pc, pointVars, planes, stopVars, samples, segment_ids, iter_num_, countVars, success>>

Movable == order_ .. Cols - order_ - 1

\* Only the nearer two thirds are looked at.
SampleEnd == Cols - order_ - (Cols - 2 * order_) \div 3
Checked == order_ - 1 .. Cols - order_ - (Cols - 2 * order_) \div 3

\* The ends stay, the other points may go anywhere.
Moved ==
  \E inside \in SUBSET Movable : occupied' = (occupied \ Movable) \cup inside

\* A look at the trajectory of the current points.
Look ==
  IF curve = "unseen" THEN curve' \in {"clear", "early", "later"} ELSE UNCHANGED curve

-----------------------------------------------------------------------------
(* initControlPoints *)

ENOUGH_INTERVAL == 2

\* The samples in reading order; the first of a span is a control point.
SpanOf(n) == order_ + (n - 1) \div PerSpan
Agrees(row) ==
  \A n \in DOMAIN row : (n - 1) % PerSpan = 0 => (row[n] <=> SpanOf(n) - 1 \in occupied)

NewScan == [same |-> ENOUGH_INTERVAL + 1, last |-> FALSE, in |-> 0, out |-> 0,
            start |-> FALSE, end_maybe |-> FALSE, found |-> <<>>]

\* Mutant: a short gap ends the obstacle.
Sample_Hasty(acc, i, occ) ==
  IF occ /\ ~acc.last
  THEN [acc EXCEPT !.in = i - 1, !.start = TRUE, !.last = TRUE]
  ELSE IF ~occ /\ acc.last
  THEN [acc EXCEPT !.start = FALSE, !.last = FALSE, !.found = Append(@, <<acc.in, i>>)]
  ELSE acc

\* One sample, in span i: an obstacle begins at the first occupied sample
\* after enough free ones, and has ended when enough free ones follow.
Sample(acc, i, occ) ==
  LET changed == occ # acc.last
      same == IF changed THEN 0 ELSE acc.same + 1
      begins == changed /\ occ /\ (acc.same > ENOUGH_INTERVAL \/ i = order_)
      out == IF changed /\ ~occ THEN i ELSE acc.out
      maybe == IF changed THEN ~occ ELSE acc.end_maybe
      ended == maybe /\ same > ENOUGH_INTERVAL
      started == acc.start \/ begins
      in == IF begins THEN i - 1 ELSE acc.in
      whole == started /\ ended
  IN  [same |-> same, last |-> occ, in |-> in, out |-> out,
       start |-> started /\ ~whole, end_maybe |-> maybe /\ ~ended,
       found |-> IF whole THEN Append(acc.found, <<in, out>>) ELSE acc.found]

Segments(row) ==
  LET scan[n \in 0 .. Len(row)] ==
        IF n = 0 THEN NewScan ELSE Sample(scan[n - 1], SpanOf(n), row[n])
  IN  scan[Len(row)].found

\* Base points come from the path A* finds around a segment.  A segment whose
\* path meets the plane of none of its points, or that has no path, gives none.
Push(segments) ==
  \E some \in SUBSET ToSet(segments) :
    planes' = planes \cup UNION {s[1] .. s[2] : s \in some}

initControlPoints ==
  /\ pc = "init"
  /\ samples' \in {row \in Rows[restart_nums] : Agrees(row)}
  /\ segment_ids' = Segments(samples')
  /\ Push(segment_ids')
  /\ pc' = "round"
  /\ UNCHANGED <<pointVars, stopVars, iter_num_, countVars, success>>

\* A call with an initial path: what the optimiser knew of the last is dropped.
reboundReplan ==
  /\ pc = "idle"
  /\ occupied' \in {s \cup m \cup e : s \in Starts, m \in SUBSET Movable, e \in Ends}
  /\ curve' = "unseen"
  /\ planes' = {}
  /\ restart_nums' = 0 /\ rebound_times' = 0
  /\ success' = FALSE /\ pc' = "init"
  /\ UNCHANGED <<stopVars, samples, segment_ids, iter_num_>>

-----------------------------------------------------------------------------
(* check_collision_and_rebound *)

NewCollisions(occ, cov) == {i \in Checked : i \in occ /\ i \notin cov}

\* From the last free point before collision i, or the very first point, to
\* the first free one behind it; Cols says that there is none.
SegmentAround(i, occ) ==
  << Max({0} \cup {j \in 0 .. i - 1 : j \notin occ}),
     Min({Cols} \cup {j \in i + 1 .. Cols - 1 : j \notin occ}) >>

\* Mutant: each collision is a segment, also those within the last one.
CollisionSegments_Overlap(occ, cov) ==
  [k \in 1 .. Cardinality(NewCollisions(occ, cov)) |->
     SegmentAround(SetToSortSeq(NewCollisions(occ, cov), <)[k], occ)]

\* The walk over the points goes on two points behind the end of a segment.
CollisionSegments(occ, cov) ==
  LET from[i \in 0 .. Cols + 2] ==
        IF i > Max(Checked) THEN <<>>
        ELSE IF i \notin NewCollisions(occ, cov) THEN from[i + 1]
        ELSE LET s == SegmentAround(i, occ) IN <<s>> \o from[s[2] + 2]
  IN  from[order_ - 1]

\* A collision that goes on to the last point is given up.
check_collision_and_rebound ==
  LET segments == CollisionSegments(occupied', covered')
  IN  IF NewCollisions(occupied', covered') = {}
      THEN force_stop_type_' = "DONT_STOP" /\ segment_ids' = <<>> /\ UNCHANGED planes
      ELSE IF \E s \in ToSet(segments) : s[2] = Cols
      THEN force_stop_type_' = "STOP_FOR_ERROR" /\ segment_ids' = <<>> /\ UNCHANGED planes
      ELSE /\ force_stop_type_' = "STOP_FOR_REBOUND"
           /\ segment_ids' = segments /\ Push(segments)

-----------------------------------------------------------------------------
(* rebound_optimize and the solver it calls.  The solver asks earlyExit    *)
(* before each evaluation but the first, of a step's beginning points.     *)

prepare ==
  /\ pc = "round" /\ pc' = "solve"
  /\ samples' = <<>> /\ segment_ids' = <<>>
  /\ UNCHANGED <<pointVars, planes, stopVars, iter_num_, countVars, success>>

earlyExit == force_stop_type_ \in {"STOP_FOR_ERROR", "STOP_FOR_REBOUND"}

\* Mutant: only a check says whether to stop.
costFunctionRebound_Stale ==
  /\ pc = "solve" /\ iter_num_ < MaxEvaluations
  /\ iter_num_ > 0 => ~earlyExit
  /\ iter_num_' = iter_num_ + 1
  /\ IF iter_num_ = 0 THEN UNCHANGED pointVars ELSE Moved /\ curve' = "unseen"
  /\ \/ /\ iter_num_ > 3
        /\ covered' \in SUBSET (planes \cap occupied')
        /\ check_collision_and_rebound
     \/ covered' = {} /\ segment_ids' = <<>> /\ UNCHANGED <<force_stop_type_, planes>>
  /\ UNCHANGED <<pc, samples, countVars, success>>

\* One evaluation; its points are looked at from the fifth on, when the
\* trajectory is smooth.
costFunctionRebound ==
  /\ pc = "solve" /\ iter_num_ < MaxEvaluations
  /\ iter_num_ > 0 => ~earlyExit
  /\ iter_num_' = iter_num_ + 1
  /\ IF iter_num_ = 0 THEN UNCHANGED pointVars ELSE Moved /\ curve' = "unseen"
  /\ \/ /\ iter_num_ > 3
        /\ covered' \in SUBSET (planes \cap occupied')
        /\ check_collision_and_rebound
     \/ /\ covered' = {} /\ force_stop_type_' = "DONT_STOP" /\ segment_ids' = <<>>
        /\ UNCHANGED planes
  /\ UNCHANGED <<pc, samples, countVars, success>>

SolverEnds ==
  /\ iter_num_' = 0 /\ covered' = {} /\ segment_ids' = <<>>
  /\ UNCHANGED <<occupied, planes, force_stop_type_, samples>>

Return(flag) == success' = flag /\ pc' = IF flag THEN "refine" ELSE "idle"

\* Mutant: each round has rebounds of its own.
Cancelled_Anew ==
  /\ pc = "solve" /\ earlyExit /\ SolverEnds
  /\ IF force_stop_type_ = "STOP_FOR_REBOUND"
     THEN rebound_times' = 1 /\ pc' = "round" /\ UNCHANGED success
     ELSE rebound_times' = rebound_times + 1 /\ Return(FALSE)
  /\ UNCHANGED <<curve, restart_nums>>

\* LBFGSERR_CANCELED: a rebound, unless there have been too many.
Cancelled ==
  /\ pc = "solve" /\ iter_num_ > 0 /\ earlyExit /\ SolverEnds
  /\ rebound_times' = rebound_times + 1
  /\ IF force_stop_type_ = "STOP_FOR_REBOUND" /\ rebound_times' <= MaxRebounds
     THEN pc' = "round" /\ UNCHANGED success
     ELSE Return(FALSE)
  /\ UNCHANGED <<curve, restart_nums>>

\* Mutant: the last restart's result is taken as it is.
Converged_Tired ==
  /\ pc = "solve" /\ iter_num_ > 0 /\ Look /\ SolverEnds
  /\ restart_nums' = IF curve' = "later" THEN restart_nums + 1 ELSE restart_nums
  /\ IF curve' = "later" /\ restart_nums' < MaxRestarts
     THEN pc' = "init" /\ UNCHANGED success
     ELSE Return(curve' # "early")
  /\ UNCHANGED rebound_times

\* The solver is content with the points last evaluated, whatever that
\* evaluation asked for, and the trajectory is looked at.  (Segments found
\* behind the last restart are for nothing and left out.)
Converged ==
  /\ pc = "solve" /\ iter_num_ > 0 /\ Look /\ SolverEnds
  /\ restart_nums' = IF curve' = "later" THEN restart_nums + 1 ELSE restart_nums
  /\ IF curve' = "later" /\ restart_nums' < MaxRestarts
     THEN pc' = "init" /\ UNCHANGED success
     ELSE Return(curve' = "clear")
  /\ UNCHANGED rebound_times

\* Another result of the solver, of a step it could not make.
SolverFailed ==
  /\ pc = "solve" /\ iter_num_ > 1 /\ SolverEnds /\ Return(FALSE)
  /\ UNCHANGED <<curve, countVars>>

-----------------------------------------------------------------------------
(* The steps of the planner behind a success. *)

\* Within the limits the trajectory is handed on as it is.
Feasible ==
  /\ pc = "refine" /\ pc' = "idle"
  /\ UNCHANGED <<pointVars, planes, stopVars, samples, segment_ids, iter_num_, countVars, success>>

\* Otherwise it is stretched, fitted anew and optimised with no look at the
\* map, and handed on when it turns out clear.
BsplineOptimizeTrajRefine ==
  /\ pc = "refine" /\ pc' = "idle"
  /\ Moved /\ curve' \in {"clear", "early", "later"}
  /\ success' = (curve' = "clear")
  /\ UNCHANGED <<planes, stopVars, samples, segment_ids, iter_num_, countVars>>

Init ==
  /\ pc = "idle" /\ occupied = {} /\ curve = "unseen"
  /\ planes = {} /\ covered = {} /\ samples = <<>> /\ segment_ids = <<>>
  /\ force_stop_type_ = "DONT_STOP" /\ iter_num_ = 0
  /\ restart_nums = 0 /\ rebound_times = 0 /\ success = FALSE

Step ==
  \/ initControlPoints \/ prepare
  \/ costFunctionRebound \/ Cancelled \/ Converged \/ SolverFailed
  \/ Feasible \/ BsplineOptimizeTrajRefine

Next == reboundReplan \/ Step

Spec == Init /\ [][Next]_vars

\* A call runs to its end on the thread that made it: weak fairness of Step,
\* some part of which is enabled exactly while a call runs.
FairSpec == Spec /\ ([]<>(pc = "idle") \/ []<><<pc # "idle">>_vars)
-----------------------------------------------------------------------------
\* Every call returns, however the solver, the map and the paths behave: the
\* two counters bound the rounds, and no branch gives one of them back.
OptimizerReturns == pc # "idle" ~> pc = "idle"

\* A trajectory handed on is clear on the part that is looked at, at the
\* points handed on and not at points of an evaluation, a round or a
\* refinement before.
SuccessIsClear == pc \in {"idle", "refine"} /\ success => curve = "clear"

\* The obstacles of a row: from an occupied sample behind enough free ones to
\* one before enough free ones, with no third such sample between the two.
Heads(row) ==
  {h \in DOMAIN row : row[h] /\ \A n \in h - ENOUGH_INTERVAL - 2 .. h - 1 : n > 0 => ~row[n]}
Tails(row) ==
  {t \in DOMAIN row : row[t] /\ \A n \in t + 1 .. t + ENOUGH_INTERVAL + 2 : n <= Len(row) /\ ~row[n]}
Obstacles(row) ==
  {o \in Heads(row) \X Tails(row) :
     o[1] <= o[2] /\ \A h \in Heads(row) : h <= o[1] \/ h > o[2]}

\* One pass over the samples with three flags and a counter finds the
\* obstacles in order: each from the control point before its first sample to
\* the one after its last, gaps of a few samples closed, an obstacle without an
\* end within the samples left out, and none lost, doubled or run into the next.
SegmentsAsMeant ==
  samples # <<>> =>
    \E obstacle \in [1 .. Len(segment_ids) -> Obstacles(samples)] :
      /\ \A o \in Obstacles(samples) : \E k \in 1 .. Len(segment_ids) : obstacle[k] = o
      /\ \A k \in 1 .. Len(segment_ids) - 1 : obstacle[k][1] < obstacle[k + 1][1]
      /\ \A k \in 1 .. Len(segment_ids) :
           segment_ids[k] = << SpanOf(obstacle[k][1]) - 1, SpanOf(obstacle[k][2] + 1) >>

\* A round cancelled for a rebound has segments that do not overlap, from one
\* free point to the next (or from the first point of all), and every new
\* collision lies in one of them, but for a point right behind the end of one,
\* which the walk leaps over and only a later evaluation sees.
ReboundsHoldCollisions ==
  pc = "solve" /\ iter_num_ > 0 /\ force_stop_type_ = "STOP_FOR_REBOUND" =>
    /\ \A s \in ToSet(segment_ids) :
         /\ s[1] + 1 .. s[2] - 1 \subseteq occupied /\ s[2] \notin occupied
         /\ s[1] # 0 => s[1] \notin occupied
    /\ \A k \in 1 .. Len(segment_ids) - 1 : segment_ids[k][2] <= segment_ids[k + 1][1]
    /\ \A i \in NewCollisions(occupied, covered) :
         \E s \in ToSet(segment_ids) : i \in s[1] .. s[2] + 1

\* What outlives a call in the optimiser does not act in the next: a stop is
\* one that the points last evaluated ask for, and until the first collision a
\* call finds itself only points of its own segments are pushed.
NothingStale ==
  /\ pc = "solve" /\ iter_num_ > 0 /\ earlyExit => NewCollisions(occupied, covered) # {}
  /\ pc = "round" /\ restart_nums = 0 /\ rebound_times = 0 =>
       planes \subseteq UNION {s[1] .. s[2] : s \in ToSet(segment_ids)}
=============================================================================
