--------------------------- MODULE ReboundReplan ---------------------------
(***************************************************************************)
(* EGOPlannerManager::reboundReplan and the calls the state machine makes  *)
(* of it: an initial path, from a polynomial or from what is left of the   *)
(* previous trajectory (the warm start), then optimisation and refinement. *)
(*                                                                         *)
(* All of it runs in one callback, so goals arrive between calls; the      *)
(* clock goes on during one.  Lengths are in units in which the program's  *)
(* 0.2 m and control_points_distance are integers, time is in units of     *)
(* which Ts make the sampling interval ts, and 1e-3 s is less than one.    *)
(* The geometry is an input: distances, and the lengths of path segments.  *)
(***************************************************************************)
EXTENDS Naturals, Sequences

CONSTANTS
  Durations,     \* durations of trajectories
  Ts,            \* ts
  StepLength,    \* what the robot covers in ts at max_vel_
  CtrlDist,      \* pp_.ctrl_pt_dist
  TooClose,      \* 0.2 m
  Dists,         \* distances from the start to the local target
  OldLengths,    \* lengths of the previous trajectory's segments
  PolyLengths,   \* lengths of a polynomial's segments
  PolyTimes,     \* durations of initial polynomials, in units of ts
  TooLong,       \* pp_.planning_horizen_ / pp_.ctrl_pt_dist * 3
  MaxTooFar,     \* as often a polynomial's samples may be too far apart
  MaxShrinks,    \* bound on the shrinking of a step (the code has none)
  Timely         \* replanning succeeds before the trajectory has run out

ASSUME ReplanAssumption ==
  /\ Durations # {} /\ Durations \subseteq Nat \ {0}
  /\ {Ts, StepLength, CtrlDist, TooClose, TooLong} \subseteq Nat \ {0}
  /\ Dists \subseteq Nat /\ OldLengths \subseteq Nat
  /\ PolyLengths \subseteq Nat \ {0} /\ PolyTimes \subseteq Nat \ {0}
  /\ MaxTooFar \in Nat /\ MaxShrinks \in Nat /\ Timely \in BOOLEAN

VARIABLES
  exec_state_, have_new_target_,
  local_data_,                           \* duration_ and the time since start_time_
  flag_first_call, flag_force_polynomial,   \* static in reboundReplan
  attempt,                               \* of the tick's calls; 0 between ticks
  flag_polyInit,
  pc,                                    \* the step of reboundReplan to run next
  dist,                                  \* from start_pt to local_target_pt
  time,                                  \* of the initial polynomial
  lens,                                  \* differences of pseudo_arc_length
  segment_points,                        \* segment_point.size()
  shrinks,                               \* how often ts or cps_dist was divided by 1.5
  points, derivatives                    \* sizes of point_set, start_end_derivatives

fsmVars == <<exec_state_, have_new_target_, attempt, flag_polyInit>>
staticVars == <<flag_first_call, flag_force_polynomial>>
pathVars == <<time, lens, segment_points, shrinks, points, derivatives>>
vars == <<fsmVars, local_data_, staticVars, pc, dist, pathVars>>

LargestOf(S) == CHOOSE m \in S : \A n \in S : n <= m
CeilDiv(a, b) == (a + b - 1) \div b
Power(b, n) == LET p[k \in 0..n] == IF k = 0 THEN 1 ELSE b * p[k - 1] IN p[n]

Init ==
  /\ exec_state_ = "WAIT_TARGET" /\ have_new_target_ = FALSE
  /\ local_data_ = [duration |-> 0, elapsed |-> 0]
  /\ flag_first_call = TRUE /\ flag_force_polynomial = FALSE
  /\ attempt = 0 /\ flag_polyInit = FALSE /\ pc = "IDLE" /\ dist = 0
  /\ time = 0 /\ lens = <<>> /\ segment_points = 0 /\ shrinks = 0
  /\ points = 0 /\ derivatives = 0

NoPath == time' = 0 /\ lens' = <<>> /\ segment_points' = 0 /\ shrinks' = 0
          /\ points' = 0 /\ derivatives' = 0

-----------------------------------------------------------------------------
(* The state machine around the calls.  WAIT_TARGET stands for the states  *)
(* without a trajectory under way, turning in place among them.            *)

goal_callback ==
  /\ pc = "IDLE"
  /\ have_new_target_' = TRUE
  /\ exec_state_' = CASE exec_state_ = "WAIT_TARGET" -> "GEN_NEW_TRAJ"
                      [] exec_state_ = "EXEC_TRAJ" -> "REPLAN_TRAJ"
                      [] OTHER -> exec_state_
  /\ UNCHANGED <<attempt, flag_polyInit, local_data_, staticVars, pc, dist, pathVars>>

\* far enough along the trajectory, or at its end
ExecTraj ==
  /\ pc = "IDLE" /\ exec_state_ = "EXEC_TRAJ"
  /\ exec_state_' = IF local_data_.elapsed >= local_data_.duration THEN "WAIT_TARGET"
                                                                   ELSE "REPLAN_TRAJ"
  /\ UNCHANGED <<have_new_target_, attempt, flag_polyInit, local_data_, staticVars, pc, dist,
                 pathVars>>

StartPlanning ==
  /\ pc = "IDLE" /\ exec_state_ \in {"GEN_NEW_TRAJ", "REPLAN_TRAJ"}
  /\ pc' = "CALL" /\ attempt' = 1
  /\ UNCHANGED <<exec_state_, have_new_target_, flag_polyInit, local_data_, staticVars, dist,
                 pathVars>>

\* Mutant: a goal is too close only when it is reached.
callReboundReplan_Near ==
  /\ pc = "CALL"
  /\ dist' \in Dists
  /\ flag_polyInit' = (have_new_target_ \/ exec_state_ = "GEN_NEW_TRAJ" \/ attempt > 1)
  /\ have_new_target_' = FALSE
  /\ pc' = IF dist' = 0 THEN "FAILED" ELSE "INIT"
  /\ UNCHANGED <<exec_state_, attempt, local_data_, staticVars, pathVars>>

\* getLocalTarget, the flags of the attempt, and the test for a close goal;
\* have_new_target_ is dropped when the call returns and read by nobody before
callReboundReplan ==
  /\ pc = "CALL"
  /\ dist' \in Dists
  /\ flag_polyInit' = (have_new_target_ \/ exec_state_ = "GEN_NEW_TRAJ" \/ attempt > 1)
  /\ have_new_target_' = FALSE
  /\ pc' = IF dist' < TooClose THEN "FAILED" ELSE "INIT"
  /\ UNCHANGED <<exec_state_, attempt, local_data_, staticVars, pathVars>>

\* planFromCurrentTraj tries three times; in GEN_NEW_TRAJ the next tick does
Failed ==
  /\ pc = "FAILED"
  /\ IF exec_state_ = "REPLAN_TRAJ" /\ attempt < 3
     THEN attempt' = attempt + 1 /\ pc' = "CALL"
     ELSE attempt' = 0 /\ pc' = "IDLE"
  /\ dist' = 0 /\ flag_polyInit' = FALSE /\ NoPath
  /\ UNCHANGED <<exec_state_, have_new_target_, local_data_, staticVars>>

-----------------------------------------------------------------------------
(* The initial path.                                                       *)

\* Mutant: a regenerated path keeps the derivatives of the discarded one.
InitPath_KeepsDerivatives ==
  /\ pc = "INIT"
  /\ points' = 0 /\ shrinks' = 0
  /\ IF flag_first_call \/ flag_polyInit \/ flag_force_polynomial
     THEN /\ flag_first_call' = FALSE /\ flag_force_polynomial' = FALSE
          /\ time' \in PolyTimes /\ pc' = "POLY"
     ELSE pc' = "WARM" /\ UNCHANGED <<staticVars, time>>
  /\ UNCHANGED <<fsmVars, local_data_, dist, lens, segment_points, derivatives>>

\* Mutant: the order for a polynomial is not taken back.
InitPath_KeepsForce ==
  /\ pc = "INIT"
  /\ points' = 0 /\ derivatives' = 0 /\ shrinks' = 0
  /\ IF flag_first_call \/ flag_polyInit \/ flag_force_polynomial
     THEN /\ flag_first_call' = FALSE /\ UNCHANGED flag_force_polynomial
          /\ time' \in PolyTimes /\ pc' = "POLY"
     ELSE pc' = "WARM" /\ UNCHANGED <<staticVars, time>>
  /\ UNCHANGED <<fsmVars, local_data_, dist, lens, segment_points>>

\* the head of the do-while that may regenerate the path
InitPath ==
  /\ pc = "INIT"
  /\ points' = 0 /\ derivatives' = 0 /\ shrinks' = 0
  /\ IF flag_first_call \/ flag_polyInit \/ flag_force_polynomial
     THEN /\ flag_first_call' = FALSE /\ flag_force_polynomial' = FALSE
          /\ time' \in PolyTimes /\ pc' = "POLY"
     ELSE pc' = "WARM" /\ UNCHANGED <<staticVars, time>>
  /\ UNCHANGED <<fsmVars, local_data_, dist, lens, segment_points>>

\* bounded shrinking
Shrink == shrinks' = IF shrinks < MaxShrinks THEN shrinks + 1 ELSE shrinks

\* sample the polynomial, with ts divided by 1.5 as often as it takes
PolyPath ==
  /\ pc = "POLY"
  /\ points' = CeilDiv(time * Power(3, shrinks), Power(2, shrinks))
  /\ \E flag_too_far \in {FALSE} \cup (IF shrinks < MaxTooFar THEN {TRUE} ELSE {}) :
       IF flag_too_far \/ points' < 7
       THEN Shrink /\ UNCHANGED <<pc, derivatives>>
       ELSE derivatives' = derivatives + 4 /\ pc' = "OPTIMISE" /\ UNCHANGED shrinks
  /\ UNCHANGED <<fsmVars, local_data_, staticVars, dist, time, lens, segment_points>>

\* samples of the previous trajectory from t_cur to its end
Remaining ==
  IF local_data_.elapsed > local_data_.duration THEN 0
  ELSE (local_data_.duration - local_data_.elapsed) \div Ts + 1

\* samples at ts, 2 ts, .. of a polynomial of poly_time = 2 l / max_vel_
PolySamples(l) == IF 2 * l <= StepLength THEN 0 ELSE (2 * l - 1) \div StepLength

Seqs(S, n) == [1..n -> S]

\* pseudo_arc_length[id], relative to the first
ArcLength(ls) == LET arc[id \in 0..Len(ls)] == IF id = 0 THEN 0 ELSE arc[id - 1] + ls[id]
                 IN  arc

\* The rest of the previous trajectory, prolonged to the target; last is the
\* distance of its last point from the target.  Each point after the first adds
\* a length.  When nothing is left, the point that the polynomial adds first is
\* measured against the one before the vector's beginning: any length at all.
WarmPath ==
  /\ pc = "WARM"
  /\ LET n == Remaining IN
     IF n > 0
     THEN \E old \in Seqs(OldLengths, n - 1), last \in 0..LargestOf(Dists) :
            /\ n = 1 => last = dist   \* the last point is the start
            /\ LET rest == ArcLength(old)[n - 1]
               IN  last <= dist + rest /\ dist <= last + rest
            /\ \E new \in Seqs(PolyLengths, PolySamples(last)) : lens' = old \o new
            /\ segment_points' = n + PolySamples(last)
     ELSE \E last \in 0..LargestOf(Dists) :
            /\ last <= dist + StepLength /\ dist <= last + StepLength
            /\ lens' \in Seqs(PolyLengths \cup {0}, PolySamples(last))
            /\ segment_points' = PolySamples(last)
  /\ pc' = "RESAMPLE"
  /\ UNCHANGED <<fsmVars, local_data_, staticVars, dist, time, shrinks, points, derivatives>>

\* Mutant: the walk stops one segment early.
Resampled_Short(ls, k) ==
  LET arc == [id \in 0..Len(ls) |-> ArcLength(ls)[id] * Power(3, k)]
      step == CtrlDist * Power(2, k)
      turn == [w \in [id : Nat, taken : Seq(Nat)] |->
        LET sample_length == Len(w.taken) * step
        IN  IF w.id + 1 >= Len(ls) \/ sample_length > arc[Len(ls)] THEN w
            ELSE IF arc[w.id] <= sample_length /\ sample_length < arc[w.id + 1]
            THEN [w EXCEPT !.taken = Append(@, w.id)]
            ELSE [w EXCEPT !.id = @ + 1]]
      turns == Len(ls) + arc[Len(ls)] \div step + 1
      walk[n \in 0..turns] == IF n = 0 THEN [id |-> 0, taken |-> <<>>] ELSE turn[walk[n - 1]]
  IN  walk[turns].taken

\* The walk along the arc with cps_dist = CtrlDist / 1.5^k: the segment of each
\* point that is interpolated.  A turn of the loop takes a point or passes a
\* segment, which bounds the turns.  Lengths are scaled by 3^k to stay integers.
Resampled(ls, k) ==
  LET arc == [id \in 0..Len(ls) |-> ArcLength(ls)[id] * Power(3, k)]
      step == CtrlDist * Power(2, k)
      turn == [w \in [id : Nat, taken : Seq(Nat)] |->
        LET sample_length == Len(w.taken) * step
        IN  IF w.id >= Len(ls) \/ sample_length > arc[Len(ls)] THEN w
            ELSE IF arc[w.id] <= sample_length /\ sample_length < arc[w.id + 1]
            THEN [w EXCEPT !.taken = Append(@, w.id)]
            ELSE [w EXCEPT !.id = @ + 1]]
      turns == Len(ls) + arc[Len(ls)] \div step + 1
      walk[n \in 0..turns] == IF n = 0 THEN [id |-> 0, taken |-> <<>>] ELSE turn[walk[n - 1]]
  IN  walk[turns].taken

\* Mutant: the path that is too long is regenerated as it was.
ResamplePath_Unforced ==
  /\ pc = "RESAMPLE"
  /\ points' = Len(Resampled(lens, shrinks)) + 1
  /\ IF points' < 7
     THEN Shrink /\ UNCHANGED <<pc, flag_force_polynomial, derivatives, lens, segment_points>>
     ELSE /\ derivatives' = derivatives + 4
          /\ pc' = IF points' > TooLong THEN "INIT" ELSE "OPTIMISE"
          /\ lens' = <<>> /\ segment_points' = 0
          /\ UNCHANGED <<shrinks, flag_force_polynomial>>
  /\ UNCHANGED <<fsmVars, local_data_, flag_first_call, dist, time>>

ResamplePath ==
  /\ pc = "RESAMPLE"
  /\ points' = Len(Resampled(lens, shrinks)) + 1
  /\ IF points' < 7
     THEN Shrink /\ UNCHANGED <<pc, flag_force_polynomial, derivatives, lens, segment_points>>
     ELSE /\ derivatives' = derivatives + 4
          /\ IF points' > TooLong THEN flag_force_polynomial' = TRUE /\ pc' = "INIT"
                                  ELSE pc' = "OPTIMISE" /\ UNCHANGED flag_force_polynomial
          /\ lens' = <<>> /\ segment_points' = 0
          /\ UNCHANGED shrinks
  /\ UNCHANGED <<fsmVars, local_data_, flag_first_call, dist, time>>

-----------------------------------------------------------------------------

\* optimise, refine if necessary, store; either of the first two may fail
Optimise ==
  /\ pc = "OPTIMISE"
  /\ \/ pc' = "FAILED"
        /\ UNCHANGED <<fsmVars, local_data_, dist, pathVars>>
     \/ /\ \E d \in Durations : local_data_' = [duration |-> d, elapsed |-> 0]
        /\ exec_state_' = "EXEC_TRAJ" /\ attempt' = 0 /\ flag_polyInit' = FALSE
        /\ pc' = "IDLE" /\ dist' = 0 /\ NoPath
        /\ UNCHANGED have_new_target_
  /\ UNCHANGED staticVars

Clock ==
  /\ local_data_.elapsed < local_data_.duration + (IF Timely THEN 0 ELSE 1)
  /\ local_data_.duration > 0
  /\ local_data_' = [local_data_ EXCEPT !.elapsed = @ + 1]
  /\ UNCHANGED <<fsmVars, staticVars, pc, dist, pathVars>>

reboundReplan == callReboundReplan \/ InitPath \/ PolyPath \/ WarmPath \/ ResamplePath
                 \/ Optimise \/ Failed

Next == goal_callback \/ ExecTraj \/ StartPlanning \/ reboundReplan \/ Clock

Spec == Init /\ [][Next]_vars

\* a callback that runs goes on running
FairSpec == Spec /\ WF_vars(reboundReplan)

-----------------------------------------------------------------------------
(* Properties.                                                             *)

\* Every segment of the arc has both of its points, and there is a segment: no
\* index of the warm start leaves its vectors and "size() - 2" does not wrap.
\* It is the test for a close goal that makes a lone last sample be prolonged.
ReadsInBounds == pc = "RESAMPLE" => Len(lens) > 0 /\ segment_points = Len(lens) + 1

\* The walk takes a point at every multiple of cps_dist short of the arc's end,
\* each from the segment it lies on, also across segments of no length.
SamplesEven ==
  pc = "RESAMPLE" =>
    LET taken == Resampled(lens, shrinks)
        arc == [id \in 0..Len(lens) |-> ArcLength(lens)[id] * Power(3, shrinks)]
        step == CtrlDist * Power(2, shrinks)
    IN  /\ Len(taken) = CeilDiv(arc[Len(lens)], step)
        /\ \A i \in 1..Len(taken) :
             arc[taken[i]] <= (i - 1) * step /\ (i - 1) * step < arc[taken[i] + 1]

\* What is fitted with a spline has points enough and exactly four derivatives,
\* however often the path was begun anew.
ReadyToFit == pc = "OPTIMISE" => ~(points < 7) /\ derivatives = 4

\* The order for a polynomial, kept in a static flag, is obeyed by the next round
\* of the loop that gave it: no later call finds it set.
ForceConsumed == pc # "INIT" => ~flag_force_polynomial

\* Every call returns: the step shrinks a bounded number of times, and a path
\* is begun anew at most once.
CallReturns == pc # "IDLE" ~> pc = "IDLE"

\* "pseudo_arc_length is empty, return!" (planner_manager.cpp:174): when nothing
\* is left of the previous trajectory, the warm start gives up.
EmptyRemainderFails ==
  [][pc = "WARM" /\ pc' # "WARM" /\ Remaining = 0 => pc' = "FAILED"]_vars
=============================================================================
