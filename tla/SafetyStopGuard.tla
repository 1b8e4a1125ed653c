-------------------------- MODULE SafetyStopGuard --------------------------
(***************************************************************************)
(* safety_stop_guard_node: a watchdog on the velocity commands and a       *)
(* manual stop.  In a stop condition each timer tick publishes zero        *)
(* velocities and 1 on /emergency_stop; taking the stop back publishes 0.  *)
(*                                                                         *)
(* The guard's own zero goes to stop_cmd_topic, which the launch file (and *)
(* the defaults) make the very topic it watches: SelfWatch.  One thread    *)
(* runs the callbacks, so each is one action; Clock is the time between.   *)
(***************************************************************************)
EXTENDS Naturals

CONSTANTS
  Timeout,              \* watchdog_timeout
  Period,               \* 1 / publish_rate
  Depth,                \* queue depth of the subscription to watch_topic
  stop_on_start_, arm_after_first_cmd_,
  SelfWatch,            \* watch_topic = stop_cmd_topic
  Punctual              \* timer and callbacks run before more time passes

ASSUME GuardAssumption ==
  /\ Timeout \in Nat /\ Period \in Nat \ {0} /\ Depth \in Nat \ {0}
  /\ stop_on_start_ \in BOOLEAN /\ arm_after_first_cmd_ \in BOOLEAN
  /\ SelfWatch \in BOOLEAN /\ Punctual \in BOOLEAN

VARIABLES
  manual_stop_, emergency_stop_latched_, has_received_cmd_, stop_active_,
  cmd_age,     \* now() - last_cmd_time_
  due,         \* time until timer_ fires
  pending,     \* commands published on watch_topic and not yet received
  emergency,   \* the last value the guard published on /emergency_stop
  held,        \* history: how long the stop condition has held
  sinceStop,   \* history: time since the guard last published zero velocities
  silence      \* history: time since another node last published a command

flagVars == <<manual_stop_, emergency_stop_latched_, has_received_cmd_, stop_active_>>
vars == <<flagVars, cmd_age, due, pending, emergency, held, sinceStop, silence>>

\* The clocks are exact up to Horizon and stay there beyond it.
Horizon == Timeout + Period + 1
Min2(a, b) == IF a <= b THEN a ELSE b
Older(age) == Min2(age + 1, Horizon)

FlagsOK ==
  /\ manual_stop_ \in BOOLEAN /\ emergency_stop_latched_ \in BOOLEAN
  /\ has_received_cmd_ \in BOOLEAN /\ stop_active_ \in BOOLEAN

DataOK ==
  /\ cmd_age \in 0..Horizon /\ due \in 0..Period /\ pending \in 0..Depth
  /\ emergency \in {0, 1}
  /\ held \in 0..Horizon /\ sinceStop \in 0..Horizon /\ silence \in 0..Horizon

TypeOK == FlagsOK /\ DataOK

GuardInit ==
  /\ manual_stop_ = stop_on_start_
  /\ emergency_stop_latched_ = FALSE /\ has_received_cmd_ = FALSE
  /\ stop_active_ = FALSE
  /\ cmd_age = 0 /\ due = Period /\ pending = 0 /\ emergency = 0

Init == GuardInit /\ held = 0 /\ sinceStop = Horizon /\ silence = 0

-----------------------------------------------------------------------------

timeout == cmd_age > Timeout
watchdog_armed == ~arm_after_first_cmd_ \/ has_received_cmd_
StopCondition == manual_stop_ \/ (watchdog_armed /\ timeout)

\* the history of the stop condition over a callback
KeepHeld == held' = IF StopCondition' THEN held ELSE 0

publishEmergency(value) == emergency' = value

clearStopState ==
  /\ publishEmergency(0)
  /\ stop_active_' = FALSE /\ emergency_stop_latched_' = FALSE

\* called with emergency = TRUE only; its zero may come back as a command
publishStop ==
  /\ pending' = IF SelfWatch THEN Min2(pending + 1, Depth) ELSE pending
  /\ publishEmergency(1)
  /\ emergency_stop_latched_' = TRUE
  /\ sinceStop' = 0

\* Mutant: any command takes a stop back, a manual one too.
cmdCallback_ClearsManual ==
  /\ pending > 0 /\ pending' = pending - 1
  /\ cmd_age' = 0 /\ has_received_cmd_' = TRUE
  /\ IF stop_active_ THEN clearStopState
     ELSE UNCHANGED <<emergency, stop_active_, emergency_stop_latched_>>
  /\ UNCHANGED <<manual_stop_, due, sinceStop, silence>>
  /\ KeepHeld

cmdCallback ==
  /\ pending > 0 /\ pending' = pending - 1
  /\ cmd_age' = 0 /\ has_received_cmd_' = TRUE
  /\ IF stop_active_ /\ ~manual_stop_ THEN clearStopState
     ELSE UNCHANGED <<emergency, stop_active_, emergency_stop_latched_>>
  /\ UNCHANGED <<manual_stop_, due, sinceStop, silence>>
  /\ KeepHeld

\* Mutant: releasing drops the guard's state and does not tell traj_server.
manualStopCallback_Untold(data) ==
  /\ manual_stop_' = data
  /\ IF data THEN UNCHANGED <<emergency_stop_latched_, stop_active_>>
     ELSE emergency_stop_latched_' = FALSE /\ stop_active_' = FALSE
  /\ UNCHANGED <<emergency, has_received_cmd_, cmd_age, due, pending, sinceStop, silence>>
  /\ KeepHeld

\* Mutant: releasing also counts as a sign of life.
manualStopCallback_Feeds(data) ==
  /\ manual_stop_' = data
  /\ IF data THEN UNCHANGED <<emergency, emergency_stop_latched_, cmd_age>>
     ELSE publishEmergency(0) /\ emergency_stop_latched_' = FALSE /\ cmd_age' = 0
  /\ UNCHANGED <<has_received_cmd_, stop_active_, due, pending, sinceStop, silence>>
  /\ KeepHeld

manualStopCallback(data) ==
  /\ manual_stop_' = data
  /\ IF data THEN UNCHANGED <<emergency, emergency_stop_latched_>>
     ELSE publishEmergency(0) /\ emergency_stop_latched_' = FALSE
  /\ UNCHANGED <<has_received_cmd_, stop_active_, cmd_age, due, pending, sinceStop, silence>>
  /\ KeepHeld

\* Mutant: the stop is announced on entering it only.
timerCallback_Once ==
  /\ due = 0 /\ due' = Period
  /\ IF StopCondition
     THEN /\ stop_active_' = TRUE
          /\ IF stop_active_ THEN UNCHANGED <<pending, emergency, emergency_stop_latched_, sinceStop>>
             ELSE publishStop
     ELSE /\ IF stop_active_ THEN clearStopState
             ELSE UNCHANGED <<emergency, stop_active_, emergency_stop_latched_>>
          /\ UNCHANGED <<pending, sinceStop>>
  /\ UNCHANGED <<manual_stop_, has_received_cmd_, cmd_age, silence>>
  /\ KeepHeld

timerCallback ==
  /\ due = 0 /\ due' = Period
  /\ IF StopCondition
     THEN stop_active_' = TRUE /\ publishStop
     ELSE /\ IF stop_active_ THEN clearStopState
             ELSE UNCHANGED <<emergency, stop_active_, emergency_stop_latched_>>
          /\ UNCHANGED <<pending, sinceStop>>
  /\ UNCHANGED <<manual_stop_, has_received_cmd_, cmd_age, silence>>
  /\ KeepHeld

-----------------------------------------------------------------------------
(* The environment.                                                        *)

\* traj_server or the planner publishes a velocity
Commander ==
  /\ pending' = Min2(pending + 1, Depth)
  /\ silence' = 0
  /\ UNCHANGED <<flagVars, cmd_age, due, emergency, held, sinceStop>>

Clock ==
  /\ Punctual => due > 0 /\ pending = 0
  /\ cmd_age' = Older(cmd_age)
  /\ due' = IF due > 0 THEN due - 1 ELSE 0
  /\ held' = IF StopCondition THEN Older(held) ELSE 0
  /\ sinceStop' = Older(sinceStop)
  /\ silence' = Older(silence)
  /\ UNCHANGED <<flagVars, pending, emergency>>

Next ==
  \/ cmdCallback
  \/ \E data \in BOOLEAN : manualStopCallback(data)
  \/ timerCallback
  \/ Commander
  \/ Clock

Spec == Init /\ [][Next]_vars

\* The executor runs every callback that is due and keeps up with the commands
\* (a few per period from publishers with fixed rates), and time passes.
KeepsUp == []<>(pending = 0)
FairSpec == Spec /\ WF_vars(cmdCallback) /\ WF_vars(timerCallback) /\ SF_vars(Clock) /\ KeepsUp

-----------------------------------------------------------------------------
(* Properties.                                                             *)

\* The latch says what traj_server was last told, and traj_server is held in a
\* stop only while the guard knows of one: no stop is forgotten while told.
LatchTruthful ==
  /\ emergency_stop_latched_ <=> emergency = 1
  /\ emergency = 1 => stop_active_

\* While the manual stop stays on, nothing received takes the stop back.
ManualStopHolds ==
  [][manual_stop_ /\ manual_stop_' /\ emergency = 1 => emergency' = 1]_vars

\* A stop condition that persists is answered at every tick: the base is sent
\* zero velocities at most one period apart, also across quick manual toggles.
StopsRepeat == held > Period => sinceStop <= Period

\* When no other node has commanded for longer than timeout and period, the
\* base was stopped no longer ago than that, although the guard's own stops
\* refresh the watchdog it listens to.
SilenceIsStopped ==
  watchdog_armed /\ silence > Timeout + Period => sinceStop <= Timeout + Period

\* A manual stop that stays on is in the end told to traj_server for good,
\* whatever toggling and watchdog stops came before.
ManualStopTakesEffect == <>[]manual_stop_ => <>[](emergency = 1)

\* A stop told to traj_server is taken back unless the user holds it.
StopTakenBack == emergency = 1 ~> emergency = 0 \/ manual_stop_
=============================================================================
