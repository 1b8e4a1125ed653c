----------------------- MODULE SafetyStopGuard_proofs -----------------------
(***************************************************************************)
(* Theorems about SafetyStopGuard, for every timeout, period and wiring.   *)
(***************************************************************************)
EXTENDS SafetyStopGuard, TLAPS

\* The guard's clocks are numbers within their bounds, its flags Booleans.
THEOREM GuardTypeCorrect == Spec => []TypeOK
<1>1. Init => TypeOK
  <2>1. Init => FlagsOK
    BY GuardAssumption DEF Init, GuardInit, FlagsOK
  <2>2. Init => DataOK
    BY GuardAssumption DEF Init, GuardInit, DataOK, Horizon
  <2> QED
    BY <2>1, <2>2 DEF TypeOK
<1>2. TypeOK /\ [Next]_vars => TypeOK'
  <2> SUFFICES ASSUME FlagsOK, DataOK, [Next]_vars PROVE FlagsOK' /\ DataOK'
    BY DEF TypeOK
  <2>1. CASE cmdCallback
    <3>1. FlagsOK'
      BY <2>1 DEF cmdCallback, clearStopState, FlagsOK
    <3>2. DataOK'
      <4>1. emergency' \in {0, 1} /\ held' \in 0..Horizon
        BY <2>1, GuardAssumption
           DEF cmdCallback, clearStopState, publishEmergency, KeepHeld, DataOK, Horizon
      <4>2. cmd_age' \in 0..Horizon /\ pending' \in 0..Depth
        BY <2>1, GuardAssumption DEF cmdCallback, DataOK, Horizon
      <4> QED
        BY <2>1, <4>1, <4>2 DEF cmdCallback, DataOK
    <3> QED
      BY <3>1, <3>2
  <2>2. ASSUME NEW data \in BOOLEAN, manualStopCallback(data) PROVE FlagsOK' /\ DataOK'
    <3>1. FlagsOK'
      BY <2>2 DEF manualStopCallback, FlagsOK
    <3>2. DataOK'
      <4>1. emergency' \in {0, 1} /\ held' \in 0..Horizon
        BY <2>2, GuardAssumption DEF manualStopCallback, publishEmergency, KeepHeld, DataOK, Horizon
      <4> QED
        BY <2>2, <4>1 DEF manualStopCallback, DataOK
    <3> QED
      BY <3>1, <3>2
  <2>3. CASE timerCallback
    <3>1. FlagsOK'
      BY <2>3 DEF timerCallback, publishStop, clearStopState, FlagsOK
    <3>2. DataOK'
      <4>1. emergency' \in {0, 1} /\ held' \in 0..Horizon
        BY <2>3, GuardAssumption
           DEF timerCallback, publishStop, clearStopState, publishEmergency, KeepHeld, DataOK, Horizon
      <4>2. sinceStop' \in 0..Horizon /\ pending' \in 0..Depth /\ due' \in 0..Period
        BY <2>3, GuardAssumption DEF timerCallback, publishStop, DataOK, Horizon, Min2
      <4> QED
        BY <2>3, <4>1, <4>2 DEF timerCallback, DataOK
    <3> QED
      BY <3>1, <3>2
  <2>4. CASE Commander
    BY <2>4, GuardAssumption DEF Commander, flagVars, FlagsOK, DataOK, Min2, Horizon
  <2>5. CASE Clock
    <3>1. FlagsOK'
      BY <2>5 DEF Clock, flagVars, FlagsOK
    <3>2. DataOK'
      BY <2>5, GuardAssumption DEF Clock, Older, DataOK, Min2, Horizon
    <3> QED
      BY <3>1, <3>2
  <2>6. CASE UNCHANGED vars
    BY <2>6 DEF vars, flagVars, FlagsOK, DataOK
  <2> QED
    BY <2>1, <2>2, <2>3, <2>4, <2>5, <2>6 DEF Next
<1> QED
  BY <1>1, <1>2, PTL DEF Spec

\* The latch agrees with what traj_server was last told, and a told stop is an
\* active one, in every interleaving of timer, commands and manual stops.
THEOREM LatchIsTruthful == Spec => []LatchTruthful
<1>1. Init => LatchTruthful
  BY DEF Init, GuardInit, LatchTruthful
<1>2. TypeOK /\ LatchTruthful /\ [Next]_vars => LatchTruthful'
  <2> SUFFICES ASSUME TypeOK, LatchTruthful, [Next]_vars PROVE LatchTruthful'
    OBVIOUS
  <2> USE DEF TypeOK, FlagsOK, DataOK, LatchTruthful
  <2>1. CASE cmdCallback
    BY <2>1 DEF cmdCallback, clearStopState, publishEmergency
  <2>2. ASSUME NEW data \in BOOLEAN, manualStopCallback(data) PROVE LatchTruthful'
    BY <2>2 DEF manualStopCallback, publishEmergency
  <2>3. CASE timerCallback
    BY <2>3 DEF timerCallback, publishStop, clearStopState, publishEmergency
  <2>4. CASE Commander \/ Clock \/ UNCHANGED vars
    BY <2>4 DEF Commander, Clock, flagVars, vars
  <2> QED
    BY <2>1, <2>2, <2>3, <2>4 DEF Next
<1> QED
  BY <1>1, <1>2, GuardTypeCorrect, PTL DEF Spec

\* No command, whoever sent it, takes back a manual stop that stays on.
THEOREM ManualStopIsKept == Spec => ManualStopHolds
<1>1. [Next]_vars => [manual_stop_ /\ manual_stop_' /\ emergency = 1 => emergency' = 1]_vars
  <2> SUFFICES ASSUME [Next]_vars, manual_stop_, manual_stop_', emergency = 1
               PROVE  emergency' = 1
    OBVIOUS
  <2>1. CASE cmdCallback
    BY <2>1 DEF cmdCallback
  <2>2. ASSUME NEW data \in BOOLEAN, manualStopCallback(data) PROVE emergency' = 1
    BY <2>2 DEF manualStopCallback
  <2>3. CASE timerCallback
    BY <2>3 DEF timerCallback, StopCondition, publishStop, publishEmergency
  <2>4. CASE Commander \/ Clock \/ UNCHANGED vars
    BY <2>4 DEF Commander, Clock, vars
  <2> QED
    BY <2>1, <2>2, <2>3, <2>4 DEF Next
<1> QED
  BY <1>1, PTL DEF Spec, ManualStopHolds

-----------------------------------------------------------------------------
(* Punctual callbacks.  Period - due is the time since the timer fired.    *)

\* A condition already there at the last tick was answered by it.
TickAnswered == held > Period - due => sinceStop <= Period - due

\* The same of a watchdog timeout, whose age is known from the last command.
TimeoutAnswered ==
  watchdog_armed /\ cmd_age > Timeout + (Period - due) => sinceStop <= Period - due

\* A command under way was published in this instant, by another node or as
\* the echo of a stop; so the last one received dates from one or the other.
EchoesAreFresh ==
  /\ pending > 0 => silence = 0 \/ sinceStop = 0
  /\ silence <= cmd_age \/ sinceStop <= cmd_age

\* The age of a stop condition is tied to the timer at every step.
LEMMA TickAnsweredInductive ==
  ASSUME Punctual, TypeOK, TickAnswered, [Next]_vars
  PROVE  TickAnswered'
<1> USE GuardAssumption DEF TypeOK, DataOK, TickAnswered, Horizon, Min2
<1>1. CASE cmdCallback
  BY <1>1 DEF cmdCallback, KeepHeld
<1>2. ASSUME NEW data \in BOOLEAN, manualStopCallback(data) PROVE TickAnswered'
  BY <1>2 DEF manualStopCallback, KeepHeld
<1>3. CASE timerCallback
  <2>1. StopCondition' = StopCondition
    BY <1>3 DEF timerCallback, StopCondition, watchdog_armed, timeout
  <2>2. CASE StopCondition
    BY <1>3, <2>2 DEF timerCallback, publishStop
  <2>3. CASE ~StopCondition
    BY <1>3, <2>1, <2>3 DEF timerCallback, KeepHeld
  <2> QED
    BY <2>2, <2>3
<1>4. CASE Commander
  BY <1>4 DEF Commander
<1>5. CASE Clock
  BY <1>5 DEF Clock, Older
<1>6. CASE UNCHANGED vars
  BY <1>6 DEF vars
<1> QED
  BY <1>1, <1>2, <1>3, <1>4, <1>5, <1>6 DEF Next

\* A stop condition that lasts is answered at every tick.
THEOREM StopsAreRepeated ==
  ASSUME Punctual
  PROVE  Spec => []StopsRepeat
<1>1. Init => TickAnswered
  BY GuardAssumption DEF Init, GuardInit, TickAnswered
<1>2. TypeOK /\ TickAnswered /\ [Next]_vars => TickAnswered'
  BY TickAnsweredInductive
<1>3. TypeOK /\ TickAnswered => StopsRepeat
  BY GuardAssumption DEF TypeOK, DataOK, TickAnswered, StopsRepeat, Horizon
<1> QED
  BY <1>1, <1>2, <1>3, GuardTypeCorrect, PTL DEF Spec

\* The age of the last stop is tied to the watchdog at every step.
LEMMA SilenceInductive ==
  ASSUME Punctual, TypeOK, TimeoutAnswered, EchoesAreFresh, [Next]_vars
  PROVE  TimeoutAnswered' /\ EchoesAreFresh'
<1> USE GuardAssumption DEF TypeOK, DataOK, Horizon, Min2
<1>1. CASE cmdCallback
  <2>1. cmd_age' = 0 /\ pending > 0 /\ pending' = pending - 1
        /\ UNCHANGED <<due, sinceStop, silence>>
    BY <1>1 DEF cmdCallback
  <2> QED
    BY <2>1 DEF TimeoutAnswered, EchoesAreFresh
<1>2. ASSUME NEW data \in BOOLEAN, manualStopCallback(data)
      PROVE  TimeoutAnswered' /\ EchoesAreFresh'
  BY <1>2 DEF manualStopCallback, TimeoutAnswered, EchoesAreFresh, watchdog_armed
<1>3. CASE timerCallback
  <2>1. CASE StopCondition
    BY <1>3, <2>1 DEF timerCallback, publishStop, TimeoutAnswered, EchoesAreFresh
  <2>2. CASE ~StopCondition
    <3>1. due' = Period /\ ~(watchdog_armed /\ cmd_age > Timeout)
          /\ UNCHANGED <<has_received_cmd_, cmd_age, pending, sinceStop, silence>>
      BY <1>3, <2>2 DEF timerCallback, StopCondition, timeout
    <3> QED
      BY <3>1 DEF TimeoutAnswered, EchoesAreFresh, watchdog_armed
  <2> QED
    BY <2>1, <2>2
<1>4. CASE Commander
  BY <1>4 DEF Commander, flagVars, TimeoutAnswered, EchoesAreFresh, watchdog_armed
<1>5. CASE Clock
  BY <1>5 DEF Clock, Older, flagVars, TimeoutAnswered, EchoesAreFresh, watchdog_armed
<1>6. CASE UNCHANGED vars
  BY <1>6 DEF vars, flagVars, TimeoutAnswered, EchoesAreFresh, watchdog_armed
<1> QED
  BY <1>1, <1>2, <1>3, <1>4, <1>5, <1>6 DEF Next

\* Silence of all other nodes is answered within timeout and period, also when
\* the guard hears its own stops.
THEOREM SilenceIsAnswered ==
  ASSUME Punctual
  PROVE  Spec => []SilenceIsStopped
<1>1. Init => TimeoutAnswered /\ EchoesAreFresh
  BY GuardAssumption DEF Init, GuardInit, TimeoutAnswered, EchoesAreFresh
<1>2. TypeOK /\ TimeoutAnswered /\ EchoesAreFresh /\ [Next]_vars
        => TimeoutAnswered' /\ EchoesAreFresh'
  BY SilenceInductive
<1>3. TypeOK /\ TimeoutAnswered /\ EchoesAreFresh => SilenceIsStopped
  BY GuardAssumption DEF TypeOK, DataOK, TimeoutAnswered, EchoesAreFresh, SilenceIsStopped, Horizon
<1> QED
  BY <1>1, <1>2, <1>3, GuardTypeCorrect, PTL DEF Spec
=============================================================================
