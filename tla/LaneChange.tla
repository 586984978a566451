----------------------------- MODULE LaneChange -----------------------------
(***************************************************************************)
(* The lane change state machine of the driving model                      *)
(* (selfdrive/controls/lib/desire_helper.py) with sunnypilot's automatic   *)
(* lane change (auto_lane_change.py).  One step per model frame, time in   *)
(* frames.  The probability fades are counted in frames too: 0..Second.    *)
(***************************************************************************)
EXTENDS Integers

CONSTANTS
  Second,    \* frames per second
  TimeMax,   \* LANE_CHANGE_TIME_MAX, in frames
  Modes      \* the AutoLaneChangeTimer settings a driver chooses among

OFF   == -1
NUDGE == 0
NUDGELESS == 1
AUTO_LANE_CHANGE_TIMER ==
  [m \in OFF..5 |-> IF m <= NUDGE THEN 0 ELSE IF m = NUDGELESS THEN 1
                    ELSE IF m = 2 THEN Second \div 2 ELSE (m - 2) * Second]

ASSUME LaneChangeAssumption ==
  /\ Second \in Nat /\ Second > 3
  /\ TimeMax \in Nat
  /\ Modes \subseteq OFF..5 /\ Modes # {}

VARIABLES
  state,            \* lane_change_state
  direction,        \* lane_change_direction
  timer,            \* lane_change_timer
  llProb,           \* lane_change_ll_prob
  prevOneBlinker,
  mode,             \* lane_change_set_timer
  bsmDelay,         \* lane_change_bsm_delay
  waitTimer,        \* lane_change_wait_timer
  prevBrake,
  prevLaneChange,
  automatic,        \* changes that began by themselves since one blinker came on
  clearFor          \* frames since the blind spot was occupied while the change waited

vars == <<state, direction, timer, llProb, prevOneBlinker, mode, bsmDelay, waitTimer, prevBrake,
          prevLaneChange, automatic, clearFor>>

States     == {"off", "pre", "starting", "finishing"}
Directions == {"none", "left", "right"}
MaxWait    == 3 * Second + 1          \* beyond any delay: the timer need not grow further
CarStates  == [blinker : Directions,   \* "none" stands for both of them, too
               slow : BOOLEAN,         \* below LANE_CHANGE_SPEED_MIN
               lateral : BOOLEAN]      \* lateral_active

AtMost(a, b)  == IF a < b THEN a ELSE b
AtLeast(a, b) == IF a > b THEN a ELSE b

Init ==
  /\ state = "off" /\ direction = "none"
  /\ timer = 0 /\ llProb = Second
  /\ prevOneBlinker = FALSE
  /\ mode \in Modes /\ bsmDelay \in BOOLEAN
  /\ waitTimer = 0 /\ prevBrake = FALSE /\ prevLaneChange = FALSE
  /\ automatic = 0 /\ clearFor = Second

OneBlinker(cs) == cs.blinker # "none"
Side(cs)       == IF cs.blinker = "left" THEN "left" ELSE "right"     \* get_lane_change_direction
Cancelled(cs)  == ~cs.lateral \/ timer > TimeMax \/ mode = OFF

-----------------------------------------------------------------------------
(* update_lane_change in preLaneChange *)

Delay == AUTO_LANE_CHANGE_TIMER[mode]

WaitedSlip(blocked) ==                     \* waits for the delay, not for a second more
  IF bsmDelay /\ blocked /\ Delay > 0
    THEN IF mode = NUDGELESS THEN 0 ELSE Delay
    ELSE AtMost(waitTimer + 1, MaxWait)

Waited(blocked) ==                                                   \* update_lane_change_timers
  IF bsmDelay /\ blocked /\ Delay > 0
    THEN IF mode = NUDGELESS THEN -Second ELSE Delay - Second
    ELSE AtMost(waitTimer + 1, MaxWait)

Allowed(blocked, brake) ==                                                  \* update_allowed
  /\ mode \notin {OFF, NUDGE}
  /\ ~prevBrake /\ ~brake
  /\ ~prevLaneChange
  /\ Waited(blocked) > Delay

(* What follows the state machine in the same frame; update_state resets when idle. *)
EndSlip(cs, waited, braked) ==        \* the timer stops at the limit
  /\ timer' = IF state' \in {"off", "pre"} THEN 0 ELSE AtMost(timer + 1, TimeMax)
  /\ prevOneBlinker' = OneBlinker(cs)
  /\ LET idle == state' = "off" /\ direction' = "none" IN
       /\ waitTimer' = IF idle THEN 0 ELSE waited
       /\ prevBrake' = (~idle /\ braked)
       /\ prevLaneChange' = (~idle /\ (prevLaneChange \/ state' = "starting"))
  /\ UNCHANGED <<mode, bsmDelay>>

End(cs, waited, braked) ==
  /\ timer' = IF state' \in {"off", "pre"} THEN 0 ELSE timer + 1
  /\ prevOneBlinker' = OneBlinker(cs)
  /\ LET idle == state' = "off" /\ direction' = "none" IN
       /\ waitTimer' = IF idle THEN 0 ELSE waited
       /\ prevBrake' = (~idle /\ braked)
       /\ prevLaneChange' = (~idle /\ (prevLaneChange \/ state' = "starting"))
  /\ UNCHANGED <<mode, bsmDelay>>

Since(cs) == IF OneBlinker(cs) THEN automatic ELSE 0
Clear     == IF state' = "off" THEN Second ELSE AtMost(clearFor + 1, Second)
Keep(cs)  == automatic' = Since(cs) /\ clearFor' = Clear

-----------------------------------------------------------------------------
(* One disjunct per branch of update *)

Cancel(cs) ==
  /\ Cancelled(cs)
  /\ state' = "off" /\ direction' = "none"
  /\ UNCHANGED llProb
  /\ End(cs, waitTimer, prevBrake) /\ Keep(cs)

EnterSlip(cs) ==                      \* not only on the edge of the blinker
  /\ ~Cancelled(cs) /\ state = "off"
  /\ OneBlinker(cs) /\ ~cs.slow
  /\ state' = "pre" /\ direction' = Side(cs) /\ llProb' = Second
  /\ End(cs, waitTimer, prevBrake) /\ Keep(cs)

Enter(cs) ==
  /\ ~Cancelled(cs) /\ state = "off"
  /\ OneBlinker(cs) /\ ~prevOneBlinker /\ ~cs.slow
  /\ state' = "pre" /\ direction' = Side(cs) /\ llProb' = Second
  /\ End(cs, waitTimer, prevBrake) /\ Keep(cs)

StayOff(cs) ==
  /\ ~Cancelled(cs) /\ state = "off"
  /\ ~(OneBlinker(cs) /\ ~prevOneBlinker /\ ~cs.slow)
  /\ UNCHANGED <<state, direction, llProb>>
  /\ End(cs, waitTimer, prevBrake) /\ Keep(cs)

Leaves(cs) == ~OneBlinker(cs) \/ cs.slow

(* nudge: steering torque towards the blinker; blocked: the blind spot on its side is     *)
(* occupied.                                                                              *)
Pre(cs) ==
  /\ ~Cancelled(cs) /\ state = "pre"
  /\ \E nudge, blocked, brake \in BOOLEAN :
       /\ direction' = IF Leaves(cs) THEN "none" ELSE Side(cs)
       /\ state' = IF Leaves(cs) THEN "off"
                   ELSE IF (nudge \/ Allowed(blocked, brake)) /\ ~blocked THEN "starting" ELSE "pre"
       /\ UNCHANGED llProb
       /\ End(cs, Waited(blocked), prevBrake \/ brake)
       /\ automatic' = IF state' = "starting" /\ ~nudge THEN AtMost(automatic + 1, 2) ELSE Since(cs)
       /\ clearFor' = IF bsmDelay /\ blocked /\ ~Leaves(cs) THEN 0 ELSE Clear

Starting(cs) ==
  /\ ~Cancelled(cs) /\ state = "starting"
  /\ llProb' = AtLeast(llProb - 2, 0)
  /\ \/ state' = "starting"              \* lane_change_prob is 2 % or more, or still fading out
     \/ llProb' = 0 /\ state' = "finishing"
  /\ UNCHANGED direction
  /\ End(cs, waitTimer, prevBrake) /\ Keep(cs)

Finishing(cs) ==
  /\ ~Cancelled(cs) /\ state = "finishing"
  /\ llProb' = AtMost(llProb + 1, Second)
  /\ direction' = IF llProb' = Second THEN "none" ELSE direction
  /\ state' = IF llProb' < Second THEN "finishing" ELSE IF OneBlinker(cs) THEN "pre" ELSE "off"
  /\ End(cs, waitTimer, prevBrake) /\ Keep(cs)

Update(cs) ==
  Cancel(cs) \/ Enter(cs) \/ StayOff(cs) \/ Pre(cs) \/ Starting(cs) \/ Finishing(cs)

(* Every 50 frames the settings are read again. *)
ReadParams ==
  /\ mode' \in Modes /\ bsmDelay' \in BOOLEAN
  /\ clearFor' = Second
  /\ UNCHANGED <<state, direction, timer, llProb, prevOneBlinker, waitTimer, prevBrake,
                 prevLaneChange, automatic>>

Frame == \E cs \in CarStates : Update(cs)
Next  == Frame \/ ReadParams

Spec == Init /\ [][Next]_vars /\ WF_vars(Frame)
=============================================================================
