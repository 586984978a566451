-------------------------- MODULE LaneChangeProofs --------------------------
(* For every frame rate, time limit and choice of settings, the safety properties of *)
(* the lane change hold.                                                             *)
EXTENDS LaneChangeProps, TLAPS

TypeOK ==
  /\ state \in States /\ direction \in Directions
  /\ timer \in Nat /\ llProb \in 0..Second
  /\ mode \in Modes /\ bsmDelay \in BOOLEAN
  /\ waitTimer \in Int
  /\ prevOneBlinker \in BOOLEAN /\ prevBrake \in BOOLEAN /\ prevLaneChange \in BOOLEAN
  /\ automatic \in 0..2 /\ clearFor \in 0..Second

(* After a change that began by itself the blinker is still on, and prev_lane_change    *)
(* is set until the state machine is off, which it cannot leave without an edge.        *)
AutomaticInv ==
  /\ automatic <= 1
  /\ automatic = 1 => prevOneBlinker /\ (state = "off" \/ prevLaneChange)

(* While a second has not passed since the blind spot was occupied, the wait is behind  *)
(* the delay by what is missing.                                                        *)
BlindspotInv ==
  state # "off" /\ clearFor < Second /\ AUTO_LANE_CHANGE_TIMER[mode] > 0 =>
    waitTimer <= AUTO_LANE_CHANGE_TIMER[mode] - Second + clearFor

OffInv == state = "off" => direction = "none" /\ waitTimer = 0 /\ clearFor = Second /\ ~prevLaneChange

Inv == TypeOK /\ AutomaticInv /\ BlindspotInv /\ OffInv

-----------------------------------------------------------------------------
(* The delay is a number whatever the setting. *)
LEMMA DelayNat ==
  ASSUME NEW m \in Modes
  PROVE  /\ AUTO_LANE_CHANGE_TIMER[m] \in Nat
         /\ m \notin {OFF, NUDGE} => AUTO_LANE_CHANGE_TIMER[m] > 0
  BY LaneChangeAssumption DEF AUTO_LANE_CHANGE_TIMER, OFF, NUDGE, NUDGELESS

(* What every frame does after the state machine. *)
LEMMA EndType ==
  ASSUME TypeOK, NEW cs \in CarStates, NEW waited \in Int, NEW braked \in BOOLEAN,
         state' \in States, End(cs, waited, braked)
  PROVE  /\ timer' \in Nat /\ mode' \in Modes /\ bsmDelay' \in BOOLEAN /\ waitTimer' \in Int
         /\ prevOneBlinker' \in BOOLEAN /\ prevBrake' \in BOOLEAN /\ prevLaneChange' \in BOOLEAN
  BY DEF TypeOK, End, OneBlinker, CarStates, Directions

(* Every frame but one in preLaneChange. *)
LEMMA KeepType ==
  ASSUME TypeOK, NEW cs \in CarStates, Keep(cs)
  PROVE  automatic' \in 0..2 /\ clearFor' \in 0..Second
  BY LaneChangeAssumption DEF TypeOK, Keep, Since, Clear, AtMost

(* update_lane_change moves the wait on by at most a frame, or back behind a second.    *)
LEMMA WaitedBound ==
  ASSUME TypeOK, NEW blocked \in BOOLEAN
  PROVE  /\ Waited(blocked) \in Int
         /\ ~(bsmDelay /\ blocked) => Waited(blocked) <= waitTimer + 1
         /\ bsmDelay /\ blocked /\ Delay > 0 => Waited(blocked) <= Delay - Second
  <1>1. Delay \in Nat
    BY DelayNat DEF Delay, TypeOK
  <1>2. Second \in Nat /\ MaxWait \in Nat /\ waitTimer \in Int
    BY LaneChangeAssumption DEF MaxWait, TypeOK
  <1> QED
    BY <1>1, <1>2 DEF Waited, AtMost

(* Init: nothing has begun. *)
LEMMA InitInv == Init => Inv
  <1> SUFFICES ASSUME Init PROVE Inv
    OBVIOUS
  <1>1. /\ state = "off" /\ direction = "none" /\ timer = 0 /\ llProb = Second /\ mode \in Modes
        /\ waitTimer = 0 /\ automatic = 0 /\ clearFor = Second /\ Second \in Nat
    BY LaneChangeAssumption DEF Init
  <1>2. ~prevOneBlinker /\ ~prevBrake /\ ~prevLaneChange
        /\ prevOneBlinker \in BOOLEAN /\ prevBrake \in BOOLEAN /\ prevLaneChange \in BOOLEAN
        /\ bsmDelay \in BOOLEAN
    BY Zenon DEF Init
  <1>3. TypeOK
    BY <1>1, <1>2 DEF TypeOK, States, Directions
  <1>4. AutomaticInv /\ BlindspotInv /\ OffInv
    BY <1>1, <1>2 DEF AutomaticInv, BlindspotInv, OffInv
  <1> QED
    BY <1>3, <1>4 DEF Inv

(* A frame outside preLaneChange keeps the invariant. *)
LEMMA QuietStep ==
  ASSUME Inv, NEW cs \in CarStates, state' \in States, direction' \in Directions,
         llProb' \in 0..Second, End(cs, waitTimer, prevBrake), Keep(cs),
         state' = "off" => direction' = "none",
         state = "off" /\ state' # "off" => ~prevOneBlinker
  PROVE  Inv'
  <1>1. TypeOK'
    BY EndType, KeepType DEF Inv, TypeOK
  <1>2. AutomaticInv'
    BY <1>1 DEF Inv, AutomaticInv, OffInv, TypeOK, End, Keep, Since
  <1>3. BlindspotInv'
    <2> SUFFICES ASSUME state' # "off", clearFor' < Second, AUTO_LANE_CHANGE_TIMER[mode] > 0
                 PROVE  waitTimer' <= AUTO_LANE_CHANGE_TIMER[mode] - Second + clearFor'
      BY DEF BlindspotInv, End
    <2>1. AUTO_LANE_CHANGE_TIMER[mode] \in Nat /\ Second \in Nat /\ clearFor \in Nat /\ waitTimer \in Int
      BY DelayNat, LaneChangeAssumption DEF Inv, TypeOK
    <2>2. waitTimer' = waitTimer /\ clearFor' = clearFor + 1
      BY <2>1 DEF End, Keep, Clear, AtMost
    <2>3. clearFor < Second /\ state # "off"
      BY <2>1, <2>2 DEF Inv, OffInv
    <2> QED
      BY <2>1, <2>2, <2>3 DEF Inv, BlindspotInv
  <1>4. OffInv'
    BY DEF Inv, OffInv, End, Keep, Clear
  <1> QED
    BY <1>1, <1>2, <1>3, <1>4 DEF Inv

(* In preLaneChange a change begins by itself only if none has and the wait is over. *)
LEMMA PreBegins ==
  ASSUME Inv, state = "pre", NEW blocked \in BOOLEAN, NEW brake \in BOOLEAN,
         Allowed(blocked, brake), ~blocked
  PROVE  automatic = 0 /\ clearFor = Second
  <1>1. automatic = 0
    BY DEF Inv, AutomaticInv, TypeOK, Allowed
  <1>2. clearFor = Second
    <2>1. Delay \in Nat /\ Delay > 0 /\ Second \in Nat
      BY DelayNat, LaneChangeAssumption DEF Delay, Allowed, Inv, TypeOK
    <2>2. waitTimer + 1 > Delay
      BY <2>1, WaitedBound DEF Allowed, Inv, TypeOK
    <2> QED
      BY <2>1, <2>2 DEF Inv, TypeOK, BlindspotInv, Delay
  <1> QED
    BY <1>1, <1>2

(* A frame in preLaneChange keeps it, too. *)
LEMMA PreStep == ASSUME Inv, NEW cs \in CarStates, Pre(cs) PROVE Inv'
  <1> PICK nudge \in BOOLEAN, blocked \in BOOLEAN, brake \in BOOLEAN :
         /\ direction' = IF Leaves(cs) THEN "none" ELSE Side(cs)
         /\ state' = IF Leaves(cs) THEN "off"
                     ELSE IF (nudge \/ Allowed(blocked, brake)) /\ ~blocked THEN "starting" ELSE "pre"
         /\ UNCHANGED llProb
         /\ End(cs, Waited(blocked), prevBrake \/ brake)
         /\ automatic' = IF state' = "starting" /\ ~nudge THEN AtMost(automatic + 1, 2) ELSE Since(cs)
         /\ clearFor' = IF bsmDelay /\ blocked /\ ~Leaves(cs) THEN 0 ELSE Clear
    BY DEF Pre
  <1> state = "pre"
    BY DEF Pre
  <1>a. state' \in States /\ direction' \in Directions
    BY DEF States, Directions, Side
  <1>b. Waited(blocked) \in Int /\ (prevBrake \/ brake) \in BOOLEAN
    BY WaitedBound DEF Inv
  <1>c. state' = "starting" /\ ~nudge => automatic = 0
    BY PreBegins
  <1>1. TypeOK'
    <2>1. automatic' \in 0..2
      BY DEF Since, AtMost, Inv, TypeOK
    <2>2. clearFor' \in 0..Second
      BY LaneChangeAssumption DEF Clear, AtMost, Inv, TypeOK
    <2>3. /\ timer' \in Nat /\ mode' \in Modes /\ bsmDelay' \in BOOLEAN /\ waitTimer' \in Int
          /\ prevOneBlinker' \in BOOLEAN /\ prevBrake' \in BOOLEAN /\ prevLaneChange' \in BOOLEAN
      BY <1>a, <1>b, EndType DEF Inv
    <2>4. llProb' \in 0..Second
      BY DEF Inv, TypeOK
    <2> QED
      BY <1>a, <2>1, <2>2, <2>3, <2>4 DEF TypeOK
  <1>2. AutomaticInv'
    <2>1. CASE state' = "starting" /\ ~nudge
      <3>1. automatic' = 1
        BY <1>c, <2>1 DEF AtMost
      <3>2. prevOneBlinker' /\ prevLaneChange'
        BY <2>1 DEF End, Leaves
      <3> QED
        BY <3>1, <3>2 DEF AutomaticInv
    <2>2. CASE ~(state' = "starting" /\ ~nudge)
      <3>1. automatic' = Since(cs)
        BY <2>2
      <3>2. automatic' <= 1 /\ (automatic' = 1 => automatic = 1 /\ OneBlinker(cs))
        BY <3>1 DEF Since, Inv, AutomaticInv
      <3>3. automatic = 1 => prevLaneChange
        BY DEF Inv, AutomaticInv
      <3>4. prevOneBlinker' = OneBlinker(cs) /\ (state' # "off" /\ prevLaneChange => prevLaneChange')
        BY DEF End
      <3> QED
        BY <3>2, <3>3, <3>4 DEF AutomaticInv
    <2> QED
      BY <2>1, <2>2
  <1>3. BlindspotInv'
    <2> SUFFICES ASSUME state' # "off", clearFor' < Second, Delay > 0
                 PROVE  waitTimer' <= Delay - Second + clearFor'
      BY DEF BlindspotInv, End, Delay
    <2>1. Delay \in Nat /\ Second \in Nat /\ clearFor \in Nat /\ waitTimer \in Int
      BY DelayNat, LaneChangeAssumption DEF Delay, Inv, TypeOK
    <2>2. waitTimer' = Waited(blocked) /\ ~Leaves(cs)
      BY DEF End
    <2>3. CASE bsmDelay /\ blocked
      <3>1. clearFor' = 0
        BY <2>2, <2>3
      <3>2. Waited(blocked) <= Delay - Second
        BY <2>3, WaitedBound DEF Inv
      <3> QED
        BY <2>1, <2>2, <3>1, <3>2
    <2>4. CASE ~(bsmDelay /\ blocked)
      <3>1. clearFor' = clearFor + 1 /\ clearFor < Second
        BY <2>1, <2>4 DEF Clear, AtMost
      <3>2. Waited(blocked) <= waitTimer + 1 /\ Waited(blocked) \in Int
        BY <2>4, WaitedBound DEF Inv
      <3> QED
        BY <2>1, <2>2, <3>1, <3>2 DEF Inv, BlindspotInv, Delay
    <2> QED
      BY <2>3, <2>4
  <1>4. OffInv'
    BY DEF OffInv, End, Clear
  <1> QED
    BY <1>1, <1>2, <1>3, <1>4 DEF Inv

(* Each branch of update. *)
LEMMA UpdateStep == ASSUME Inv, NEW cs \in CarStates, Update(cs) PROVE Inv'
  <1>t. /\ state \in States /\ direction \in Directions /\ llProb \in 0..Second /\ Second \in Nat
        /\ state = "off" => direction = "none"
    BY LaneChangeAssumption DEF Inv, TypeOK, OffInv
  <1>1. CASE Cancel(cs)
    BY <1>1, <1>t, QuietStep DEF Cancel, States, Directions
  <1>2. CASE Enter(cs)
    <2>1. state' \in States /\ direction' \in Directions /\ llProb' \in 0..Second
      BY <1>2, <1>t DEF Enter, States, Directions, Side
    <2> QED
      BY <1>2, <2>1, QuietStep DEF Enter
  <1>3. CASE StayOff(cs)
    BY <1>3, <1>t, QuietStep DEF StayOff
  <1>4. CASE Pre(cs)
    BY <1>4, PreStep
  <1>5. CASE Starting(cs)
    <2>1. state' \in {"starting", "finishing"} /\ direction' \in Directions
      BY <1>5, <1>t DEF Starting
    <2>2. llProb' \in 0..Second
      BY <1>5, <1>t DEF Starting, AtLeast
    <2> QED
      BY <1>5, <2>1, <2>2, QuietStep DEF Starting, States
  <1>6. CASE Finishing(cs)
    <2>1. state' \in States /\ direction' \in Directions /\ (state' = "off" => direction' = "none")
      BY <1>6, <1>t DEF Finishing, States, Directions, AtMost
    <2>2. llProb' \in 0..Second
      BY <1>6, <1>t DEF Finishing, AtMost
    <2> QED
      BY <1>6, <2>1, <2>2, QuietStep DEF Finishing
  <1> QED
    BY <1>1, <1>2, <1>3, <1>4, <1>5, <1>6 DEF Update

LEMMA NextInv == Inv /\ [Next]_vars => Inv'
  <1> SUFFICES ASSUME Inv, [Next]_vars PROVE Inv'
    OBVIOUS
  <1>1. CASE Frame
    BY <1>1, UpdateStep DEF Frame
  <1>2. CASE ReadParams
    <2>1. TypeOK'
      BY <1>2, LaneChangeAssumption DEF ReadParams, Inv, TypeOK
    <2>2. AutomaticInv'
      BY <1>2 DEF ReadParams, Inv, AutomaticInv
    <2>3. BlindspotInv'
      BY <1>2, LaneChangeAssumption DEF ReadParams, BlindspotInv
    <2>4. OffInv'
      BY <1>2 DEF ReadParams, Inv, OffInv
    <2> QED
      BY <2>1, <2>2, <2>3, <2>4 DEF Inv
  <1>3. CASE UNCHANGED vars
    BY <1>3 DEF vars, Inv, TypeOK, AutomaticInv, BlindspotInv, OffInv
  <1> QED
    BY <1>1, <1>2, <1>3 DEF Next

(* The invariant, from which the properties follow. *)
THEOREM LaneChangeInvariant == Spec => []Inv
  BY InitInv, NextInv, PTL DEF Spec

(* With the blinker left on, at most one change begins by itself. *)
THEOREM LaneChangeOneAutomatic == Spec => []OneAutomaticChange
  <1>1. Inv => OneAutomaticChange
    BY DEF Inv, AutomaticInv, OneAutomaticChange
  <1> QED
    BY <1>1, LaneChangeInvariant, PTL

(* No change begins by itself within a second of the blind spot being occupied. *)
THEOREM LaneChangeBlindspot == Spec => BlindspotDelays
  <1>1. Inv /\ [Next]_vars => [automatic' > automatic => clearFor = Second]_vars
    <2> SUFFICES ASSUME Inv, Next, automatic' > automatic PROVE clearFor = Second
      OBVIOUS
    <2>0. automatic \in 0..2
      BY DEF Inv, TypeOK
    <2>1. CASE ReadParams
      BY <2>0, <2>1 DEF ReadParams
    <2>2. CASE Frame
      <3> PICK cs \in CarStates : Update(cs)
        BY <2>2 DEF Frame
      <3>1. CASE Pre(cs)
        <4>1. state = "pre"
          BY <3>1 DEF Pre
        <4>2. \E blocked, brake \in BOOLEAN : Allowed(blocked, brake) /\ ~blocked
          BY <2>0, <3>1 DEF Pre, Since
        <4> QED
          BY <4>1, <4>2, PreBegins
      <3>2. CASE Keep(cs)
        BY <2>0, <3>2 DEF Keep, Since
      <3> QED
        BY <3>1, <3>2 DEF Update, Cancel, Enter, StayOff, Starting, Finishing
    <2> QED
      BY <2>1, <2>2 DEF Next
  <1> QED
    BY <1>1, LaneChangeInvariant, PTL DEF Spec, BlindspotDelays
=============================================================================
