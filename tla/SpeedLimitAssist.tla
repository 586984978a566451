-------------------------- MODULE SpeedLimitAssist --------------------------
(***************************************************************************)
(* Speed limit assist on a car whose set speed openpilot keeps itself.     *)
(* plannerd decides whether the limit may become the set speed             *)
(* (speed_limit_assist.py, update_state_machine_non_pcm_long); card keeps  *)
(* the set speed (cruise.py, cruise_ext.py).  Each reads the other's       *)
(* latest message only: plannerd may miss a carState, and with it the      *)
(* release of a button; card acts on the plan last published.              *)
(*                                                                         *)
(* Speeds are steps of the set speed.  Timers count updates of plannerd.   *)
(***************************************************************************)
EXTENDS Integers

CONSTANTS
  MaxSpeed,     \* V_CRUISE_MAX; the least set speed is 1
  Increments,   \* of the set speed, by a short and by a long press
  Limits,       \* speed limits; 0 is none
  Threshold,    \* CONFIRM_SPEED_THRESHOLD
  PreActive,    \* PRE_ACTIVE_GUARD_PERIOD
  Guard,        \* DISABLED_GUARD_PERIOD
  Hold,         \* CRUISE_BUTTON_CONFIRM_HOLD
  MaxPresses,   \* bound: of buttons
  MaxChanges    \* bound: changes of the limit, engagements

ASSUME SpeedLimitAssumption ==
  /\ MaxSpeed \in Nat \ {0} /\ Limits \subseteq Nat /\ Increments \subseteq Nat /\ Threshold \in Nat
  /\ PreActive \in Nat \ {0} /\ Guard \in Nat \ {0} /\ Hold \in Nat \ {0}
  /\ MaxPresses \in Nat /\ MaxChanges \in Nat

VARIABLES
  limit, enabled,                    \* the road and the driver
  assist,                            \* whether SpeedLimitMode is assist, as update_params reads it
  vCruise,                           \* v_cruise_kph, published as vCruiseCluster
  button,                            \* the button released in the latest carState
  prevSla, prevLimit,                \* prev_sla_state, prev_speed_limit_final_last_kph
  prevEnabled,                       \* CC_prev.enabled
  cluster, cluster0,                 \* v_cruise_cluster as last read, and one update before
  plus, minus,                       \* updates for which _plus_hold, _minus_hold still hold
  sla,                               \* state, as published
  speedLimit,                        \* speed_limit_prev
  final,                             \* speed_limit_final_last, as published
  enabled0,                          \* long_enabled_prev
  preActiveTimer, engagedTimer,
  presses, changes,
  asked, recent                      \* no code: whether a release was published since final came
                                     \* up, was heard shortly before, or had not been read then

vars == <<limit, enabled, assist, vCruise, button, prevSla, prevLimit, prevEnabled, cluster, cluster0, plus,
          minus, sla, speedLimit, final, enabled0, preActiveTimer, engagedTimer, presses, changes, asked, recent>>
driver   == <<enabled, assist>>
card     == <<vCruise, button, prevSla, prevLimit, prevEnabled>>
holds    == <<plus, minus>>
plannerd == <<cluster0, sla, speedLimit, final, enabled0, preActiveTimer, engagedTimer>>

Speeds    == 1..MaxSpeed
Clip(v)   == IF v > MaxSpeed THEN MaxSpeed ELSE IF v < 1 THEN 1 ELSE v
Less(t)   == IF t > 0 THEN t - 1 ELSE 0
SlaStates == {"disabled", "inactive", "preActive", "active"}

Init ==
  /\ limit \in Limits /\ enabled = FALSE /\ assist \in BOOLEAN
  /\ vCruise \in Speeds /\ button = "none" /\ prevSla = "disabled" /\ prevLimit = 0
  /\ prevEnabled = FALSE
  /\ cluster = vCruise /\ cluster0 = 0
  /\ plus = 0 /\ minus = 0
  /\ sla = "disabled" /\ speedLimit = 0 /\ final = 0 /\ enabled0 = FALSE
  /\ preActiveTimer = 0 /\ engagedTimer = 0
  /\ presses = 0 /\ changes = 0
  /\ asked = FALSE /\ recent = 0

-----------------------------------------------------------------------------
(* The road, the driver *)

Change == changes < MaxChanges /\ changes' = changes + 1

NewLimit ==
  /\ Change
  /\ limit' \in Limits \ {limit}
  /\ UNCHANGED <<driver, card, cluster, holds, plannerd, presses, asked, recent>>

Engage ==
  /\ Change /\ ~enabled
  /\ enabled' = TRUE
  /\ UNCHANGED <<limit, assist, card, cluster, holds, plannerd, presses, asked, recent>>

Disengage ==
  /\ Change /\ enabled
  /\ enabled' = FALSE
  /\ UNCHANGED <<limit, assist, card, cluster, holds, plannerd, presses, asked, recent>>

SwitchAssist ==
  /\ Change
  /\ assist' = ~assist
  /\ UNCHANGED <<limit, enabled, card, cluster, holds, plannerd, presses, asked, recent>>

-----------------------------------------------------------------------------
(* card *)

Toward(v, by) == (by > 0 /\ v < final) \/ (by < 0 /\ v > final)

(* update_speed_limit_assist_pre_active_confirmed: the press confirms the limit and does   *)
(* not change the set speed.                                                               *)
Confirms(by) == "preActive" \in {sla, prevSla} /\ Toward(vCruise, by)

(* _update_v_cruise_non_pcm *)
Pressed(by) == IF ~enabled \/ Confirms(by) THEN vCruise ELSE Clip(vCruise + by)

(* update_speed_limit_assist_v_cruise_non_pcm *)
Adopts == sla = "active" /\ (prevSla # "active" \/ (final > 0 /\ final # prevLimit))

UpdatedSpeed(by) == IF Adopts THEN Clip(final) ELSE Pressed(by)

(* initialize_v_cruise: the speed of the car, or the set speed of last time.  plannerd reads *)
(* it long before its guard period of ten updates is over.                                    *)
Initializes == enabled /\ ~prevEnabled
Initialize  == vCruise' \in Speeds /\ cluster' = vCruise'

(* state_update, with a carState that says which button was released *)
CardStep(by, released) ==
  /\ IF Initializes THEN Initialize ELSE vCruise' = UpdatedSpeed(by) /\ UNCHANGED cluster
  /\ button' = released
  /\ prevSla' = sla /\ prevLimit' = final /\ prevEnabled' = enabled
  /\ asked' = (asked \/ by # 0 \/ released # "none")
  /\ UNCHANGED <<limit, driver, holds, plannerd, changes, recent>>

CardRuns == CardStep(0, "none") /\ UNCHANGED presses

(* A short press changes the set speed when the button is released, a long one again and   *)
(* again before.  The release that ends it changes nothing, nor does a press that began at *)
(* standstill or before openpilot was engaged.                                             *)
Press ==
  /\ presses < MaxPresses /\ presses' = presses + 1
  /\ \E b \in {"plus", "minus"} :
       \/ CardStep(0, b)
       \/ \E n \in Increments, released \in {b, "none"} :
            CardStep(IF b = "plus" THEN n ELSE -n, released)

-----------------------------------------------------------------------------
(* plannerd *)

(* update_car_state, for each carState that it gets to see *)
ReadCarState ==
  /\ cluster' = vCruise
  /\ plus' = IF button = "plus" THEN Hold ELSE plus
  /\ minus' = IF button = "minus" THEN Hold ELSE minus
  /\ asked' = (asked \/ button # "none")
  /\ recent' = IF button # "none" THEN Hold ELSE recent
  /\ UNCHANGED <<limit, driver, card, plannerd, presses, changes>>

(* What update works with, after update_speed_limit_states of the resolver *)
Final           == IF limit > 0 THEN limit ELSE final
ClusterChanged  == cluster # cluster0
LimitChanged    == Final > 0 /\ limit # speedLimit
TargetConfirmed == cluster = Final

NeedsConfirmSlip == cluster < Threshold                        \* the new limit is not looked at
NeedsConfirm     == cluster < Threshold \/ Final < Threshold   \* apply_confirm_speed_threshold

ReleasedSlip == (plus > 0 /\ cluster > Final) \/ (minus > 0 /\ cluster < Final)   \* wrong way round
Released ==                                             \* _get_button_release
  (plus > 0 /\ cluster < Final) \/ (minus > 0 /\ cluster > Final)

Confirmed == TargetConfirmed \/ (sla = "preActive" /\ Released)

(* update_state_machine_non_pcm_long *)
On == enabled /\ assist

NextSla ==
  IF ~On THEN "disabled"
  ELSE CASE sla = "active" ->
              IF ClusterChanged THEN "inactive"
              ELSE IF LimitChanged /\ NeedsConfirm THEN "preActive" ELSE "active"
         [] sla = "preActive" ->
              IF Confirmed THEN "active" ELSE IF preActiveTimer <= 1 THEN "inactive" ELSE "preActive"
         [] sla = "inactive" ->
              IF LimitChanged THEN "preActive" ELSE IF Confirmed THEN "active" ELSE "inactive"
         [] sla = "disabled" ->
              IF ~enabled0 \/ ClusterChanged \/ engagedTimer > 1 THEN "disabled"
              ELSE IF Confirmed THEN "active" ELSE IF Final > 0 THEN "preActive" ELSE "inactive"

(* A release that confirmed is used up; the others expire. *)
ExpireHolds ==
  LET used == sla = "preActive" /\ On /\ ~TargetConfirmed IN
  /\ plus'  = IF used /\ cluster < Final THEN 0 ELSE Less(plus)
  /\ minus' = IF used /\ cluster > Final THEN 0 ELSE Less(minus)

(* "Update change tracking variables" *)
TrackSlip ==                         \* the last limit is tracked only while active
  /\ cluster0' = cluster /\ enabled0' = enabled
  /\ speedLimit' = IF sla' = "active" THEN limit ELSE speedLimit

Track == cluster0' = cluster /\ speedLimit' = limit /\ enabled0' = enabled

(* card runs five times as often: it has noticed the driver before plannerd looks again. *)
UpdateSla ==
  /\ enabled = enabled0 => prevEnabled = enabled
  /\ final' = Final
  /\ sla' = NextSla
  /\ preActiveTimer' = IF sla' = "preActive" /\ sla # "preActive" THEN PreActive ELSE Less(preActiveTimer)
  /\ engagedTimer' = IF sla = "disabled" /\ On /\ (~enabled0 \/ ClusterChanged) THEN Guard
                     ELSE Less(engagedTimer)
  /\ ExpireHolds /\ Track
  /\ asked' = IF Final # final THEN recent > 0 \/ cluster # vCruise ELSE asked
  /\ recent' = Less(recent)
  /\ UNCHANGED <<limit, driver, card, cluster, presses, changes>>

Next ==
  \/ NewLimit \/ Engage \/ Disengage \/ SwitchAssist
  \/ CardRuns \/ Press
  \/ ReadCarState \/ UpdateSla

Spec == Init /\ [][Next]_vars /\ WF_vars(CardRuns) /\ WF_vars(ReadCarState) /\ WF_vars(UpdateSla)
=============================================================================
