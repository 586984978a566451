--------------------------- MODULE SelfdrivedProps ---------------------------
(***************************************************************************)
(* What the engagement decision of selfdrived promises.  After a tick,     *)
(* CS_prev' is the CarState that the tick worked on.                       *)
(***************************************************************************)
EXTENDS Selfdrived

(* The state of selfdrived, MADS and their shared timer is well formed, and the *)
(* mismatch counter never passes the limit at which it disengages openpilot.    *)
TypeOK ==
  /\ state \in States
  /\ soft_disable_timer \in 0..SoftDisableTicks
  /\ alerts \subseteq ET
  /\ mads_state \in MadsStates
  /\ mads_alerts \subseteq ET
  /\ setup \in Setup
  /\ toggles \in [Toggles -> BOOLEAN]
  /\ CS_prev \subseteq Conditions
  /\ initialized \in BOOLEAN
  /\ mismatch_counter \in 0..MismatchLimit

(* openpilot is never engaged once the pandas have refused controls for          *)
(* MismatchLimit samples of one engagement: the sample that reaches the limit    *)
(* disengages it in the same tick (data_sample runs before update_events).       *)
MismatchDisengages == Enabled => mismatch_counter < MismatchLimit

-----------------------------------------------------------------------------
InTick == initialized' /\ UNCHANGED toggles

CanValid == "canInvalid" \notin CS_prev'
BrakeEvent ==
  /\ "brakePressed" \in CS_prev'
  /\ "brakePressed" \notin CS_prev \/ "standstill" \notin CS_prev'
GasEvent == "gasPressed" \in CS_prev' \ CS_prev

(* In the PAUSE and DISENGAGE modes a press of the brake takes MADS out of every *)
(* active state within the tick, whatever else happens in it.  It rests on the   *)
(* order of the tick: openpilot must have left before MADS rewrites the events.  *)
BrakeStopsSteering ==
  [][/\ InTick /\ CanValid /\ MadsActive
     /\ setup.steering_mode_on_brake \in {"PAUSE", "DISENGAGE"}
     /\ BrakeEvent
     /\ ~(GasEvent /\ setup.disengage_on_accelerator)
     => ~MadsActive']_vars

(* Conditions that end or refuse cruise control but say nothing against steering. *)
CruiseConditions ==
  {"gasPressed", "brakePressed", "standstill", "slow", "cruiseAvailable", "cruiseEnabled",
   "cancelButton", "setSpeedButton", "buttonEnable", "blockPcmEnable", "wrongCruiseMode",
   "belowEngageSpeed", "speedTooLow", "cruiseDisabled", "manualRestart", "steerOverride",
   "tooDistracted", "controlsDenied"}

(* car_specific.py raises these two, which disable but do not refuse entry, of a car *)
(* whose cruise is off or that openpilot drives already: not when it engages.        *)
EngagesTooSlow == ~Enabled /\ Enabled' /\ CS_prev' \cap {"speedTooLow", "cruiseDisabled"} # {}

(* In the REMAIN_ACTIVE mode, losing cruise control (pedals, cancel button, PCM, *)
(* low speed) never takes lateral control along.                                 *)
SteeringSurvivesCruise ==
  [][/\ InTick /\ MadsActive
     /\ setup.steering_mode_on_brake = "REMAIN_ACTIVE"
     /\ CS_prev' \subseteq CruiseConditions
     /\ "cruiseAvailable" \in CS_prev'
     /\ mismatch_counter' < MismatchLimit
     /\ ~EngagesTooSlow
     => MadsActive']_vars

(* MADS leaves disabled only in a tick in which the driver asks for it: the LKAS *)
(* button, the main switch where the setting allows it, or cruise itself in the  *)
(* unified engagement mode.  No rewriting of events engages it by accident.      *)
NoUnrequestedSteering ==
  [][mads_state = "disabled" /\ mads_state' # "disabled" =>
     \/ "lkasButton" \in CS_prev'
     \/ toggles["main_enabled_toggle"] /\ "cruiseAvailable" \in CS_prev' \ CS_prev
     \/ /\ toggles["unified_engagement_mode"]
        /\ "cruiseEnabled" \in CS_prev' \ CS_prev \/ "buttonEnable" \in CS_prev']_vars

PauseCondition ==
  \/ CS_prev' \cap {"reverseGear", "brakeHold", "parkBrake"} # {}
  \/ "standstill" \in CS_prev' /\ CS_prev' \cap {"doorOpen", "seatbeltNotLatched"} # {}
  \/ "slow" \in CS_prev' /\ "wrongGear" \in CS_prev'

(* While lateral control alone is engaged, a gear, door, belt or brake-hold      *)
(* condition keeps it from steering: active pauses, paused does not resume, and  *)
(* no button or main switch pressed in the same tick overrules that.             *)
PauseConditionWins ==
  [][InTick /\ CanValid /\ LateralOnly /\ PauseCondition => ~MadsActive']_vars

(* In the unified engagement mode, openpilot does not engage without MADS unless *)
(* the driver presses LKAS in that very tick.                                    *)
UnifiedEngagement ==
  [][/\ InTick /\ setup.enabled_toggle /\ toggles["unified_engagement_mode"]
     /\ ~Enabled /\ Enabled' /\ ~EngagesTooSlow
     /\ "lkasButton" \notin CS_prev'
     => MadsEnabled']_vars

(* Whoever is in softDisabling after a tick, that tick told the driver to take   *)
(* over.  MADS stays silent while openpilot is enabled, counting on openpilot's  *)
(* own alert; a tick that openpilot began preEnabled is the exception, because   *)
(* preEnabled does not look at softDisable.                                      *)
SoftDisableAnnounced ==
  [][InTick =>
     /\ state' = "softDisabling" => "softDisable" \in alerts'
     /\ mads_state' = "softDisabling" /\ state # "preEnabled" =>
          "softDisable" \in alerts' \cup mads_alerts']_vars

(* With the same exception, a soft disable starts with the full time; and a      *)
(* countdown that runs only shrinks, whichever machine it belongs to, unless     *)
(* openpilot, back from preEnabled, starts a soft disable after MADS did.        *)
SoftDisableWindow ==
  [][InTick =>
     /\ \/ state # "softDisabling" /\ state' = "softDisabling"
        \/ mads_state # "softDisabling" /\ mads_state' = "softDisabling" /\ state # "preEnabled"
        => soft_disable_timer' = SoftDisableTicks
     /\ /\ soft_disable_timer > 0
        /\ \/ state = "softDisabling" /\ state' = "softDisabling"
           \/ mads_state = "softDisabling" /\ mads_state' = "softDisabling"
        => \/ soft_disable_timer' < soft_disable_timer
           \/ state # "softDisabling" /\ state' = "softDisabling"]_vars

(* A tick without a valid CAN bus ends with neither machine in control, unless   *)
(* the loss is muted because the car is in Park.                                 *)
CanLossDisengages ==
  [][/\ InTick /\ ~CanValid /\ "park" \notin CS_prev'
     => ~Enabled' /\ ~MadsActive']_vars

-----------------------------------------------------------------------------
(* What comments of the code say and the code does not do. *)

(* mads.py:64 "ignore `pedalPressed` events caused by gas presses": pressing the *)
(* gas alone leaves active lateral control active.                               *)
GasPressIgnored ==
  [][/\ InTick /\ MadsActive
     /\ GasEvent
     /\ CS_prev' = {"gasPressed", "cruiseAvailable"}
     /\ mismatch_counter' < MismatchLimit
     => MadsActive']_vars

(* mads/state.py:47-48: the timer is "reset on entrance in SOFT_DISABLING state". *)
MadsSoftDisableIsTimed ==
  [][InTick /\ mads_state # "softDisabling" /\ mads_state' = "softDisabling" =>
       soft_disable_timer' = SoftDisableTicks]_vars
==============================================================================
