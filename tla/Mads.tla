-------------------------------- MODULE Mads --------------------------------
(***************************************************************************)
(* The Modular Assistive Driving System: lateral control that can be       *)
(* engaged apart from cruise control.  sunnypilot/mads/mads.py rewrites    *)
(* the events of the tick, sunnypilot/mads/state.py runs a second state    *)
(* machine on them.  Both run inside SelfdriveD.step, after openpilot's    *)
(* own state machine has moved: selfdrive.enabled is here Enabled', and    *)
(* selfdrive.enabled_prev, copied at the end of the last update, Enabled.  *)
(*                                                                         *)
(* A CarState is the set of the conditions that hold in it.                *)
(***************************************************************************)
EXTENDS SelfdriveState

VARIABLES
  mads_state,    \* ModularAssistiveDrivingSystem.state_machine.state
  mads_alerts,   \* the types MADS appended to current_alert_types
  setup,         \* what MADS read when selfdrived started: car and settings
  toggles,       \* the settings params_thread keeps reading
  CS_prev        \* SelfdriveD.CS_prev: the car in the last tick

MadsStates == {"disabled", "paused", "enabled", "softDisabling", "overriding"}
MadsEnabled == mads_state # "disabled"
MadsActive  == mads_state \in ACTIVE_STATES

SteeringModes == {"REMAIN_ACTIVE", "PAUSE", "DISENGAGE"}
Toggles ==
  {"disengage_on_accelerator", "main_enabled_toggle", "unified_engagement_mode"}

(* enabled_toggle, steering_mode_on_brake, CP.pcmCruise, allow_always,     *)
(* no_main_cruise and MADS's own copy of disengage_on_accelerator.         *)
Setup ==
  [enabled_toggle : BOOLEAN, steering_mode_on_brake : SteeringModes, pcmCruise : BOOLEAN,
   allow_always : BOOLEAN, no_main_cruise : BOOLEAN, disengage_on_accelerator : BOOLEAN]

(* The events that MADS swaps for a silent one that pauses it, while it alone is engaged. *)
SilentFor ==
  [doorOpen |-> "silentDoorOpen", seatbeltNotLatched |-> "silentSeatbeltNotLatched",
   wrongGear |-> "silentWrongGear", reverseGear |-> "silentReverseGear",
   brakeHold |-> "silentBrakeHold", parkBrake |-> "silentParkBrake"]
GEARS_ALLOW_PAUSED == DOMAIN SilentFor

Silenced(events, CS) ==
  {e \in events \cap GEARS_ALLOW_PAUSED :
     \/ e \in {"doorOpen", "seatbeltNotLatched"} /\ "standstill" \in CS
     \/ e = "wrongGear" /\ ("slow" \in CS \/ "reverseGear" \in CS)
     \/ e \in {"reverseGear", "brakeHold", "parkBrake"}}

(* pedalPressed, ignored when MADS believes that the gas raised it. *)
PedalNonGas(events, CS) ==
  /\ "pedalPressed" \in events
  /\ ~("gasPressed" \in CS /\ "gasPressed" \notin CS_prev /\ setup.disengage_on_accelerator)

(* Lateral control alone is engaged: what update_events treats first. *)
\* slip: MADS runs before openpilot's state machine
LateralOnlySlip == MadsEnabled /\ ~Enabled
LateralOnly == MadsEnabled /\ ~Enabled'

\* slip: the setting is not looked at
BlockUnifiedEngagementSlip == MadsEnabled \/ (Enabled' /\ Enabled)
\* slip: enabled_prev is not looked at
BlockUnifiedEngagementSlip2 == ~toggles["unified_engagement_mode"] \/ MadsEnabled \/ Enabled'
BlockUnifiedEngagement ==
  ~toggles["unified_engagement_mode"] \/ MadsEnabled \/ (Enabled' /\ Enabled)

-----------------------------------------------------------------------------
(* Events about cruise control alone: MADS drops them in every tick ... *)
\* slip: pcmDisable is kept
CruiseOnlyEventsSlip == {"wrongCarMode", "buttonCancel", "pedalPressed", "wrongCruiseMode"}
CruiseOnlyEvents ==
  {"wrongCarMode", "pcmDisable", "buttonCancel", "pedalPressed", "wrongCruiseMode"}

(* ... and these while it is engaged without openpilot. *)
LowSpeedEvents ==
  {"preEnableStandstill", "belowEngageSpeed", "speedTooLow", "cruiseDisabled", "manualRestart"}

When(condition, events) == IF condition THEN events ELSE {}

(* ModularAssistiveDrivingSystem.update_events: the events it removes ... *)
RemovedEvents(events, CS) ==
  UNION {When(LateralOnly, Silenced(events, CS) \cup LowSpeedEvents),
         When(BlockUnifiedEngagement, {"pcmEnable", "buttonEnable"}),
         When("cruiseAvailable" \notin CS /\ ~setup.no_main_cruise, {"buttonEnable"}),
         CruiseOnlyEvents}

(* ... and those it adds to events_sp, each with the condition for it.     *)
\* slip: the event is silenced without pausing
PauseEventsSlip(events, CS) == When(LateralOnly, {SilentFor[e] : e \in Silenced(events, CS)})
PauseEvents(events, CS) ==
  When(LateralOnly,
       {SilentFor[e] : e \in Silenced(events, CS)} \cup
       When(/\ mads_state # "paused"
            /\ \/ Silenced(events, CS) # {}
               \/ setup.steering_mode_on_brake = "PAUSE" /\ PedalNonGas(events, CS),
            {"silentLkasDisable"}))

CruiseRequested(events) == events \cap {"pcmEnable", "buttonEnable"} # {}

CruiseEvents(events, CS) ==
  UNION {When("wrongCarMode" \in events /\ (CruiseRequested(events) \/ "setSpeedButton" \in CS),
              {"wrongCarModeAlertOnly"}),
         When(CruiseRequested(events) /\ PedalNonGas(events, CS), {"pedalPressedAlertOnly"}),
         When(/\ ~CruiseRequested(events)
              /\ toggles["main_enabled_toggle"]
              /\ "cruiseAvailable" \in CS \ CS_prev,
              {"lkasEnable"})}

LkasPressed(CS) == "lkasButton" \in CS /\ ("cruiseAvailable" \in CS \/ setup.allow_always)

ButtonEvents(CS) ==
  UNION {When("cancelButton" \in CS /\ Enabled /\ ~Enabled', {"manualLongitudinalRequired"}),
         When(LkasPressed(CS) /\ ~MadsEnabled, {"lkasEnable"}),
         When(LkasPressed(CS) /\ MadsEnabled /\ Enabled', {"manualSteeringRequired"}),
         When(LkasPressed(CS) /\ LateralOnly, {"lkasDisable"}),
         When("cruiseAvailable" \in CS_prev \ CS /\ ~setup.no_main_cruise, {"lkasDisable"})}

(* In the DISENGAGE mode.  The code asks contains(lkasEnable), an event where *)
(* a type is expected, so the branch that would take lkasEnable back is dead. *)
BrakeEvents(events, events_sp, CS) ==
  IF setup.steering_mode_on_brake # "DISENGAGE" \/ ~PedalNonGas(events, CS) THEN events_sp
  ELSE IF MadsEnabled THEN events_sp \cup {"lkasDisable"}
  ELSE IF Contains(events_sp, "lkasEnable")
    THEN (events_sp \ {"lkasEnable"}) \cup {"pedalPressedAlertOnly"}
    ELSE events_sp

ShouldSilentLkasEnable(events, events_sp, CS) ==
  /\ ~(setup.steering_mode_on_brake = "PAUSE" /\ PedalNonGas(events, CS))
  /\ events_sp \cap SilentEvents = {}

AddedEvents(events, CS) ==
  LET requested == PauseEvents(events, CS) \cup CruiseEvents(events, CS) \cup ButtonEvents(CS)
      braked    == BrakeEvents(events, requested, CS)
  IN  braked \cup When(mads_state = "paused" /\ ShouldSilentLkasEnable(events, braked, CS),
                       {"silentLkasEnable"})

-----------------------------------------------------------------------------
(* add_current_alert_types: not while openpilot itself is enabled. *)
Quietly(als) == IF Enabled' THEN {} ELSE als

MadsBecome(s, als) ==
  /\ mads_state' = s
  /\ mads_alerts' = als \cup (IF s \in ACTIVE_STATES THEN Quietly({"warning"}) ELSE {})

(* A new soft disable arms the shared timer unless openpilot is enabled. *)
MadsArmsTimer ==
  /\ mads_state \in {"enabled", "overriding"}
  /\ mads_state' = "softDisabling"
  /\ ~Enabled'

MadsDisableNow(evs) ==
  /\ MadsEnabled
  /\ MustDisable(evs)
  /\ IF Contains(evs, "userDisable")
       THEN MadsBecome(IF "silentLkasDisable" \in evs THEN "paused" ELSE "disabled",
                       {"userDisable"})
       ELSE MadsBecome("disabled", Quietly({"immediateDisable"}))

MadsStartSoftDisable(evs) ==
  /\ mads_state \in {"enabled", "overriding"}
  /\ ~MustDisable(evs)
  /\ Contains(evs, "softDisable")
  /\ MadsBecome("softDisabling", Quietly({"softDisable"}))

MadsOverride(evs) ==
  /\ mads_state \in {"enabled", "overriding"}
  /\ ~MustDisable(evs)
  /\ ~Contains(evs, "softDisable")
  /\ Contains(evs, "overrideLateral")
  /\ MadsBecome("overriding",
                IF mads_state = "enabled" THEN Quietly({"overrideLateral"}) ELSE {"overrideLateral"})

MadsStayEnabledOrEndOverride(evs) ==
  /\ mads_state \in {"enabled", "overriding"}
  /\ ~MustDisable(evs)
  /\ ~Contains(evs, "softDisable")
  /\ ~Contains(evs, "overrideLateral")
  /\ MadsBecome("enabled", {})

MadsSoftDisabling(evs) ==
  /\ mads_state = "softDisabling"
  /\ ~MustDisable(evs)
  /\ IF ~Contains(evs, "softDisable") THEN MadsBecome("enabled", {})
     ELSE IF TimerAfterUpdate > 0 THEN MadsBecome("softDisabling", Quietly({"softDisable"}))
     ELSE MadsBecome("disabled", {})

MadsStayOff(evs) ==
  /\ mads_state = "disabled" \/ (mads_state = "paused" /\ ~MustDisable(evs))
  /\ ~Contains(evs, "enable")
  /\ MadsBecome(mads_state, {})

(* NO_ENTRY: from disabled, a gear, door or brake condition leads to paused. *)
MadsRefused(evs) ==
  /\ mads_state = "disabled" \/ (mads_state = "paused" /\ ~MustDisable(evs))
  /\ Contains(evs, "enable")
  /\ Contains(evs, "noEntry")
  /\ MadsBecome(IF evs \cap (GEARS_ALLOW_PAUSED \cup SilentEvents) # {} THEN "paused" ELSE mads_state,
                Quietly({"noEntry"}))

MadsEngage(evs) ==
  /\ mads_state = "disabled" \/ (mads_state = "paused" /\ ~MustDisable(evs))
  /\ Contains(evs, "enable")
  /\ ~Contains(evs, "noEntry")
  /\ MadsBecome(IF Contains(evs, "overrideLateral") THEN "overriding" ELSE "enabled",
                Quietly({"enable"}))

(* StateMachine.update of MADS on the rewritten events. *)
UpdateMadsState(evs) ==
  \/ MadsDisableNow(evs)
  \/ MadsStartSoftDisable(evs)
  \/ MadsOverride(evs)
  \/ MadsStayEnabledOrEndOverride(evs)
  \/ MadsSoftDisabling(evs)
  \/ MadsStayOff(evs)
  \/ MadsRefused(evs)
  \/ MadsEngage(evs)

(* ModularAssistiveDrivingSystem.update; sets the timer for the whole tick. *)
UpdateMads(events, CS) ==
  IF ~setup.enabled_toggle
    THEN /\ soft_disable_timer' = TimerAfterUpdate
         /\ UNCHANGED <<mads_state, mads_alerts>>
    ELSE /\ UpdateMadsState((events \ RemovedEvents(events, CS)) \cup AddedEvents(events, CS))
         /\ soft_disable_timer' = IF MadsArmsTimer THEN SoftDisableTicks ELSE TimerAfterUpdate

InitMads ==
  /\ mads_state = "disabled"
  /\ mads_alerts = {}
=============================================================================
