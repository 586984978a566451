---------------------------- MODULE OnroadEvents ----------------------------
(***************************************************************************)
(* The events selfdrived reasons about and the event types (ET) each one   *)
(* carries: selfdrive/selfdrived/events.py (EVENTS) and                    *)
(* sunnypilot/selfdrive/selfdrived/events.py (EVENTS_SP).                  *)
(*                                                                         *)
(* A state machine only asks whether some current event carries a type, so *)
(* an event that behaves exactly like another one is represented by it:    *)
(* "processNotRunning" and "commIssue" stand for the system faults that    *)
(* soft-disable, "tooDistracted" for those that only refuse entry, and so  *)
(* on.  Events that carry no type but PERMANENT are left out.              *)
(***************************************************************************)


(* Conditions of a CarState that car_specific.py turns one-to-one into an event. *)
CarEventNames ==
  {"doorOpen", "seatbeltNotLatched", "wrongGear", "reverseGear", "brakeHold", "parkBrake",
   "wrongCruiseMode", "steerOverride", "steerDisengage", "accFaulted", "espDisabled",
   "belowEngageSpeed", "speedTooLow", "cruiseDisabled", "manualRestart"}

(* Conditions outside the CarState that update_events turns into an event. *)
SystemEventNames == {"overheat", "tooDistracted", "processNotRunning"}

Events ==
  CarEventNames \cup SystemEventNames \cup
  {"pcmEnable", "buttonEnable", "pcmDisable", "buttonCancel", "pedalPressed",
   "preEnableStandstill", "gasPressedOverride", "wrongCarMode",
   "controlsMismatch", "canError", "canBusMissing", "commIssue", "selfdriveInitializing"}

(* The events MADS adds, from custom.OnroadEventSP. *)
SilentEvents ==
  {"silentDoorOpen", "silentSeatbeltNotLatched", "silentWrongGear", "silentReverseGear",
   "silentBrakeHold", "silentParkBrake"}

EventsSP ==
  SilentEvents \cup
  {"lkasEnable", "lkasDisable", "manualSteeringRequired", "manualLongitudinalRequired",
   "silentLkasEnable", "silentLkasDisable", "wrongCarModeAlertOnly", "pedalPressedAlertOnly"}

(* Each type, and the events whose table entry holds an alert for it. *)
Carriers ==
  [enable |-> {"pcmEnable", "buttonEnable", "lkasEnable", "silentLkasEnable"},
   preEnable |-> {"preEnableStandstill"},
   overrideLateral |-> {"steerOverride"},
   overrideLongitudinal |-> {"gasPressedOverride"},
   noEntry |->
     (SilentEvents \cup Events)
       \ {"pcmEnable", "buttonEnable", "pcmDisable", "preEnableStandstill",
          "gasPressedOverride", "steerOverride", "brakeHold", "manualRestart",
          "cruiseDisabled", "speedTooLow"},
   warning |->
     (SilentEvents \ {"silentReverseGear"}) \cup
     {"brakeHold", "manualRestart", "manualLongitudinalRequired",
      "wrongCarModeAlertOnly", "pedalPressedAlertOnly"},
   userDisable |->
     {"pcmDisable", "buttonCancel", "parkBrake", "pedalPressed", "steerDisengage",
      "wrongCarMode", "wrongCruiseMode", "reverseGear",
      "lkasDisable", "manualSteeringRequired", "silentLkasDisable"},
   softDisable |->
     {"doorOpen", "seatbeltNotLatched", "wrongGear", "espDisabled", "overheat",
      "processNotRunning", "commIssue"},
   immediateDisable |->
     {"accFaulted", "controlsMismatch", "canError", "canBusMissing",
      "cruiseDisabled", "speedTooLow"}]

(* ET, selfdrive/selfdrived/events.py; PERMANENT is always alerted. *)
ET == DOMAIN Carriers

(* EventsBase.contains: does a current event carry the type?  It takes a   *)
(* type; asked about the name of an event it answers FALSE.                *)
Contains(events, t) == t \in ET /\ events \cap Carriers[t] # {}
=============================================================================
