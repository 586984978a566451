---------------------------- MODULE MCSelfdrived ----------------------------
(* Selfdrived with a small environment for TLC. *)
EXTENDS SelfdrivedProps

(* Every tick: no pedal, gas, brake or both, moving or standing, the main switch off, *)
(* on, or on with cruise active; and, without gas, at most one of the rarer           *)
(* combinations.  The LKAS button comes also together with the conditions that could  *)
(* overrule it.                                                                       *)
Pedals == {{}, {"gasPressed"}, {"brakePressed"}, {"gasPressed", "brakePressed"}}
Motion == {{}, {"standstill", "slow"}}
Cruise == {{}, {"cruiseAvailable"}, {"cruiseAvailable", "cruiseEnabled"}}
Rare   == {{"doorOpen"}, {"wrongGear", "reverseGear"}, {"steerOverride"},
           {"processNotRunning"}, {"speedTooLow"}, {"cancelButton"}, {"controlsDenied"},
           {"canInvalid", "serviceInvalid"}, {"canInvalid", "canTimeout", "serviceInvalid"},
           {"wrongGear", "park", "canInvalid", "canTimeout", "serviceInvalid"},
           {"buttonEnable"},
           {"lkasButton"}, {"lkasButton", "doorOpen"}, {"lkasButton", "processNotRunning"}}

MCCarStates ==
  {p \cup m \cup c : p \in Pedals, m \in Motion, c \in Cruise} \cup
  {p \cup m \cup c \cup r : p \in {{}, {"brakePressed"}}, m \in Motion, c \in Cruise, r \in Rare}

(* A car whose cruise control or whose buttons engage openpilot, with MADS in every *)
(* steering mode or switched off.                                                   *)
MCSetups ==
  {s \in [enabled_toggle : BOOLEAN, steering_mode_on_brake : SteeringModes, pcmCruise : BOOLEAN,
          allow_always : {FALSE}, no_main_cruise : {FALSE}, disengage_on_accelerator : {TRUE}] :
     s.enabled_toggle \/ s.steering_mode_on_brake = "REMAIN_ACTIVE"}

MCToggles == {[t \in Toggles |-> TRUE]}

(* The same cars when the gas pedal does not disengage cruise control at first. *)
GasSetups  == {[s EXCEPT !.disengage_on_accelerator = FALSE] : s \in MCSetups}
GasToggles == {[t \in Toggles |-> t # "disengage_on_accelerator"]}

(* A tick reads only this of the CarState before it. *)
Remembered == {"gasPressed", "brakePressed", "cruiseAvailable", "cruiseEnabled"}

(* States that differ in the rest of CS_prev or in the alerts, which no action  *)
(* reads, have the same future; and TLC checks an action property on every step *)
(* it generates, not only on those that lead to a new state.                    *)
View == <<state, soft_disable_timer, mads_state, setup, toggles, CS_prev \cap Remembered,
          initialized, mismatch_counter>>
=============================================================================
