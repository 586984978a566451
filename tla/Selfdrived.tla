----------------------------- MODULE Selfdrived -----------------------------
(***************************************************************************)
(* selfdrived: one process, 100 ticks a second, that decides whether       *)
(* openpilot is engaged.  A tick (SelfdriveD.step) samples the car and the *)
(* messages, computes the events, moves openpilot's state machine and then *)
(* MADS.  A second thread, params_thread, keeps re-reading the settings;   *)
(* a tick reads each of them once, so one change between two ticks is      *)
(* every interleaving of the two threads.                                  *)
(*                                                                         *)
(* What car, pandas, driver and the other processes do in a tick is a set  *)
(* of conditions drawn from CarStates.  The names of CarEventNames and     *)
(* SystemEventNames stand for the condition that raises that event.        *)
(***************************************************************************)
EXTENDS Mads

CONSTANTS
  CarStates,       \* what the environment may present to one tick
  Setups,          \* cars and settings selfdrived may start with
  InitialToggles,  \* values the live settings may start with
  LiveToggles,     \* settings the driver may change while selfdrived runs
  MismatchLimit    \* samples without controlsAllowed before controlsMismatch: 200

Conditions ==
  CarEventNames \cup SystemEventNames \cup
  {"gasPressed", "brakePressed", "standstill", "slow", "park", "cruiseAvailable",
   "cruiseEnabled", "blockPcmEnable", "buttonEnable", "setSpeedButton", "cancelButton",
   "lkasButton", "controlsDenied", "safetyMismatch", "canInvalid", "canTimeout",
   "serviceInvalid"}

ASSUME EnvironmentAssumption ==
  /\ CarStates \subseteq SUBSET Conditions
  /\ Setups \subseteq Setup
  /\ InitialToggles \subseteq [Toggles -> BOOLEAN]
  /\ LiveToggles \subseteq Toggles
ASSUME MismatchAssumption == MismatchLimit \in Nat \ {0}

VARIABLES
  initialized,       \* SelfdriveD.initialized
  mismatch_counter   \* SelfdriveD.mismatch_counter

ssVars   == <<state, alerts>>
madsVars == <<mads_state, mads_alerts>>
vars == <<ssVars, soft_disable_timer, madsVars, setup, toggles, CS_prev, initialized,
          mismatch_counter>>

-----------------------------------------------------------------------------
(* update_events.  car_specific.py and the pedals, skipped when CAN is not valid. *)
PedalPressed(CS) ==
  \/ /\ "gasPressed" \in CS \ CS_prev
     /\ toggles["disengage_on_accelerator"]
  \/ /\ "brakePressed" \in CS
     /\ "brakePressed" \notin CS_prev \/ "standstill" \notin CS

PcmEnable(CS) ==
  setup.pcmCruise /\ "cruiseEnabled" \in CS \ CS_prev /\ "blockPcmEnable" \notin CS

CarEvents(CS) ==
  UNION {CS \cap CarEventNames,
         CS \cap {"buttonEnable"},
         When("cruiseAvailable" \notin CS, {"wrongCarMode"}),
         When({"brakePressed", "standstill"} \subseteq CS, {"preEnableStandstill"}),
         When("gasPressed" \in CS, {"gasPressedOverride"}),
         When("cancelButton" \in CS, {"buttonCancel"}),
         When(PcmEnable(CS), {"pcmEnable"}),
         When(setup.pcmCruise /\ "cruiseEnabled" \notin CS, {"pcmDisable"}),
         When(PedalPressed(CS), {"pedalPressed"})}

(* The counter is sampled before the events are computed. *)
SampledMismatch(CS) ==
  IF ~Enabled THEN 0
  ELSE IF "controlsDenied" \in CS THEN mismatch_counter + 1 ELSE mismatch_counter

\* slip: one sample too late
EarlyEventsSlip(CS) ==
  UNION {When("canInvalid" \notin CS, CarEvents(CS)),
         CS \cap (SystemEventNames \ {"processNotRunning"}),
         When("safetyMismatch" \in CS \/ SampledMismatch(CS) > MismatchLimit,
              {"controlsMismatch"})}
EarlyEvents(CS) ==
  UNION {When("canInvalid" \notin CS, CarEvents(CS)),
         CS \cap (SystemEventNames \ {"processNotRunning"}),
         When("safetyMismatch" \in CS \/ SampledMismatch(CS) >= MismatchLimit,
              {"controlsMismatch"})}

MalfunctionEvents(CS) ==
  UNION {CS \cap {"processNotRunning"},
         When("canTimeout" \in CS, {"canBusMissing"}),
         When("canInvalid" \in CS /\ "canTimeout" \notin CS, {"canError"})}

(* commIssue is the catch-all: not when a malfunction already says what is wrong. *)
SystemErrors(CS) ==
  LET all == EarlyEvents(CS) \cup MalfunctionEvents(CS)
  IN  /\ Contains(all, "noEntry")
      /\ Contains(all, "softDisable") \/ Contains(all, "immediateDisable")
      /\ MalfunctionEvents(CS) # {}

(* canBusMissing is muted in Park while MADS is engaged. *)
\* slip: muted in every gear
MutedCanLossSlip(CS) == MadsEnabled
MutedCanLoss(CS) == "park" \in CS /\ MadsEnabled

CurrentEvents(CS) ==
  (UNION {EarlyEvents(CS), MalfunctionEvents(CS),
          When("serviceInvalid" \in CS /\ ~SystemErrors(CS), {"commIssue"})})
    \ When(MutedCanLoss(CS), {"canBusMissing"})

-----------------------------------------------------------------------------
(* SelfdriveD.step, once data_sample has found the system ready. *)
Step(CS) ==
  /\ initialized' = TRUE
  /\ mismatch_counter' = SampledMismatch(CS)
  /\ UpdateState(CurrentEvents(CS))
  /\ UpdateMads(CurrentEvents(CS), CS)
  /\ CS_prev' = CS
  /\ UNCHANGED <<setup, toggles>>

(* Before: until everything is valid, or 6 s have passed, neither machine moves. *)
InitializingStep(CS) ==
  /\ ~initialized
  /\ CS_prev' = CS
  /\ UNCHANGED <<ssVars, soft_disable_timer, madsVars, setup, toggles, initialized,
                 mismatch_counter>>

(* params_thread finds a setting that the driver changed. *)
ReadParams(t) ==
  /\ toggles' = [toggles EXCEPT ![t] = ~@]
  /\ UNCHANGED <<ssVars, soft_disable_timer, madsVars, setup, CS_prev, initialized,
                 mismatch_counter>>

(* MADS copies disengage_on_accelerator once, when selfdrived starts. *)
Init ==
  /\ InitState
  /\ InitMads
  /\ setup \in Setups
  /\ toggles \in InitialToggles
  /\ setup.disengage_on_accelerator = toggles["disengage_on_accelerator"]
  /\ CS_prev = {}
  /\ initialized = FALSE
  /\ mismatch_counter = 0

Tick == \E CS \in CarStates : Step(CS) \/ InitializingStep(CS)

Next == Tick \/ \E t \in LiveToggles : ReadParams(t)

Spec == Init /\ [][Next]_vars
=============================================================================
