-------------------------- MODULE EngagementProofs --------------------------
(***************************************************************************)
(* Machine-checked proofs of every promise of engagement, for every        *)
(* environment, every setting and every value of the constants: first what *)
(* bounds the mismatch counter, then who wins when several things happen   *)
(* in one tick, and the soft disable that two machines share.              *)
(*                                                                         *)
(* TypeOK is not inductive alone: a sample without controlsAllowed         *)
(* increments mismatch_counter, and only because an engaged openpilot is   *)
(* below the limit (MismatchDisengages) does the counter stay within it.   *)
(* The two together are inductive.                                         *)
(*                                                                         *)
(* The others each follow an event through a tick: from the condition that *)
(* raises it, past openpilot's state machine and the rewriting of the      *)
(* events by MADS, to the transition of the MADS machine.                  *)
(***************************************************************************)
EXTENDS SelfdrivedProps, TLAPS

IInv == TypeOK /\ MismatchDisengages

(* The event types are those of Carriers. *)
LEMMA TypeNames ==
  ET = {"enable", "preEnable", "overrideLateral", "overrideLongitudinal", "noEntry",
        "warning", "userDisable", "softDisable", "immediateDisable"}
BY DEF ET, Carriers

(* openpilot's state machine stays within its states and raises only known alerts. *)
LEMMA UpdateStateType ==
  ASSUME NEW events, UpdateState(events)
  PROVE  state' \in States /\ alerts' \subseteq ET
<1>1. CASE DisableNow(events)
  BY <1>1, TypeNames DEF DisableNow, Become, States, ENABLED_STATES, ACTIVE_STATES
<1>2. CASE StartSoftDisable(events)
  BY <1>2, TypeNames DEF StartSoftDisable, Become, States, ENABLED_STATES, ACTIVE_STATES
<1>3. CASE StartOrKeepOverride(events)
  BY <1>3, TypeNames
  DEF StartOrKeepOverride, Become, OverrideTypes, States, ENABLED_STATES, ACTIVE_STATES
<1>4. CASE StayEnabledOrEndOverride(events)
  BY <1>4, TypeNames DEF StayEnabledOrEndOverride, Become, States, ENABLED_STATES, ACTIVE_STATES
<1>5. CASE EndSoftDisable(events)
  BY <1>5, TypeNames DEF EndSoftDisable, Become, States, ENABLED_STATES, ACTIVE_STATES
<1>6. CASE KeepSoftDisabling(events)
  BY <1>6, TypeNames DEF KeepSoftDisabling, Become, States, ENABLED_STATES, ACTIVE_STATES
<1>7. CASE LeaveOrKeepPreEnabled(events)
  BY <1>7, TypeNames DEF LeaveOrKeepPreEnabled, Become, States, ENABLED_STATES, ACTIVE_STATES
<1>8. CASE StayDisabled(events)
  BY <1>8, TypeNames DEF StayDisabled, Become, States, ENABLED_STATES, ACTIVE_STATES
<1>9. CASE Engage(events)
  BY <1>9, TypeNames DEF Engage, Become, States, ENABLED_STATES, ACTIVE_STATES
<1> QED
  BY <1>1, <1>2, <1>3, <1>4, <1>5, <1>6, <1>7, <1>8, <1>9 DEF UpdateState

(* What an event that must disable does to openpilot's state machine. *)
LEMMA MustDisableDisables ==
  ASSUME NEW events, UpdateState(events), MustDisable(events), ~Contains(events, "enable") \/ Contains(events, "noEntry")
  PROVE  state' = "disabled"
BY DEF UpdateState, DisableNow, StartSoftDisable, StartOrKeepOverride, StayEnabledOrEndOverride,
       EndSoftDisable, KeepSoftDisabling, LeaveOrKeepPreEnabled, StayDisabled, Engage, Become

(* MADS stays within its states and raises only known alerts. *)
LEMMA UpdateMadsStateType ==
  ASSUME TypeOK, NEW evs, UpdateMadsState(evs)
  PROVE  mads_state' \in MadsStates /\ mads_alerts' \subseteq ET
<1> USE DEF MadsStates, MadsBecome, Quietly
<1>1. CASE MadsDisableNow(evs)
  BY <1>1, TypeNames DEF MadsDisableNow
<1>2. CASE MadsStartSoftDisable(evs)
  BY <1>2, TypeNames DEF MadsStartSoftDisable
<1>3. CASE MadsOverride(evs)
  BY <1>3, TypeNames DEF MadsOverride
<1>4. CASE MadsStayEnabledOrEndOverride(evs)
  BY <1>4, TypeNames DEF MadsStayEnabledOrEndOverride
<1>5. CASE MadsSoftDisabling(evs)
  BY <1>5, TypeNames DEF MadsSoftDisabling
<1>6. CASE MadsStayOff(evs)
  BY <1>6, TypeNames DEF MadsStayOff, TypeOK
<1>7. CASE MadsRefused(evs)
  BY <1>7, TypeNames DEF MadsRefused, TypeOK
<1>8. CASE MadsEngage(evs)
  BY <1>8, TypeNames DEF MadsEngage
<1> QED
  BY <1>1, <1>2, <1>3, <1>4, <1>5, <1>6, <1>7, <1>8 DEF UpdateMadsState

(* MADS's update keeps its variables and the shared timer well formed. *)
LEMMA UpdateMadsType ==
  ASSUME TypeOK, NEW events, NEW CS, UpdateMads(events, CS)
  PROVE  /\ mads_state' \in MadsStates
         /\ mads_alerts' \subseteq ET
         /\ soft_disable_timer' \in 0..SoftDisableTicks
<1>1. TimerAfterUpdate \in 0..SoftDisableTicks
  BY SoftDisableAssumption DEF TimerAfterUpdate, CountedDown, TypeOK
<1>2. CASE ~setup.enabled_toggle
  BY <1>1, <1>2 DEF UpdateMads, TypeOK
<1>3. CASE setup.enabled_toggle
  <2>1. UpdateMadsState((events \ RemovedEvents(events, CS)) \cup AddedEvents(events, CS))
    BY <1>3 DEF UpdateMads
  <2>2. soft_disable_timer' \in 0..SoftDisableTicks
    BY <1>1, <1>3, SoftDisableAssumption DEF UpdateMads
  <2> QED BY <2>1, <2>2, UpdateMadsStateType
<1> QED BY <1>2, <1>3

(* The sample that reaches the limit raises controlsMismatch in the same tick. *)
LEMMA MismatchRaised ==
  ASSUME NEW CS, SampledMismatch(CS) >= MismatchLimit
  PROVE  MustDisable(CurrentEvents(CS)) /\ Contains(CurrentEvents(CS), "noEntry")
<1>1. "controlsMismatch" \in EarlyEvents(CS)
  BY DEF EarlyEvents, When
<1>2. "controlsMismatch" \notin When(MutedCanLoss(CS), {"canBusMissing"})
  BY DEF When
<1>3. "controlsMismatch" \in CurrentEvents(CS)
  BY <1>1, <1>2 DEF CurrentEvents
<1>4. /\ "controlsMismatch" \in Carriers["immediateDisable"]
      /\ "controlsMismatch" \in Carriers["noEntry"]
  BY DEF Carriers, Events, SilentEvents, CarEventNames
<1> QED BY <1>3, <1>4, TypeNames DEF MustDisable, Contains

(* The initial states satisfy the invariant. *)
LEMMA InitIInv == Init => IInv
<1> SUFFICES ASSUME Init PROVE IInv
  OBVIOUS
<1>1. state \in States /\ ~Enabled /\ alerts \subseteq ET
  BY DEF Init, InitState, States, Enabled, ENABLED_STATES, ACTIVE_STATES
<1>2. soft_disable_timer \in 0..SoftDisableTicks
  BY SoftDisableAssumption DEF Init, InitState
<1>3. mads_state \in MadsStates /\ mads_alerts \subseteq ET
  BY DEF Init, InitMads, MadsStates
<1>4. setup \in Setup /\ toggles \in [Toggles -> BOOLEAN]
  BY EnvironmentAssumption DEF Init
<1>5. CS_prev \subseteq Conditions /\ initialized \in BOOLEAN
  BY DEF Init
<1>6. mismatch_counter \in 0..MismatchLimit
  BY MismatchAssumption DEF Init
<1> QED
  BY <1>1, <1>2, <1>3, <1>4, <1>5, <1>6 DEF IInv, TypeOK, MismatchDisengages

(* A tick keeps the invariant. *)
LEMMA StepIInv ==
  ASSUME IInv, NEW CS \in CarStates, Step(CS)
  PROVE  IInv'
<1>1. state' \in States /\ alerts' \subseteq ET
  BY UpdateStateType DEF Step
<1>2. /\ mads_state' \in MadsStates
      /\ mads_alerts' \subseteq ET
      /\ soft_disable_timer' \in 0..SoftDisableTicks
  BY UpdateMadsType DEF Step, IInv
<1>3. mismatch_counter' \in 0..MismatchLimit
  BY MismatchAssumption DEF Step, SampledMismatch, IInv, TypeOK, MismatchDisengages
<1>4. CS_prev' \subseteq Conditions
  BY EnvironmentAssumption DEF Step
<1>5. TypeOK'
  BY <1>1, <1>2, <1>3, <1>4 DEF TypeOK, IInv, Step
<1>6. ASSUME Enabled'  PROVE mismatch_counter' < MismatchLimit
  <2>1. state' # "disabled"
    BY <1>6 DEF Enabled, ENABLED_STATES, ACTIVE_STATES
  <2>2. ~(SampledMismatch(CS) >= MismatchLimit)
    BY <2>1, MismatchRaised, MustDisableDisables DEF Step
  <2>3. SampledMismatch(CS) \in 0..MismatchLimit
    BY <1>3 DEF Step
  <2> QED BY <2>2, <2>3, MismatchAssumption DEF Step
<1> QED BY <1>5, <1>6 DEF IInv, MismatchDisengages

(* So does every other step of selfdrived. *)
LEMMA NextIInv == IInv /\ [Next]_vars => IInv'
<1> SUFFICES ASSUME IInv, [Next]_vars PROVE IInv'
  OBVIOUS
<1>1. ASSUME NEW CS \in CarStates, Step(CS) PROVE IInv'
  BY <1>1, StepIInv
<1>2. ASSUME NEW CS \in CarStates, InitializingStep(CS) PROVE IInv'
  BY <1>2, EnvironmentAssumption
  DEF InitializingStep, IInv, TypeOK, MismatchDisengages, Enabled, ssVars, madsVars
<1>3. ASSUME NEW t \in LiveToggles, ReadParams(t) PROVE IInv'
  BY <1>3, EnvironmentAssumption
  DEF ReadParams, IInv, TypeOK, MismatchDisengages, Enabled, ssVars, madsVars
<1>4. CASE UNCHANGED vars
  BY <1>4 DEF vars, ssVars, madsVars, IInv, TypeOK, MismatchDisengages, Enabled
<1> QED BY <1>1, <1>2, <1>3, <1>4 DEF Next, Tick

(* selfdrived's state is well formed in every reachable state (StateMachine.update, *)
(* ModularAssistiveDrivingSystem.update, data_sample).                              *)
THEOREM TypeCorrect == Spec => []TypeOK
<1>1. IInv => TypeOK
  BY DEF IInv
<1> QED BY InitIInv, NextIInv, <1>1, PTL DEF Spec

(* openpilot is never engaged with the mismatch counter at its limit: data_sample  *)
(* and update_events disengage it in the tick in which the counter gets there.     *)
THEOREM MismatchAlwaysDisengages == Spec => []MismatchDisengages
<1>1. IInv => MismatchDisengages
  BY DEF IInv
<1> QED BY InitIInv, NextIInv, <1>1, PTL DEF Spec

-----------------------------------------------------------------------------
(* What MADS's state machine is given. *)
Rewritten(events, CS) == (events \ RemovedEvents(events, CS)) \cup AddedEvents(events, CS)

(* Which of the current events ask for engagement, and why. *)
LEMMA EnableEvents ==
  ASSUME NEW CS
  PROVE  /\ "pcmEnable" \in CurrentEvents(CS) => PcmEnable(CS)
         /\ "buttonEnable" \in CurrentEvents(CS) => "buttonEnable" \in CS
         /\ "lkasEnable" \notin CurrentEvents(CS)
         /\ "silentLkasEnable" \notin CurrentEvents(CS)
<1> DEFINE asking == {"pcmEnable", "buttonEnable", "lkasEnable", "silentLkasEnable"}
<1>1. asking \cap (CarEventNames \cup SystemEventNames) = {}
  BY DEF CarEventNames, SystemEventNames
<1>2. MalfunctionEvents(CS) \cap asking = {}
  BY <1>1 DEF MalfunctionEvents, When
<1>3. \A e \in CarEvents(CS) \cap asking :
        (e = "pcmEnable" /\ PcmEnable(CS)) \/ (e = "buttonEnable" /\ "buttonEnable" \in CS)
  BY <1>1 DEF CarEvents, When
<1>4. EarlyEvents(CS) \cap asking \subseteq CarEvents(CS)
  BY <1>1 DEF EarlyEvents, When
<1>5. CurrentEvents(CS) \cap asking \subseteq EarlyEvents(CS)
  BY <1>2 DEF CurrentEvents, When
<1> QED BY <1>3, <1>4, <1>5

(* MADS itself asks only for the LKAS button or the main switch, unless it is paused. *)
LEMMA AddedEnableEvents ==
  ASSUME NEW events, NEW CS
  PROVE  /\ "lkasEnable" \in AddedEvents(events, CS) =>
              \/ "lkasButton" \in CS
              \/ toggles["main_enabled_toggle"] /\ "cruiseAvailable" \in CS \ CS_prev
         /\ "silentLkasEnable" \in AddedEvents(events, CS) => mads_state = "paused"
         /\ {"pcmEnable", "buttonEnable"} \cap AddedEvents(events, CS) = {}
<1> DEFINE asking == {"pcmEnable", "buttonEnable", "lkasEnable", "silentLkasEnable"}
           requested ==
             PauseEvents(events, CS) \cup CruiseEvents(events, CS) \cup ButtonEvents(CS)
           braked == BrakeEvents(events, requested, CS)
<1>1. PauseEvents(events, CS) \cap asking = {}
  <2>1. \A e \in GEARS_ALLOW_PAUSED : SilentFor[e] \notin asking
    BY DEF GEARS_ALLOW_PAUSED, SilentFor
  <2>2. Silenced(events, CS) \subseteq GEARS_ALLOW_PAUSED
    BY DEF Silenced
  <2> QED BY <2>1, <2>2 DEF PauseEvents, When
<1>2. \A e \in CruiseEvents(events, CS) \cap asking :
        /\ e = "lkasEnable"
        /\ toggles["main_enabled_toggle"] /\ "cruiseAvailable" \in CS \ CS_prev
  BY DEF CruiseEvents, When
<1>3. \A e \in ButtonEvents(CS) \cap asking : e = "lkasEnable" /\ "lkasButton" \in CS
  BY DEF ButtonEvents, LkasPressed, When
<1>4. braked \subseteq requested \cup {"lkasDisable", "pedalPressedAlertOnly"}
  BY DEF BrakeEvents
<1>5. AddedEvents(events, CS) \subseteq
        braked \cup (IF mads_state = "paused" THEN {"silentLkasEnable"} ELSE {})
  BY DEF AddedEvents, When
<1> HIDE DEF braked, requested
<1>6. \A e \in requested \cap asking :
        /\ e = "lkasEnable"
        /\ \/ "lkasButton" \in CS
           \/ toggles["main_enabled_toggle"] /\ "cruiseAvailable" \in CS \ CS_prev
  BY <1>1, <1>2, <1>3 DEF requested
<1> QED BY <1>4, <1>5, <1>6

(* A state machine that leaves disabled was given an event that asks for it. *)
LEMMA LeavesDisabledOnRequest ==
  ASSUME NEW evs, UpdateMadsState(evs), mads_state = "disabled", mads_state' # "disabled"
  PROVE  evs \cap {"pcmEnable", "buttonEnable", "lkasEnable", "silentLkasEnable"} # {}
<1>1. Contains(evs, "enable")
  BY DEF UpdateMadsState, MadsDisableNow, MadsEnabled, MadsStartSoftDisable, MadsOverride,
         MadsStayEnabledOrEndOverride, MadsSoftDisabling, MadsStayOff, MadsRefused,
         MadsEngage, MadsBecome
<1>2. Carriers["enable"] = {"pcmEnable", "buttonEnable", "lkasEnable", "silentLkasEnable"}
  BY DEF Carriers
<1> QED BY <1>1, <1>2 DEF Contains

(* Lateral control leaves disabled only in a tick in which the driver asks for it *)
(* (mads.py update_events, mads/state.py).                                        *)
THEOREM SteeringIsRequested == Spec => NoUnrequestedSteering
<1> DEFINE Requested ==
      mads_state = "disabled" /\ mads_state' # "disabled" =>
        \/ "lkasButton" \in CS_prev'
        \/ toggles["main_enabled_toggle"] /\ "cruiseAvailable" \in CS_prev' \ CS_prev
        \/ /\ toggles["unified_engagement_mode"]
           /\ "cruiseEnabled" \in CS_prev' \ CS_prev \/ "buttonEnable" \in CS_prev'
<1>1. [Next]_vars => [Requested]_vars
  <2> SUFFICES ASSUME Next, mads_state = "disabled", mads_state' # "disabled"
               PROVE  Requested
    BY DEF vars
  <2>1. PICK CS \in CarStates : Step(CS)
    BY DEF Next, Tick, InitializingStep, ReadParams, madsVars
  <2> DEFINE events == CurrentEvents(CS)
  <2>2. CS_prev' = CS /\ UpdateMadsState(Rewritten(events, CS))
    BY <2>1 DEF Step, UpdateMads, Rewritten
  <2>3. PICK e \in {"pcmEnable", "buttonEnable", "lkasEnable", "silentLkasEnable"} :
          e \in Rewritten(events, CS)
    BY <2>2, LeavesDisabledOnRequest
  <2>4. CASE e \in AddedEvents(events, CS)
    BY <2>2, <2>4, AddedEnableEvents
  <2>5. CASE e \in events \ RemovedEvents(events, CS)
    <3>1. e \in {"pcmEnable", "buttonEnable"}
      BY <2>5, EnableEvents
    <3>2. ~BlockUnifiedEngagement
      BY <2>5, <3>1 DEF RemovedEvents, When
    <3> QED BY <2>2, <2>5, <3>1, <3>2, EnableEvents DEF BlockUnifiedEngagement, PcmEnable
  <2> QED BY <2>3, <2>4, <2>5 DEF Rewritten
<1> QED BY <1>1, PTL DEF Spec, NoUnrequestedSteering

-----------------------------------------------------------------------------
(* Switched off in the settings, MADS never moves. *)
OffWhenSwitchedOff == ~setup.enabled_toggle => mads_state = "disabled"

LEMMA NextOffWhenSwitchedOff == OffWhenSwitchedOff /\ [Next]_vars => OffWhenSwitchedOff'
<1> SUFFICES ASSUME OffWhenSwitchedOff, [Next]_vars PROVE OffWhenSwitchedOff'
  OBVIOUS
<1>1. ASSUME NEW CS, Step(CS) PROVE OffWhenSwitchedOff'
  BY <1>1 DEF Step, UpdateMads, OffWhenSwitchedOff
<1>2. ASSUME NEW CS, InitializingStep(CS) PROVE OffWhenSwitchedOff'
  BY <1>2 DEF InitializingStep, OffWhenSwitchedOff, madsVars
<1>3. ASSUME NEW t, ReadParams(t) PROVE OffWhenSwitchedOff'
  BY <1>3 DEF ReadParams, OffWhenSwitchedOff, madsVars
<1>4. CASE UNCHANGED vars
  BY <1>4 DEF vars, madsVars, OffWhenSwitchedOff
<1> QED BY <1>1, <1>2, <1>3, <1>4 DEF Next, Tick

(* A brake press with a valid CAN bus raises pedalPressed, which takes openpilot out. *)
LEMMA BrakeDisables ==
  ASSUME NEW CS, "canInvalid" \notin CS, "brakePressed" \in CS,
         "brakePressed" \notin CS_prev \/ "standstill" \notin CS,
         UpdateState(CurrentEvents(CS))
  PROVE  "pedalPressed" \in CurrentEvents(CS) /\ state' = "disabled"
<1> DEFINE events == CurrentEvents(CS)
<1>1. "pedalPressed" \in CarEvents(CS)
  BY DEF CarEvents, PedalPressed, When
<1>2. "pedalPressed" \in EarlyEvents(CS)
  BY <1>1 DEF EarlyEvents, When
<1>3. "pedalPressed" \in events
  BY <1>2 DEF CurrentEvents, When
<1>4. "pedalPressed" \in Carriers["userDisable"] /\ "pedalPressed" \in Carriers["noEntry"]
  BY DEF Carriers, Events, SilentEvents, CarEventNames
<1>5. MustDisable(events) /\ Contains(events, "noEntry")
  BY <1>3, <1>4, TypeNames DEF MustDisable, Contains
<1> QED BY <1>3, <1>5, MustDisableDisables

(* With openpilot out, MADS turns the brake press into an event that disables or pauses. *)
LEMMA BrakeIsRewritten ==
  ASSUME NEW events, NEW CS, "pedalPressed" \in events, PedalNonGas(events, CS),
         MadsActive, ~Enabled', setup.steering_mode_on_brake \in {"PAUSE", "DISENGAGE"}
  PROVE  Contains(Rewritten(events, CS), "userDisable")
<1> DEFINE requested ==
      PauseEvents(events, CS) \cup CruiseEvents(events, CS) \cup ButtonEvents(CS)
<1>1. MadsEnabled /\ mads_state # "paused"
  BY DEF MadsActive, MadsEnabled, ACTIVE_STATES
<1>2. "lkasDisable" \in Carriers["userDisable"] /\ "silentLkasDisable" \in Carriers["userDisable"]
  BY DEF Carriers
<1>3. BrakeEvents(events, requested, CS) \subseteq AddedEvents(events, CS)
  BY DEF AddedEvents
<1>4. CASE setup.steering_mode_on_brake = "PAUSE"
  <2>1. "silentLkasDisable" \in PauseEvents(events, CS)
    BY <1>1, <1>4 DEF PauseEvents, LateralOnly, When
  <2>2. BrakeEvents(events, requested, CS) = requested
    BY <1>4 DEF BrakeEvents
  <2> QED BY <1>2, <1>3, <2>1, <2>2, TypeNames DEF Contains, Rewritten
<1>5. CASE setup.steering_mode_on_brake = "DISENGAGE"
  <2>1. "lkasDisable" \in BrakeEvents(events, requested, CS)
    BY <1>1, <1>5 DEF BrakeEvents
  <2> QED BY <1>2, <1>3, <2>1, TypeNames DEF Contains, Rewritten
<1> QED BY <1>4, <1>5

(* An active state machine that must disable ends paused or disabled. *)
LEMMA MustDisableStopsMads ==
  ASSUME NEW evs, MadsActive, Contains(evs, "userDisable"), UpdateMadsState(evs)
  PROVE  ~MadsActive'
<1>1. mads_state' \in {"paused", "disabled"}
  BY DEF UpdateMadsState, MadsDisableNow, MadsStartSoftDisable, MadsOverride,
         MadsStayEnabledOrEndOverride, MadsSoftDisabling, MadsStayOff, MadsRefused,
         MadsEngage, MadsBecome, MustDisable, MadsActive, ACTIVE_STATES
<1> QED BY <1>1 DEF MadsActive, ACTIVE_STATES

(* In the PAUSE and DISENGAGE modes the brake takes MADS out of every active state *)
(* within the tick (selfdrived.py update_events, mads.py update_events).           *)
THEOREM BrakeAlwaysStopsSteering == Spec => BrakeStopsSteering
<1> DEFINE Stops ==
      InTick /\ CanValid /\ MadsActive
      /\ setup.steering_mode_on_brake \in {"PAUSE", "DISENGAGE"}
      /\ BrakeEvent
      /\ ~(GasEvent /\ setup.disengage_on_accelerator)
      => ~MadsActive'
<1>1. Init => OffWhenSwitchedOff
  BY DEF Init, InitMads, OffWhenSwitchedOff
<1>2. OffWhenSwitchedOff /\ [Next]_vars => [Stops]_vars
  <2> SUFFICES ASSUME OffWhenSwitchedOff, Next,
                      InTick, CanValid, MadsActive,
                      setup.steering_mode_on_brake \in {"PAUSE", "DISENGAGE"},
                      BrakeEvent, ~(GasEvent /\ setup.disengage_on_accelerator)
               PROVE  ~MadsActive' \/ UNCHANGED vars
    BY DEF vars
  <2>1. setup.enabled_toggle
    BY DEF OffWhenSwitchedOff, MadsActive, ACTIVE_STATES
  <2>2. ASSUME NEW CS \in CarStates, Step(CS) PROVE ~MadsActive'
    <3> DEFINE events == CurrentEvents(CS)
    <3>1. CS_prev' = CS /\ UpdateState(events) /\ UpdateMadsState(Rewritten(events, CS))
      BY <2>1, <2>2 DEF Step, UpdateMads, Rewritten
    <3>2. "pedalPressed" \in events /\ state' = "disabled"
      BY <3>1, BrakeDisables DEF CanValid, BrakeEvent
    <3>3. ~Enabled'
      BY <3>2 DEF Enabled, ENABLED_STATES, ACTIVE_STATES
    <3>4. PedalNonGas(events, CS)
      BY <3>1, <3>2 DEF PedalNonGas, GasEvent
    <3>5. Contains(Rewritten(events, CS), "userDisable")
      BY <3>2, <3>3, <3>4, BrakeIsRewritten
    <3> QED BY <3>1, <3>5, MustDisableStopsMads
  <2>3. ASSUME NEW CS \in CarStates, InitializingStep(CS) PROVE FALSE
    BY <2>3 DEF InitializingStep, InTick
  <2>4. ASSUME NEW t \in LiveToggles, ReadParams(t) PROVE UNCHANGED vars
    BY <2>4 DEF ReadParams, InTick, vars, ssVars, madsVars
  <2> QED BY <2>2, <2>3, <2>4 DEF Next, Tick
<1> QED BY <1>1, <1>2, NextOffWhenSwitchedOff, PTL DEF Spec, BrakeStopsSteering

-----------------------------------------------------------------------------
(* What the other promises need: the tick that openpilot and MADS share, and  *)
(* which events pass from one to the other.                                   *)

LEMMA TickSteps ==
  ASSUME Next, InTick
  PROVE  UNCHANGED vars \/ \E CS \in CarStates : Step(CS)
<1>1. ASSUME NEW CS \in CarStates, InitializingStep(CS) PROVE FALSE
  BY <1>1 DEF InitializingStep, InTick
<1>2. ASSUME NEW t \in LiveToggles, ReadParams(t) PROVE UNCHANGED vars
  BY <1>2 DEF ReadParams, InTick, vars, ssVars, madsVars
<1> QED BY <1>1, <1>2 DEF Next, Tick

LEMMA StepUpdates ==
  ASSUME NEW CS, Step(CS)
  PROVE  /\ CS_prev' = CS
         /\ UpdateState(CurrentEvents(CS))
         /\ setup.enabled_toggle => UpdateMadsState(Rewritten(CurrentEvents(CS), CS))
         /\ ~setup.enabled_toggle => mads_state' = mads_state
BY DEF Step, UpdateMads, Rewritten

(* Each type and the events that carry it, as far as MADS tells them apart. *)
LEMMA CarriersKinds ==
  /\ Carriers["softDisable"] \subseteq Carriers["noEntry"]
  /\ Carriers["enable"] = {"pcmEnable", "buttonEnable", "lkasEnable", "silentLkasEnable"}
  /\ Carriers["noEntry"] \cap EventsSP = SilentEvents
  /\ Carriers["softDisable"] \cap EventsSP = {}
  /\ Carriers["softDisable"] \cap (CruiseOnlyEvents \cup LowSpeedEvents) = {}
  /\ Carriers["immediateDisable"] \cap EventsSP = {}
  /\ Carriers["userDisable"] \cap EventsSP =
       {"lkasDisable", "manualSteeringRequired", "silentLkasDisable"}
  /\ Carriers["userDisable"] \subseteq
       Carriers["noEntry"] \cup {"pcmDisable"} \cup EventsSP
  /\ Carriers["immediateDisable"] \subseteq
       Carriers["noEntry"] \cup {"cruiseDisabled", "speedTooLow"}
BY DEF Carriers, Events, EventsSP, SilentEvents, CarEventNames, SystemEventNames,
       CruiseOnlyEvents, LowSpeedEvents

LEMMA RemovedKinds ==
  ASSUME NEW events, NEW CS
  PROVE  /\ RemovedEvents(events, CS) \subseteq
              GEARS_ALLOW_PAUSED \cup LowSpeedEvents \cup CruiseOnlyEvents
              \cup {"pcmEnable", "buttonEnable"}
         /\ ~LateralOnly => RemovedEvents(events, CS) \subseteq
              CruiseOnlyEvents \cup {"pcmEnable", "buttonEnable"}
BY DEF RemovedEvents, When, Silenced

LEMMA AddedKinds ==
  ASSUME NEW events, NEW CS
  PROVE  /\ AddedEvents(events, CS) \subseteq EventsSP
         /\ ~LateralOnly => AddedEvents(events, CS) \cap SilentEvents = {}
<1> DEFINE requested ==
             PauseEvents(events, CS) \cup CruiseEvents(events, CS) \cup ButtonEvents(CS)
           braked == BrakeEvents(events, requested, CS)
<1>1. PauseEvents(events, CS) \subseteq SilentEvents \cup {"silentLkasDisable"}
  <2>1. \A e \in GEARS_ALLOW_PAUSED : SilentFor[e] \in SilentEvents
    BY DEF GEARS_ALLOW_PAUSED, SilentFor, SilentEvents
  <2>2. Silenced(events, CS) \subseteq GEARS_ALLOW_PAUSED
    BY DEF Silenced
  <2> QED BY <2>1, <2>2 DEF PauseEvents, When
<1>2. ~LateralOnly => PauseEvents(events, CS) = {}
  BY DEF PauseEvents, When
<1>3. CruiseEvents(events, CS) \subseteq
        {"wrongCarModeAlertOnly", "pedalPressedAlertOnly", "lkasEnable"}
  BY DEF CruiseEvents, When
<1>4. ButtonEvents(CS) \subseteq
        {"manualLongitudinalRequired", "lkasEnable", "manualSteeringRequired", "lkasDisable"}
  BY DEF ButtonEvents, When
<1>5. braked \subseteq requested \cup {"lkasDisable", "pedalPressedAlertOnly"}
  BY DEF BrakeEvents
<1>6. AddedEvents(events, CS) \subseteq braked \cup {"silentLkasEnable"}
  BY DEF AddedEvents, When
<1> HIDE DEF braked
<1> QED BY <1>1, <1>2, <1>3, <1>4, <1>5, <1>6 DEF EventsSP, SilentEvents

(* A soft disable that MADS sees is one that openpilot saw, and both refuse entry. *)
LEMMA SoftDisablesShared ==
  ASSUME NEW events, NEW CS, Contains(Rewritten(events, CS), "softDisable")
  PROVE  /\ Contains(events, "softDisable") /\ Contains(events, "noEntry")
         /\ Contains(Rewritten(events, CS), "noEntry")
<1>1. PICK e \in Rewritten(events, CS) : e \in Carriers["softDisable"]
  BY DEF Contains
<1>2. e \in events
  BY <1>1, AddedKinds, CarriersKinds DEF Rewritten
<1> QED BY <1>1, <1>2, CarriersKinds, TypeNames DEF Contains

(* While openpilot is engaged MADS hides no soft disable. *)
LEMMA SoftDisablesKept ==
  ASSUME NEW events, NEW CS, Contains(events, "softDisable"), ~LateralOnly
  PROVE  Contains(Rewritten(events, CS), "softDisable")
<1>1. PICK e \in events : e \in Carriers["softDisable"]
  BY DEF Contains
<1>2. e \notin {"pcmEnable", "buttonEnable"}
  BY <1>1 DEF Carriers
<1>3. e \in Rewritten(events, CS)
  BY <1>1, <1>2, RemovedKinds, CarriersKinds DEF Rewritten
<1> QED BY <1>1, <1>3, TypeNames DEF Contains

-----------------------------------------------------------------------------
(* A lost CAN bus raises an event that disables and refuses entry, unless muted. *)
LEMMA CanLossRaised ==
  ASSUME NEW CS, "canInvalid" \in CS, "park" \notin CS
  PROVE  \E e \in {"canError", "canBusMissing"} : e \in CurrentEvents(CS)
<1>1. "canError" \in MalfunctionEvents(CS) \/ "canBusMissing" \in MalfunctionEvents(CS)
  BY DEF MalfunctionEvents, When
<1>2. ~MutedCanLoss(CS)
  BY DEF MutedCanLoss
<1> QED BY <1>1, <1>2 DEF CurrentEvents, When

(* An event that disables and refuses entry stops MADS in any state. *)
LEMMA StopsMads ==
  ASSUME NEW evs, mads_state \in MadsStates, UpdateMadsState(evs),
         MustDisable(evs), Contains(evs, "noEntry")
  PROVE  ~MadsActive'
<1>1. mads_state' \in {"paused", "disabled"}
  BY DEF UpdateMadsState, MadsDisableNow, MadsStartSoftDisable, MadsOverride,
         MadsStayEnabledOrEndOverride, MadsSoftDisabling, MadsStayOff, MadsRefused,
         MadsEngage, MadsBecome, MadsEnabled, MadsStates
<1> QED BY <1>1 DEF MadsActive, ACTIVE_STATES

(* A tick that loses the CAN bus outside Park leaves neither machine in control *)
(* (selfdrived.py update_events, state.py, mads/state.py).                      *)
THEOREM CanLossAlwaysDisengages == Spec => CanLossDisengages
<1> DEFINE Disengages ==
      InTick /\ ~CanValid /\ "park" \notin CS_prev' => ~Enabled' /\ ~MadsActive'
<1>1. Init => OffWhenSwitchedOff
  BY DEF Init, InitMads, OffWhenSwitchedOff
<1>2. TypeOK /\ OffWhenSwitchedOff /\ [Next]_vars => [Disengages]_vars
  <2> SUFFICES ASSUME TypeOK, OffWhenSwitchedOff, Next,
                      InTick, ~CanValid, "park" \notin CS_prev', ~UNCHANGED vars
               PROVE  ~Enabled' /\ ~MadsActive'
    BY DEF vars
  <2>1. PICK CS \in CarStates : Step(CS)
    BY TickSteps
  <2> DEFINE events == CurrentEvents(CS)
  <2>2. "canInvalid" \in CS /\ "park" \notin CS
    BY <2>1 DEF Step, CanValid
  <2>3. PICK e \in {"canError", "canBusMissing"} : e \in events
    BY <2>2, CanLossRaised
  <2>4. e \in Carriers["immediateDisable"] /\ e \in Carriers["noEntry"]
    BY DEF Carriers, Events, SilentEvents, CarEventNames
  <2>5. MustDisable(events) /\ Contains(events, "noEntry")
    BY <2>3, <2>4, TypeNames DEF MustDisable, Contains
  <2>6. ~Enabled'
    BY <2>1, <2>5, StepUpdates, MustDisableDisables DEF Enabled, ENABLED_STATES, ACTIVE_STATES
  <2>7. e \notin RemovedEvents(events, CS)
    BY RemovedKinds DEF GEARS_ALLOW_PAUSED, SilentFor, LowSpeedEvents, CruiseOnlyEvents
  <2>8. MustDisable(Rewritten(events, CS)) /\ Contains(Rewritten(events, CS), "noEntry")
    BY <2>3, <2>4, <2>7, TypeNames DEF MustDisable, Contains, Rewritten
  <2>9. ~MadsActive'
    <3>1. CASE setup.enabled_toggle
      BY <2>1, <2>8, <3>1, StepUpdates, StopsMads DEF TypeOK
    <3>2. CASE ~setup.enabled_toggle
      BY <2>1, <3>2, StepUpdates DEF OffWhenSwitchedOff, MadsActive, ACTIVE_STATES
    <3> QED BY <3>1, <3>2
  <2> QED BY <2>6, <2>9
<1> QED BY <1>1, <1>2, NextOffWhenSwitchedOff, TypeCorrect, PTL DEF Spec, CanLossDisengages

(* A gear, door, belt or brake-hold condition is swapped for a silent event. *)
LEMMA PauseSilences ==
  ASSUME NEW CS, "canInvalid" \notin CS,
         \/ CS \cap {"reverseGear", "brakeHold", "parkBrake"} # {}
         \/ "standstill" \in CS /\ CS \cap {"doorOpen", "seatbeltNotLatched"} # {}
         \/ "slow" \in CS /\ "wrongGear" \in CS
  PROVE  Silenced(CurrentEvents(CS), CS) # {}
<1>1. \A e \in CS \cap CarEventNames : e \in CurrentEvents(CS)
  <2>1. CS \cap CarEventNames \subseteq EarlyEvents(CS)
    BY DEF EarlyEvents, CarEvents, When
  <2>2. "canBusMissing" \notin CarEventNames
    BY DEF CarEventNames
  <2> QED BY <2>1, <2>2 DEF CurrentEvents, When
<1>2. GEARS_ALLOW_PAUSED =
        {"doorOpen", "seatbeltNotLatched", "wrongGear", "reverseGear", "brakeHold", "parkBrake"}
  BY DEF GEARS_ALLOW_PAUSED, SilentFor
<1>3. GEARS_ALLOW_PAUSED \subseteq CarEventNames
  BY <1>2 DEF CarEventNames
<1> QED BY <1>1, <1>2, <1>3 DEF Silenced

(* While lateral control alone is engaged, a condition that pauses wins over every   *)
(* button in the tick (mads.py update_events, mads/state.py).                        *)
THEOREM PauseConditionAlwaysWins == Spec => PauseConditionWins
<1> DEFINE Wins == InTick /\ CanValid /\ LateralOnly /\ PauseCondition => ~MadsActive'
<1>1. Init => OffWhenSwitchedOff
  BY DEF Init, InitMads, OffWhenSwitchedOff
<1>2. TypeOK /\ OffWhenSwitchedOff /\ [Next]_vars => [Wins]_vars
  <2> SUFFICES ASSUME TypeOK, OffWhenSwitchedOff, Next,
                      InTick, CanValid, LateralOnly, PauseCondition, ~UNCHANGED vars
               PROVE  ~MadsActive'
    BY DEF vars
  <2>1. PICK CS \in CarStates : Step(CS)
    BY TickSteps
  <2> DEFINE events == CurrentEvents(CS)
             evs    == Rewritten(events, CS)
  <2>2. UpdateMadsState(evs)
    BY <2>1, StepUpdates DEF OffWhenSwitchedOff, LateralOnly, MadsEnabled
  <2>3. PICK e \in Silenced(events, CS) : TRUE
    BY <2>1, PauseSilences DEF Step, CanValid, PauseCondition
  <2> DEFINE requested ==
        PauseEvents(events, CS) \cup CruiseEvents(events, CS) \cup ButtonEvents(CS)
  <2>4. SilentFor[e] \in SilentEvents
    BY <2>3 DEF Silenced, GEARS_ALLOW_PAUSED, SilentFor, SilentEvents
  <2>5. requested \subseteq BrakeEvents(events, requested, CS)
    BY DEF BrakeEvents, LateralOnly
  <2>6. SilentFor[e] \in BrakeEvents(events, requested, CS)
    BY <2>3, <2>5 DEF PauseEvents, When
  <2>7. SilentFor[e] \in evs
    BY <2>6 DEF AddedEvents, Rewritten
  <2>8. Contains(evs, "noEntry")
    BY <2>4, <2>7, CarriersKinds, TypeNames DEF Contains
  <2>9. CASE mads_state = "paused"
    BY <2>2, <2>8, <2>9
    DEF UpdateMadsState, MadsDisableNow, MadsStartSoftDisable, MadsOverride,
        MadsStayEnabledOrEndOverride, MadsSoftDisabling, MadsStayOff, MadsRefused,
        MadsEngage, MadsBecome, MadsActive, ACTIVE_STATES
  <2>10. CASE mads_state # "paused"
    <3>1. "silentLkasDisable" \in requested
      BY <2>3, <2>10 DEF PauseEvents, When
    <3>2. "silentLkasDisable" \in evs
      BY <2>5, <3>1 DEF AddedEvents, Rewritten
    <3>3. Contains(evs, "userDisable")
      BY <3>2, TypeNames, CarriersKinds DEF Contains
    <3>4. MadsActive
      BY <2>10 DEF TypeOK, MadsStates, LateralOnly, MadsEnabled, MadsActive, ACTIVE_STATES
    <3> QED BY <2>2, <3>3, <3>4, MustDisableStopsMads
  <2> QED BY <2>9, <2>10
<1> QED BY <1>1, <1>2, NextOffWhenSwitchedOff, TypeCorrect, PTL DEF Spec, PauseConditionWins

-----------------------------------------------------------------------------
(* openpilot leaves disabled only without an event that refuses entry. *)
LEMMA EngagesUnrefused ==
  ASSUME NEW events, UpdateState(events), state \in States, ~Enabled, Enabled'
  PROVE  Contains(events, "enable") /\ ~Contains(events, "noEntry")
<1>1. state = "disabled" /\ state' # "disabled"
  BY DEF Enabled, States, ENABLED_STATES, ACTIVE_STATES
<1> QED
  BY <1>1 DEF UpdateState, DisableNow, StartSoftDisable, StartOrKeepOverride, EndSoftDisable,
              StayEnabledOrEndOverride, KeepSoftDisabling, LeaveOrKeepPreEnabled,
              StayDisabled, Engage, Become

(* Without an event that disables, MADS does not leave. *)
LEMMA MadsStays ==
  ASSUME NEW evs, UpdateMadsState(evs), mads_state \in MadsStates,
         ~MustDisable(evs), ~Contains(evs, "softDisable")
  PROVE  /\ MadsEnabled => MadsEnabled'
         /\ MadsActive => MadsActive'
BY DEF UpdateMadsState, MadsDisableNow, MadsStartSoftDisable, MadsOverride,
       MadsStayEnabledOrEndOverride, MadsSoftDisabling, MadsStayOff, MadsRefused,
       MadsEngage, MadsBecome, MadsEnabled, MadsActive, MadsStates, ACTIVE_STATES

(* While openpilot is engaged, only a button, the main switch or a brake press *)
(* makes MADS add an event that disables.                                      *)
LEMMA AddedDisables ==
  ASSUME NEW events, NEW CS, "lkasButton" \notin CS,
         "cruiseAvailable" \in CS \/ "cruiseAvailable" \notin CS_prev \/ setup.no_main_cruise,
         setup.steering_mode_on_brake # "DISENGAGE" \/ "pedalPressed" \notin events,
         ~LateralOnly \/ (Silenced(events, CS) = {} /\ setup.steering_mode_on_brake # "PAUSE")
  PROVE  AddedEvents(events, CS) \cap Carriers["userDisable"] = {}
<1> DEFINE asked   == {"lkasDisable", "manualSteeringRequired", "silentLkasDisable"}
           requested ==
             PauseEvents(events, CS) \cup CruiseEvents(events, CS) \cup ButtonEvents(CS)
<1>1. PauseEvents(events, CS) \cap asked = {}
  BY DEF PauseEvents, When
<1>2. CruiseEvents(events, CS) \cap asked = {}
  BY DEF CruiseEvents, When
<1>3. ButtonEvents(CS) \cap asked = {}
  BY DEF ButtonEvents, LkasPressed, When
<1>4. BrakeEvents(events, requested, CS) = requested
  BY DEF BrakeEvents, PedalNonGas
<1>5. AddedEvents(events, CS) \subseteq requested \cup {"silentLkasEnable"}
  BY <1>4 DEF AddedEvents, When
<1>6. Carriers["userDisable"] \cap EventsSP = asked
  BY CarriersKinds
<1> QED BY <1>1, <1>2, <1>3, <1>5, <1>6, AddedKinds

(* In the unified engagement mode openpilot takes MADS along when it engages *)
(* (mads.py block_unified_engagement_mode).                                   *)
THEOREM UnifiedModeEngagesBoth == Spec => UnifiedEngagement
<1> DEFINE Both ==
      /\ InTick /\ setup.enabled_toggle /\ toggles["unified_engagement_mode"]
      /\ ~Enabled /\ Enabled' /\ ~EngagesTooSlow
      /\ "lkasButton" \notin CS_prev'
      => MadsEnabled'
<1>1. TypeOK /\ [Next]_vars => [Both]_vars
  <2> SUFFICES ASSUME TypeOK, Next, ~UNCHANGED vars,
                      InTick, setup.enabled_toggle, toggles["unified_engagement_mode"],
                      ~Enabled, Enabled', ~EngagesTooSlow,
                      "lkasButton" \notin CS_prev'
               PROVE  MadsEnabled'
    BY DEF vars
  <2>1. PICK CS \in CarStates : Step(CS)
    BY TickSteps
  <2> DEFINE events == CurrentEvents(CS)
             evs    == Rewritten(events, CS)
  <2>2. UpdateMadsState(evs) /\ CS_prev' = CS
    BY <2>1, StepUpdates
  <2>3. Contains(events, "enable") /\ ~Contains(events, "noEntry")
    BY <2>1, StepUpdates, EngagesUnrefused DEF TypeOK
  <2>4. \A e \in events : e \notin Carriers["noEntry"]
    BY <2>3, TypeNames DEF Contains
  <2>5. ~LateralOnly
    BY DEF LateralOnly
  <2>6. "canInvalid" \notin CS
    <3>1. SUFFICES ASSUME "canInvalid" \in CS PROVE FALSE
      OBVIOUS
    <3>2. EarlyEvents(CS) \cap Carriers["enable"] = {}
      BY <3>1 DEF EarlyEvents, When, Carriers, SystemEventNames
    <3>3. MalfunctionEvents(CS) \cap Carriers["enable"] = {}
      BY DEF MalfunctionEvents, When, Carriers
    <3>4. events \cap Carriers["enable"] = {}
      BY <3>2, <3>3 DEF CurrentEvents, When, Carriers
    <3> QED BY <2>3, <3>4 DEF Contains
  <2>7. \A e \in CarEvents(CS) : e # "canBusMissing" => e \in events
    BY <2>6 DEF CurrentEvents, EarlyEvents, When
  <2>8. "cruiseAvailable" \in CS
    <3>1. "wrongCarMode" \notin events
      BY <2>4 DEF Carriers, Events
    <3> QED BY <2>7, <3>1 DEF CarEvents, When
  <2>9. "pedalPressed" \notin events
    BY <2>4 DEF Carriers, Events
  <2>10. AddedEvents(events, CS) \cap Carriers["userDisable"] = {}
    BY <2>2, <2>5, <2>8, <2>9, AddedDisables
  <2>11. ~Contains(evs, "userDisable")
    <3>1. \A e \in events \ RemovedEvents(events, CS) : e \notin Carriers["userDisable"]
      <4>1. "pcmDisable" \in RemovedEvents(events, CS)
        BY DEF RemovedEvents, CruiseOnlyEvents
      <4>2. events \cap EventsSP = {}
        <5>1. CarEvents(CS) \cap EventsSP = {}
          BY DEF CarEvents, When, EventsSP, SilentEvents, CarEventNames
        <5>2. EarlyEvents(CS) \cap EventsSP = {}
          BY <5>1 DEF EarlyEvents, When, EventsSP, SilentEvents, SystemEventNames
        <5>3. MalfunctionEvents(CS) \cap EventsSP = {}
          BY DEF MalfunctionEvents, When, EventsSP, SilentEvents
        <5> QED BY <5>2, <5>3 DEF CurrentEvents, When, EventsSP, SilentEvents
      <4> QED BY <2>4, <4>1, <4>2, CarriersKinds
    <3> QED BY <2>10, <3>1 DEF Contains, Rewritten
  <2>12. ~Contains(evs, "immediateDisable")
    <3>1. "cruiseDisabled" \notin CS /\ "speedTooLow" \notin CS
      BY <2>2 DEF EngagesTooSlow
    <3>2. "cruiseDisabled" \notin events /\ "speedTooLow" \notin events
      BY <3>1 DEF CurrentEvents, EarlyEvents, MalfunctionEvents, CarEvents, When, SystemEventNames
    <3> QED BY <2>4, <3>2, AddedKinds, CarriersKinds DEF Contains, Rewritten
  <2>13. ~MustDisable(evs) /\ ~Contains(evs, "softDisable")
    BY <2>3, <2>11, <2>12, SoftDisablesShared DEF MustDisable
  <2>14. CASE MadsEnabled
    BY <2>2, <2>13, <2>14, MadsStays DEF TypeOK
  <2>15. CASE ~MadsEnabled
    <3>1. PICK e \in events : e \in {"pcmEnable", "buttonEnable"}
      BY <2>3, EnableEvents, CarriersKinds DEF Contains
    <3>2. e \notin RemovedEvents(events, CS)
      BY <2>5, <2>8, <2>15, <3>1
      DEF RemovedEvents, BlockUnifiedEngagement, When, CruiseOnlyEvents
    <3>3. Contains(evs, "enable")
      BY <3>1, <3>2, CarriersKinds, TypeNames DEF Contains, Rewritten
    <3>4. ~Contains(evs, "noEntry")
      BY <2>4, <2>5, AddedKinds, CarriersKinds DEF Contains, Rewritten
    <3> QED
      BY <2>2, <2>15, <3>3, <3>4
      DEF UpdateMadsState, MadsDisableNow, MadsStartSoftDisable, MadsOverride,
          MadsStayEnabledOrEndOverride, MadsSoftDisabling, MadsStayOff, MadsRefused,
          MadsEngage, MadsBecome, MadsEnabled
  <2> QED BY <2>14, <2>15
<1> QED BY <1>1, TypeCorrect, PTL DEF Spec, UnifiedEngagement

(* Conditions that concern cruise control raise only events that MADS drops, or that *)
(* disable nothing.                                                                   *)
LEMMA CruiseEventsHarmless ==
  ASSUME NEW CS, CS \subseteq CruiseConditions, "cruiseAvailable" \in CS,
         ~(SampledMismatch(CS) >= MismatchLimit),
         NEW e \in CurrentEvents(CS), e \notin {"speedTooLow", "cruiseDisabled"},
         e \notin CruiseOnlyEvents
  PROVE  /\ e \notin Carriers["userDisable"] \cup Carriers["immediateDisable"]
         /\ e \notin Carriers["softDisable"] /\ e \notin GEARS_ALLOW_PAUSED
<1> DEFINE harmless ==
      {"steerOverride", "belowEngageSpeed", "manualRestart", "tooDistracted", "buttonEnable",
       "preEnableStandstill", "gasPressedOverride", "pcmEnable"}
<1>1. CS \cap CarEventNames \subseteq
        harmless \cup {"speedTooLow", "cruiseDisabled", "wrongCruiseMode"}
  BY DEF CruiseConditions, CarEventNames
<1>2. CarEvents(CS) \subseteq
        harmless \cup CruiseOnlyEvents \cup {"speedTooLow", "cruiseDisabled"}
  BY <1>1 DEF CarEvents, When, CruiseOnlyEvents
<1>3. CS \cap SystemEventNames \subseteq {"tooDistracted"} /\ "safetyMismatch" \notin CS
      /\ "canInvalid" \notin CS /\ "canTimeout" \notin CS /\ "serviceInvalid" \notin CS
  BY DEF CruiseConditions, SystemEventNames
<1>4. EarlyEvents(CS) \subseteq CarEvents(CS) \cup {"tooDistracted"}
  BY <1>3 DEF EarlyEvents, When
<1>5. MalfunctionEvents(CS) = {}
  BY <1>3 DEF MalfunctionEvents, When, SystemEventNames
<1>6. CurrentEvents(CS) \subseteq EarlyEvents(CS)
  BY <1>3, <1>5 DEF CurrentEvents, When
<1>7. e \in harmless
  BY <1>2, <1>4, <1>6
<1> QED BY <1>7 DEF Carriers, GEARS_ALLOW_PAUSED, SilentFor

(* openpilot disables at once in every engaged state. *)
LEMMA MustDisableEngaged ==
  ASSUME NEW events, UpdateState(events), MustDisable(events), Enabled
  PROVE  ~Enabled'
BY DEF UpdateState, DisableNow, StartSoftDisable, StartOrKeepOverride, StayEnabledOrEndOverride,
       EndSoftDisable, KeepSoftDisabling, LeaveOrKeepPreEnabled, StayDisabled, Engage, Become,
       Enabled, ENABLED_STATES, ACTIVE_STATES

(* In the REMAIN_ACTIVE mode, whatever ends cruise control alone leaves lateral control *)
(* active (mads.py update_events).                                                       *)
THEOREM SteeringAlwaysSurvives == Spec => SteeringSurvivesCruise
<1> DEFINE Survives ==
      /\ InTick /\ MadsActive
      /\ setup.steering_mode_on_brake = "REMAIN_ACTIVE"
      /\ CS_prev' \subseteq CruiseConditions
      /\ "cruiseAvailable" \in CS_prev'
      /\ mismatch_counter' < MismatchLimit
      /\ ~EngagesTooSlow
      => MadsActive'
<1>1. Init => OffWhenSwitchedOff
  BY DEF Init, InitMads, OffWhenSwitchedOff
<1>2. TypeOK /\ OffWhenSwitchedOff /\ [Next]_vars => [Survives]_vars
  <2> SUFFICES ASSUME TypeOK, OffWhenSwitchedOff, Next, ~UNCHANGED vars,
                      InTick, MadsActive,
                      setup.steering_mode_on_brake = "REMAIN_ACTIVE",
                      CS_prev' \subseteq CruiseConditions,
                      "cruiseAvailable" \in CS_prev',
                      mismatch_counter' < MismatchLimit,
                      ~EngagesTooSlow
               PROVE  MadsActive'
    BY DEF vars
  <2>1. PICK CS \in CarStates : Step(CS)
    BY TickSteps
  <2> DEFINE events == CurrentEvents(CS)
             evs    == Rewritten(events, CS)
  <2>2. CS_prev' = CS /\ UpdateState(events)
    BY <2>1, StepUpdates
  <2>3. UpdateMadsState(evs)
    BY <2>1, StepUpdates DEF OffWhenSwitchedOff, MadsActive, ACTIVE_STATES
  <2>4. ~(SampledMismatch(CS) >= MismatchLimit)
    <3>1. SampledMismatch(CS) \in Nat
      BY DEF SampledMismatch, TypeOK
    <3> QED BY <2>1, <3>1, MismatchAssumption DEF Step
  <2>5. \A e \in events : e \notin {"speedTooLow", "cruiseDisabled"} \cup CruiseOnlyEvents =>
          /\ e \notin Carriers["userDisable"] \cup Carriers["immediateDisable"]
          /\ e \notin Carriers["softDisable"] /\ e \notin GEARS_ALLOW_PAUSED
    BY <2>2, <2>4, CruiseEventsHarmless
  <2>6. Silenced(events, CS) = {}
    BY <2>5 DEF Silenced, GEARS_ALLOW_PAUSED, SilentFor, CruiseOnlyEvents
  <2>7. AddedEvents(events, CS) \cap Carriers["userDisable"] = {}
    <3>1. "lkasButton" \notin CS
      BY <2>2 DEF CruiseConditions
    <3> QED BY <2>2, <2>6, <3>1, AddedDisables
  <2>8. CruiseOnlyEvents \subseteq RemovedEvents(events, CS)
    BY DEF RemovedEvents
  <2>9. \A e \in events \cap {"speedTooLow", "cruiseDisabled"} : e \in RemovedEvents(events, CS)
    <3>1. SUFFICES ASSUME NEW e \in events, e \in {"speedTooLow", "cruiseDisabled"}
                   PROVE  LateralOnly
      BY DEF RemovedEvents, When, LowSpeedEvents
    <3>2. e \in CS
      BY <3>1 DEF CurrentEvents, EarlyEvents, MalfunctionEvents, CarEvents, When, SystemEventNames
    <3>3. MustDisable(events)
      BY <3>1, TypeNames DEF MustDisable, Contains, Carriers
    <3>4. ~Enabled'
      BY <2>2, <3>2, <3>1, <3>3, MustDisableEngaged DEF EngagesTooSlow
    <3> QED BY <3>4 DEF LateralOnly, MadsActive, MadsEnabled, ACTIVE_STATES
  <2>10. \A e \in evs : e \notin Carriers["userDisable"] \cup Carriers["immediateDisable"]
                                  \cup Carriers["softDisable"]
    BY <2>5, <2>7, <2>8, <2>9, AddedKinds, CarriersKinds DEF Rewritten
  <2>11. ~MustDisable(evs) /\ ~Contains(evs, "softDisable")
    BY <2>10 DEF MustDisable, Contains
  <2> QED BY <2>3, <2>11, MadsStays DEF TypeOK
<1> QED
  BY <1>1, <1>2, NextOffWhenSwitchedOff, TypeCorrect, PTL DEF Spec, SteeringSurvivesCruise

-----------------------------------------------------------------------------
(* Soft disables.  MADS does not stay engaged while openpilot is soft-disabling:  *)
(* what soft-disables openpilot soft-disables MADS too and refuses its entry.     *)
SoftTogether == state = "softDisabling" => mads_state \notin {"enabled", "overriding"}

(* Who is in softDisabling has been given an event for it, and said so. *)
LEMMA OpenpilotInSoftDisabling ==
  ASSUME NEW events, UpdateState(events), state' = "softDisabling"
  PROVE  /\ Contains(events, "softDisable") /\ "softDisable" \in alerts'
         /\ state \in {"enabled", "overriding", "softDisabling"}
BY DEF UpdateState, DisableNow, StartSoftDisable, StartOrKeepOverride, StayEnabledOrEndOverride,
       EndSoftDisable, KeepSoftDisabling, LeaveOrKeepPreEnabled, StayDisabled, Engage, Become

LEMMA MadsInSoftDisabling ==
  ASSUME NEW evs, UpdateMadsState(evs), mads_state' = "softDisabling"
  PROVE  /\ Contains(evs, "softDisable")
         /\ mads_state \in {"enabled", "overriding", "softDisabling"}
         /\ ~Enabled' => "softDisable" \in mads_alerts'
BY DEF UpdateMadsState, MadsDisableNow, MadsStartSoftDisable, MadsOverride,
       MadsStayEnabledOrEndOverride, MadsSoftDisabling, MadsStayOff, MadsRefused,
       MadsEngage, MadsBecome, Quietly

(* openpilot stays engaged with such an event only in softDisabling, or in preEnabled. *)
LEMMA EngagedInSoftDisabling ==
  ASSUME NEW events, UpdateState(events), state \in States, state # "preEnabled",
         Contains(events, "softDisable"), Contains(events, "noEntry"), Enabled'
  PROVE  state' = "softDisabling"
BY DEF UpdateState, DisableNow, StartSoftDisable, StartOrKeepOverride, StayEnabledOrEndOverride,
       EndSoftDisable, KeepSoftDisabling, LeaveOrKeepPreEnabled, StayDisabled, Engage, Become,
       Enabled, States, ENABLED_STATES, ACTIVE_STATES

(* When MADS is in softDisabling, openpilot has left or is in it too. *)
LEMMA SharedSoftDisable ==
  ASSUME TypeOK, OffWhenSwitchedOff, NEW CS, Step(CS),
         state # "preEnabled", mads_state' = "softDisabling", Enabled'
  PROVE  state' = "softDisabling"
<1>1. setup.enabled_toggle
  BY StepUpdates DEF OffWhenSwitchedOff
<1>2. Contains(Rewritten(CurrentEvents(CS), CS), "softDisable")
  BY <1>1, StepUpdates, MadsInSoftDisabling
<1>3. Contains(CurrentEvents(CS), "softDisable") /\ Contains(CurrentEvents(CS), "noEntry")
  BY <1>2, SoftDisablesShared
<1> QED BY <1>3, StepUpdates, EngagedInSoftDisabling DEF TypeOK

LEMMA NextSoftTogether == OffWhenSwitchedOff /\ SoftTogether /\ [Next]_vars => SoftTogether'
<1> SUFFICES ASSUME OffWhenSwitchedOff, SoftTogether, [Next]_vars PROVE SoftTogether'
  OBVIOUS
<1>1. ASSUME NEW CS, Step(CS), state' = "softDisabling"
      PROVE  mads_state' \notin {"enabled", "overriding"}
  <2> DEFINE evs == Rewritten(CurrentEvents(CS), CS)
  <2>1. Contains(CurrentEvents(CS), "softDisable")
    BY <1>1, StepUpdates, OpenpilotInSoftDisabling
  <2>2. ~LateralOnly
    BY <1>1 DEF LateralOnly, Enabled, ENABLED_STATES, ACTIVE_STATES
  <2>3. Contains(evs, "softDisable") /\ Contains(evs, "noEntry")
    BY <2>1, <2>2, SoftDisablesKept, SoftDisablesShared
  <2>4. CASE setup.enabled_toggle
    <3>1. UpdateMadsState(evs)
      BY <1>1, <2>4, StepUpdates
    <3> QED
      BY <2>3, <3>1
      DEF UpdateMadsState, MadsDisableNow, MadsStartSoftDisable, MadsOverride,
          MadsStayEnabledOrEndOverride, MadsSoftDisabling, MadsStayOff, MadsRefused,
          MadsEngage, MadsBecome
  <2>5. CASE ~setup.enabled_toggle
    BY <1>1, <2>5, StepUpdates DEF OffWhenSwitchedOff
  <2> QED BY <2>4, <2>5
<1>2. ASSUME NEW CS, InitializingStep(CS) PROVE SoftTogether'
  BY <1>2 DEF InitializingStep, SoftTogether, ssVars, madsVars
<1>3. ASSUME NEW t, ReadParams(t) PROVE SoftTogether'
  BY <1>3 DEF ReadParams, SoftTogether, ssVars, madsVars
<1>4. CASE UNCHANGED vars
  BY <1>4 DEF vars, ssVars, madsVars, SoftTogether
<1> QED BY <1>1, <1>2, <1>3, <1>4 DEF Next, Tick, SoftTogether

(* Whoever is in softDisabling, the tick tells the driver to take over, though MADS *)
(* leaves the alert to an engaged openpilot (state.py, mads/state.py).              *)
THEOREM SoftDisableAlwaysAnnounced == Spec => SoftDisableAnnounced
<1> DEFINE Announced ==
      InTick =>
        /\ state' = "softDisabling" => "softDisable" \in alerts'
        /\ mads_state' = "softDisabling" /\ state # "preEnabled" =>
             "softDisable" \in alerts' \cup mads_alerts'
<1>1. Init => OffWhenSwitchedOff
  BY DEF Init, InitMads, OffWhenSwitchedOff
<1>2. TypeOK /\ OffWhenSwitchedOff /\ [Next]_vars => [Announced]_vars
  <2> SUFFICES ASSUME TypeOK, OffWhenSwitchedOff, Next, InTick, ~UNCHANGED vars
               PROVE  Announced
    BY DEF vars
  <2>1. PICK CS \in CarStates : Step(CS)
    BY TickSteps
  <2>2. ASSUME state' = "softDisabling" PROVE "softDisable" \in alerts'
    BY <2>1, <2>2, StepUpdates, OpenpilotInSoftDisabling
  <2>3. ASSUME mads_state' = "softDisabling", state # "preEnabled"
        PROVE  "softDisable" \in alerts' \cup mads_alerts'
    <3>1. CASE Enabled'
      BY <2>1, <2>2, <2>3, <3>1, SharedSoftDisable
    <3>2. CASE ~Enabled'
      <4>1. setup.enabled_toggle
        BY <2>1, <2>3, StepUpdates DEF OffWhenSwitchedOff
      <4> QED BY <2>1, <2>3, <3>2, <4>1, StepUpdates, MadsInSoftDisabling
    <3> QED BY <3>1, <3>2
  <2> QED BY <2>2, <2>3
<1> QED BY <1>1, <1>2, NextOffWhenSwitchedOff, TypeCorrect, PTL DEF Spec, SoftDisableAnnounced

(* A soft disable has the full time, and neither machine extends a countdown that runs, *)
(* but for openpilot coming back from preEnabled (state.py, mads/state.py).             *)
THEOREM SoftDisableKeepsTime == Spec => SoftDisableWindow
<1> DEFINE Full ==
      \/ state # "softDisabling" /\ state' = "softDisabling"
      \/ mads_state # "softDisabling" /\ mads_state' = "softDisabling" /\ state # "preEnabled"
      => soft_disable_timer' = SoftDisableTicks
    Shrinks ==
      /\ soft_disable_timer > 0
      /\ \/ state = "softDisabling" /\ state' = "softDisabling"
         \/ mads_state = "softDisabling" /\ mads_state' = "softDisabling"
      => \/ soft_disable_timer' < soft_disable_timer
         \/ state # "softDisabling" /\ state' = "softDisabling"
<1>1. Init => OffWhenSwitchedOff /\ SoftTogether
  BY DEF Init, InitMads, InitState, OffWhenSwitchedOff, SoftTogether
<1>2. TypeOK /\ OffWhenSwitchedOff /\ SoftTogether /\ [Next]_vars
        => [InTick => Full /\ Shrinks]_vars
  <2> SUFFICES ASSUME TypeOK, OffWhenSwitchedOff, SoftTogether, Next, InTick, ~UNCHANGED vars
               PROVE  Full /\ Shrinks
    BY DEF vars
  <2>1. PICK CS \in CarStates : Step(CS)
    BY TickSteps
  <2>2. soft_disable_timer' =
          IF setup.enabled_toggle /\ MadsArmsTimer THEN SoftDisableTicks ELSE TimerAfterUpdate
    BY <2>1 DEF Step, UpdateMads
  <2>3. ASSUME state # "softDisabling", state' = "softDisabling"
        PROVE  soft_disable_timer' = SoftDisableTicks
    <3>1. state \in {"enabled", "overriding"}
      BY <2>1, <2>3, StepUpdates, OpenpilotInSoftDisabling
    <3> QED BY <2>2, <2>3, <3>1 DEF TimerAfterUpdate
  <2>4. ASSUME mads_state # "softDisabling", mads_state' = "softDisabling", state # "preEnabled"
        PROVE  soft_disable_timer' = SoftDisableTicks
    <3>1. setup.enabled_toggle /\ mads_state \in {"enabled", "overriding"}
      BY <2>1, <2>4, StepUpdates, MadsInSoftDisabling DEF OffWhenSwitchedOff
    <3>2. CASE Enabled'
      <4>1. state' = "softDisabling"
        BY <2>1, <2>4, <3>2, SharedSoftDisable
      <4> QED BY <2>3, <3>1, <4>1 DEF SoftTogether
    <3>3. CASE ~Enabled'
      BY <2>2, <2>4, <3>1, <3>3 DEF MadsArmsTimer
    <3> QED BY <3>2, <3>3
  <2>5. ASSUME soft_disable_timer > 0,
               ~(state # "softDisabling" /\ state' = "softDisabling"),
               TimerAfterUpdate = soft_disable_timer'
        PROVE  soft_disable_timer' < soft_disable_timer
    BY <2>5 DEF TimerAfterUpdate, CountedDown, TypeOK
  <2>6. ASSUME state = "softDisabling", state' = "softDisabling"
        PROVE  TimerAfterUpdate = soft_disable_timer'
    BY <2>2, <2>6 DEF MadsArmsTimer, Enabled, ENABLED_STATES, ACTIVE_STATES
  <2>7. ASSUME mads_state = "softDisabling", mads_state' = "softDisabling"
        PROVE  TimerAfterUpdate = soft_disable_timer'
    BY <2>2, <2>7 DEF MadsArmsTimer
  <2> QED BY <2>3, <2>4, <2>5, <2>6, <2>7
<1> QED
  BY <1>1, <1>2, NextOffWhenSwitchedOff, NextSoftTogether, TypeCorrect, PTL
  DEF Spec, SoftDisableWindow

=============================================================================
