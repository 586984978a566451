--------------------------- MODULE SelfdriveState ---------------------------
(***************************************************************************)
(* The engagement state machine of openpilot,                              *)
(* selfdrive/selfdrived/state.py: StateMachine.update, called once per     *)
(* tick of selfdrived.  One action per transition; exactly one of them is  *)
(* enabled for any set of events.                                          *)
(***************************************************************************)
EXTENDS OnroadEvents, Integers

CONSTANT SoftDisableTicks          \* int(SOFT_DISABLE_TIME / DT_CTRL), 300 in the code

ASSUME SoftDisableAssumption == SoftDisableTicks \in Nat \ {0}

VARIABLES
  state,               \* StateMachine.state
  soft_disable_timer,  \* StateMachine.soft_disable_timer, shared with MADS
  alerts               \* the types StateMachine.update put in current_alert_types

ACTIVE_STATES  == {"enabled", "softDisabling", "overriding"}
ENABLED_STATES == ACTIVE_STATES \cup {"preEnabled"}
States         == ENABLED_STATES \cup {"disabled"}

Enabled == state \in ENABLED_STATES    \* SelfdriveD.enabled, SelfdriveD.active:
Active  == state \in ACTIVE_STATES     \* only ever assigned from update's result

(* The timer as the rest of the tick sees it: counted down on every update *)
(* and re-armed on entry to softDisabling.                                 *)
CountedDown == IF soft_disable_timer > 0 THEN soft_disable_timer - 1 ELSE 0
\* slip: re-armed in every tick, not on entry
TimerAfterUpdateSlip ==
  IF state' = "softDisabling" THEN SoftDisableTicks ELSE CountedDown
TimerAfterUpdate ==
  IF state \in {"enabled", "overriding"} /\ state' = "softDisabling"
    THEN SoftDisableTicks
    ELSE CountedDown

(* Move to another state raising the alert types als; WARNING follows from being active. *)
Become(s, als) ==
  /\ state' = s
  /\ alerts' = als \cup (IF s \in ACTIVE_STATES THEN {"warning"} ELSE {})

Override(events) == Contains(events, "overrideLateral") \/ Contains(events, "overrideLongitudinal")
OverrideTypes    == {"overrideLateral", "overrideLongitudinal"}

-----------------------------------------------------------------------------
(* User and immediate disable always have priority in a non-disabled state. *)
MustDisable(events) ==
  Contains(events, "userDisable") \/ Contains(events, "immediateDisable")

DisableNow(events) ==
  /\ state # "disabled"
  /\ MustDisable(events)
  /\ Become("disabled", IF Contains(events, "userDisable") THEN {"userDisable"}
                                                           ELSE {"immediateDisable"})

\* slip: the alert is forgotten on entry
StartSoftDisableSlip(events) ==
  /\ state \in {"enabled", "overriding"}
  /\ ~MustDisable(events)
  /\ Contains(events, "softDisable")
  /\ Become("softDisabling", {})
StartSoftDisable(events) ==
  /\ state \in {"enabled", "overriding"}
  /\ ~MustDisable(events)
  /\ Contains(events, "softDisable")
  /\ Become("softDisabling", {"softDisable"})

StartOrKeepOverride(events) ==
  /\ state \in {"enabled", "overriding"}
  /\ ~MustDisable(events)
  /\ ~Contains(events, "softDisable")
  /\ Override(events)
  /\ Become("overriding", OverrideTypes)

StayEnabledOrEndOverride(events) ==
  /\ state \in {"enabled", "overriding"}
  /\ ~MustDisable(events)
  /\ ~Contains(events, "softDisable")
  /\ ~Override(events)
  /\ Become("enabled", {})

EndSoftDisable(events) ==
  /\ state = "softDisabling"
  /\ ~MustDisable(events)
  /\ ~Contains(events, "softDisable")
  /\ Become("enabled", {})

KeepSoftDisabling(events) ==
  /\ state = "softDisabling"
  /\ ~MustDisable(events)
  /\ Contains(events, "softDisable")
  /\ IF CountedDown > 0 THEN Become("softDisabling", {"softDisable"})
                        ELSE Become("disabled", {})

LeaveOrKeepPreEnabled(events) ==
  /\ state = "preEnabled"
  /\ ~MustDisable(events)
  /\ IF Contains(events, "preEnable") THEN Become("preEnabled", {"preEnable"})
                                      ELSE Become("enabled", {})

StayDisabled(events) ==
  /\ state = "disabled"
  /\ ~Contains(events, "enable") \/ Contains(events, "noEntry")
  /\ Become("disabled", IF Contains(events, "enable") THEN {"noEntry"} ELSE {})

Engage(events) ==
  /\ state = "disabled"
  /\ Contains(events, "enable")
  /\ ~Contains(events, "noEntry")
  /\ Become(IF Contains(events, "preEnable") THEN "preEnabled"
            ELSE IF Override(events) THEN "overriding"
            ELSE "enabled",
            {"enable"})

(* StateMachine.update; the timer is written by the caller, see TimerAfterUpdate. *)
UpdateState(events) ==
  \/ DisableNow(events)
  \/ StartSoftDisable(events)
  \/ StartOrKeepOverride(events)
  \/ StayEnabledOrEndOverride(events)
  \/ EndSoftDisable(events)
  \/ KeepSoftDisabling(events)
  \/ LeaveOrKeepPreEnabled(events)
  \/ StayDisabled(events)
  \/ Engage(events)

InitState ==
  /\ state = "disabled"
  /\ soft_disable_timer = 0
  /\ alerts = {}
=============================================================================
