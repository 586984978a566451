SPECIFICATION Spec
CONSTANTS
  SoftDisableTicks = 3
  MismatchLimit = 2
  CarStates <- MCCarStates
  Setups <- MCSetups
  InitialToggles <- MCToggles
  LiveToggles = {"unified_engagement_mode"}
VIEW View
INVARIANT MismatchDisengages
PROPERTIES
  BrakeStopsSteering
  SteeringSurvivesCruise
  NoUnrequestedSteering
  PauseConditionWins
  UnifiedEngagement
  SoftDisableAnnounced
  SoftDisableWindow
  CanLossDisengages
