SPECIFICATION Spec
CONSTANTS
  SoftDisableTicks = 2
  MismatchLimit = 2
  CarStates <- MCCarStates
  Setups <- MCSetups
  InitialToggles <- MCToggles
  LiveToggles = {"unified_engagement_mode"}
VIEW View
PROPERTY MadsSoftDisableIsTimed
