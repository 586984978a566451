SPECIFICATION Spec
CONSTANTS
  SoftDisableTicks = 2
  MismatchLimit = 2
  CarStates <- MCCarStates
  Setups <- GasSetups
  InitialToggles <- GasToggles
  LiveToggles = {"disengage_on_accelerator"}
VIEW View
PROPERTY GasPressIgnored
