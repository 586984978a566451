SPECIFICATION Spec
CONSTANTS
  Second = 4
  TimeMax = 12
  Modes <- MCModes
INVARIANT OneAutomaticChange
PROPERTIES BlindspotDelays EveryChangeEnds
