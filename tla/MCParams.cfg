SPECIFICATION Spec
CONSTANTS
  Keys <- MCKeys
  Processes <- MCProcesses
  Uses <- MCUses
  ClearSets <- MCClearSets
  MaxWrites = 2
INVARIANTS TypeOK ReadAllIsSnapshot
PROPERTIES PutIsDurable QueueOrder CallsReturn ImplementsKeyStore
