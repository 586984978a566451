SPECIFICATION Spec
CONSTANTS
  Versions = {"release", "staging"}
  OSOf <- MCOSOf
  Partitions = {"boot", "system"}
  FullCheck = {"boot"}
  Buffered = {"system"}
  MaxFaults = 3
INVARIANTS TreeNeverTorn ActiveSlotComplete
PROPERTIES SwappedInWithAgnos LocalWorkKept ImplementsInstallation EventuallyUpdated
\* without BASEDIR nothing boots
CHECK_DEADLOCK FALSE
