SPECIFICATION Spec
CONSTANTS
  Versions = {"release", "staging", "nightly"}
  OSOf <- MCOSOf
  Partitions = {"system"}
  FullCheck = {}
  Buffered = {}
  MaxFaults = 3
PROPERTIES PartialAgnosNotSwappedIn
\* without BASEDIR nothing boots
CHECK_DEADLOCK FALSE
