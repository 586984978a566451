SPECIFICATION Spec
CONSTANTS
  Queries <- MCQueries
  MaxTrips = 2
  MaxFaults = 1
INVARIANTS OneCard QueryInRequestedMode SafetyFromThisDrive
PROPERTIES EventuallyConfigured CardEndsOffroad

