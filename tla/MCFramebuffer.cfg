SPECIFICATION Spec
CONSTANTS
  HalfAddress <- MC_HalfAddress
  Hosts <- MC_Hosts
  DriverValues <- MC_DriverValues
INVARIANTS
  ModeAsTold
  StrayOnlyIfAbsent
PROPERTY ModeSetWhileDisabled
