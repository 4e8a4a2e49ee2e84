SPECIFICATION Spec
CONSTANTS
  HalfAddress <- MC_HalfAddress
  Hosts <- MC_Hosts
  DriverValues <- MC_DriverValues
INVARIANT OnlyAdapterPorts
