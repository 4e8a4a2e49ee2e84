SPECIFICATION Spec
CONSTANTS
  PageSize <- MC_PageSize
  BootPhys <- MC_BootPhys
  KernPhys <- MC_KernPhys
  BootBlockSize <- MC_BootBlockSize
  KernelFiles <- MC_AnyFiles
  FontFiles <- MC_OneFont
  EnvSizes <- MC_One
  MetaSizes <- MC_One
  Howtos <- MC_Howtos
  StaleAddrs <- MC_StaleAddrs
  OthersUseKexec = FALSE
INVARIANT BootsIntoNewSystem
