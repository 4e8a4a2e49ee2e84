SPECIFICATION SpecBoth
CONSTANTS
  EntriesPerTable <- MC_EntriesPerTable
  PageSize <- MC_PageSize
  BootPhys <- MC_BootPhys
  KernPhys <- MC_KernPhys
  BootBlockSize <- MC_BootBlockSize
  HalfWord <- MC_HalfWord
  StaleStack <- MC_StaleStack
  KernelFiles <- MC_KernelFiles
  FontFiles <- MC_FontFiles
  EnvSizes <- MC_EnvSizes
  MetaSizes <- MC_MetaSizes
  Howtos <- MC_Howtos
  StaleAddrs <- MC_StaleAddrs
  OthersUseKexec = TRUE
INVARIANTS
  KernelFindsEverything
  StagedIsMapped
  LayoutAcceptable
  PretendStaysPut
PROPERTIES
  KernelEntered
  EventuallySettled
