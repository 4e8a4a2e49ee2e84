SPECIFICATION Spec
CONSTANTS
  PageSize <- MC_PageSize
  BootPhys <- MC_BootPhys
  KernPhys <- MC_KernPhys
  BootBlockSize <- MC_BootBlockSize
  KernelFiles <- MC_KernelFiles
  FontFiles <- MC_FontFiles
  EnvSizes <- MC_EnvSizes
  MetaSizes <- MC_MetaSizes
  Howtos <- MC_Howtos
  StaleAddrs <- MC_StaleAddrs
  OthersUseKexec = TRUE
INVARIANTS
  TypeOK
  HandoffReachable
  HandoffBelowKernend
  HowtoDelivered
  CleanRebootFailureReported
  RebootsStagedImage
PROPERTY ContractMet
