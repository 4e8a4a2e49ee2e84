SPECIFICATION Spec
CONSTANTS
  LONG <- MC_LONG
  KERNBASE <- MC_KERNBASE
  Hole <- MC_Hole
  Kernels <- MC_Kernels
  Strings <- MC_Strings
  MaxAdded <- MC_MaxAdded
  Word <- MC_Word
  Stack <- MC_Stack
  Files <- MC_Files
  Contents <- MC_Contents
  StaleByte <- MC_StaleByte
  EfiPage <- MC_EfiPage
  TABLE <- MC_TABLE
  StaleWord <- MC_StaleWord
  Hosts <- MC_Hosts
INVARIANTS
  ImageAsDescribed
  SymbolsFound
  StringsRead
  FontAsGiven
  LoadedIfWhole
  ContentDelivered
  MemoryTold
  RootPointerTold
