SPECIFICATION Spec
CONSTANTS
  LONG <- MC_LONG
  KERNBASE <- MC_KERNBASE
  Hole <- MC_Hole
  Kernels <- MC_Dynamic
  Strings = {}
  MaxAdded <- MC_MaxAdded
  Word <- MC_Word
  Stack <- MC_Stack
  Files = {}
  Contents = {}
  StaleByte <- MC_StaleByte
  EfiPage <- MC_EfiPage
  TABLE <- MC_TABLE
  StaleWord <- MC_StaleWord
  Hosts = {}
INVARIANT NamesOfSymbols
