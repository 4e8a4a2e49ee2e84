SPECIFICATION Spec
CONSTANTS
  EntriesPerTable <- MC_EntriesPerTable
  BasePage <- MC_BasePage
  HalfWord <- MC_HalfWord
  Handoffs <- MC_Handoffs
  StaleStack <- MC_StaleStack
INVARIANTS
  TypeOK
  LowIdentity
  HighLinear
  OnlyTablesWritten
  ArgumentsDelivered
  NextInstructionRuns
