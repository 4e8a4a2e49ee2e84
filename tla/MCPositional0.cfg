SPECIFICATION Spec
CONSTANTS
  CommandLines <- MC_Ordinary
  NoRoot = NoRoot
INVARIANT RootIsPositional0
