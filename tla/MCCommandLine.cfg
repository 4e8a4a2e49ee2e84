SPECIFICATION Spec
CONSTANTS
  CommandLines <- MC_CommandLines
  NoRoot = NoRoot
INVARIANTS
  TypeOK
  OptionsAsGiven
  NoRunWhenUnclear
  RootIsLastWord
PROPERTY EventuallyDecided
