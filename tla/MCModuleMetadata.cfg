SPECIFICATION Spec
CONSTANTS
  ALIGN <- MC_ALIGN
  Programs <- MC_Programs
INVARIANTS
  TypeOK
  RecordsIntact
  ReaderOnRecord
  EndFound
PROPERTY EventuallyRead
