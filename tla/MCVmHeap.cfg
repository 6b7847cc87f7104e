SPECIFICATION Spec
CONSTANTS
  HeapBlocks = 5
  MaxBlockSize = 20
  ArrVars = {a, b}
  StrVars = {s}
  NoVar = NoVar
  Literals = {16}
  DimSizes = {0, 3, 5}
  StrLens = {2, 7}
  StoreSizes = {1, 4}
  DataCells <- MCDataCells
  Habits = {}
INVARIANTS TypeOK HeapPartition FirstFit ReportNotAbove
PROPERTIES AllocSuffices DataIsolated SearchEnds Ownership
