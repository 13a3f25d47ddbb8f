SPECIFICATION FairSpec
CONSTANTS
  name = name
  count = count
  NoRules = NoRules
  Headers <- NameCount
  Chars <- AllChars
  Cells <- AllCells
  Files <- PlainFiles
  Rules <- SomeRules
  Blank <- BlankCells
  Typed <- CellsOfType
  Matching <- CellsMatching
  FileSizes = {1, 2}
  Threshold = 2
  MaxErrorSamples = 2
  Faults = {"source", "parser"}
INVARIANTS
  CsvInv
  SamplesAreFirstErrors
  DuplicatesExact
  NoDuplicateMissed
PROPERTIES
  ReportKept
  PromiseSettles
CHECK_DEADLOCK FALSE
