SPECIFICATION Spec
CONSTANTS
  name = name
  count = count
  NoRules = NoRules
  Headers <- NameTwice
  Chars <- AllChars
  Cells <- AllCells
  Files <- PairFiles
  Rules = NoRules
  Blank <- BlankCells
  Typed <- CellsOfType
  Matching <- CellsMatching
  FileSizes = {1, 2}
  Threshold = 2
  MaxErrorSamples = 2
  Faults = {"source", "parser"}
INVARIANTS
  MismatchIsReal
CHECK_DEADLOCK FALSE
