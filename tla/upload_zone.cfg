SPECIFICATION Spec
CONSTANTS
  u1 = u1
  Uploads <- OneUpload
  Texts <- NameTexts
  PatternTexts <- SomePatterns
  Blank = ""
  Trim <- TrimTexts
  Compiling <- CompilingPatterns
  FieldTypes = {"string", "number"}
  DefaultType = "string"
  MaxRules = 2
  Priorities = {1, 5}
  MaxFileSize = 1
  FileLists <- SomeLists
  DollarNames = {"$a"}
  OddNames = {"a.b"}
INVARIANTS
  ShownIsSent
  JobAsShown
  LateRefusals
