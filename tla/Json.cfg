SPECIFICATION Spec
CONSTANTS
  Bits = 64
  ignore_comments = FALSE
  BufferSize = 14
  StringBytes <- MCStringBytes
  MaxString = 1
  AnyBytes <- MCAnyBytes
  MaxBytes = 4
  NumberBytes <- MCNumberBytes
  MaxNumber = 4
  DocumentTokens <- MCDocumentTokens
  MaxTokens = 7
  MaxJunk = 4
  Starts <- MCStarts
  BinaryBytes <- MCBinaryBytes
  MaxBinary = 4
  BinaryValues <- MCBinaryValues
  Values <- MCValues
  MaxValues = 3
  Callbacks <- MCCallbacks
  keeps <- MCkeeps
  Operations <- MCOperations
  MergePatches <- MCMergePatches
INVARIANTS
  ScannedStringsDump
  BothTablesAreUtf8
  WideTextsAreUtf8
  EscapesFitTheBuffer
  NumbersAreExact
  DocumentsAreUnderstood
  WrittenIsReadBack
  CutTextsAreNoValues
  ReadValuesAreWritable
  DiffsApply
  FlattenedIsUnflattened
CHECK_DEADLOCK FALSE
