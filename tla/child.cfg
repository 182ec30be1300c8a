SPECIFICATION WholeSpec
CONSTANTS
  PageSize = 4
  Word = 2
  Space = 128
  StackToCapture = 8
  ExtraLen = 2
  BaseThreads = 1
  IPHalf = 2
  SmallInt = 3
  BucketSize = 8
  Buckets = 8
  ModuleMin = 8
  MaxDyn = 2
  Defaced = 77
  Paths = {"a", "p", "m", "l", "z", "g"}
  LongPaths = {"l"}
  Gate = "gate"
  NoName = ""
  Caret = "^"
  Capacity = 10
  MaxFrame = 2
  AndroidL = 21
  AndroidO = 26
  Unknown <- MCUnknown
  Inputs <- MCInputs
INVARIANTS
  WholeTypeOK
  MappingsAreLines
  CapturesAreLive
  SanitizedKeepsPointersOnly
  MainIsFirst
  TextHasBothParts
PROPERTIES
  TextEnds
CHECK_DEADLOCK FALSE
