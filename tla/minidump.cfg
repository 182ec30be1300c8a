SPECIFICATION Spec
CONSTANTS
  Page = 64
  Narrow = FALSE
  Inputs <- MCInputs
INVARIANTS
  TypeOK
  DisjointBlocks
  WritesStayInBlocks
  StreamsAreWhole
  DescriptorIsCallers
  HealthyDumpIsWritten
PROPERTIES
  MinidumpFormatSpec
CHECK_DEADLOCK FALSE
