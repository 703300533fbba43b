\* The system calls of the ifstream reader may fail as well.
SPECIFICATION Spec
CONSTANTS
  Size = 4
  MaxOffset = 7
  Images <- MCFaultImages
  Faulty = {"identify", "ext2", "file"}
  CommandLines <- MCCommandLines
  TimeOf <- MCTimeOf
  Clocks = {160000000, 210000000}
  TimeModulus = 200000000
  ScanLimit = 3
  Garbage <- MCGarbage
INVARIANTS
  ReportParses
  TablesExact
PROPERTY
  SameBytesOnceMisdelivered
