\* Every image of MCImages; the reads of an ext2 image may fail.
SPECIFICATION FairSpec
CONSTANTS
  Size = 4
  MaxOffset = 7
  Images <- MCImages
  Faulty = {"identify", "ext2"}
  CommandLines <- MCCommandLines
  TimeOf <- MCTimeOf
  Clocks = {160000000, 210000000}
  TimeModulus = 200000000
  ScanLimit = 3
  Garbage <- MCGarbage
INVARIANTS
  TypeOK
  RunsExact
PROPERTIES
  ImplementsCarver
  Terminates
