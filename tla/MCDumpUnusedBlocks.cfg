\* Reads, opens and writes may fail at any moment.
SPECIFICATION FairSpec
CONSTANTS
  Size = 2
  Images <- MCImages
  Faulty = {"ext2"}
  CommandLines <- MCCommandLines
  CheckInterval = 2
  WritesMayFail = TRUE
INVARIANTS
  TypeOK
  FilesArePrefixes
  SuccessIsComplete
PROPERTIES
  WriteErrorsSurface
  Terminates
