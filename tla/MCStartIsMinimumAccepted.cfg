\* Expected to be violated: see the comment on StartIsMinimumAccepted.
SPECIFICATION Spec
CONSTANTS
  Size = 4
  MaxOffset = 7
  Images <- MCImages
  Faulty = {}
  CommandLines <- MCCommandLines
  TimeOf <- MCTimeOf
  Clocks = {160000000, 210000000}
  TimeModulus = 200000000
  ScanLimit = 3
  Garbage <- MCGarbage
INVARIANTS
  StartIsMinimumAccepted
