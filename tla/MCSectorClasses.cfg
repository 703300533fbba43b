\* The questions of sector.hpp about every buffer of MCSubjects.
SPECIFICATION FairSpec
CONSTANTS
  Size = 12
  MaxOffset = 65535
  MinTime = 1199145600
  MaxTime = 1700000000
  Subjects <- MCSubjects
INVARIANTS
  TypeOK
  VerdictExact
  OrderMattersForEmptyRepeatsOnly
  DiffersOnlyBehindGaps
  NoGenuineHeaderRejected
  AtMostOneClass
  MostlyZeroErrsOneWay
PROPERTY
  Terminates
