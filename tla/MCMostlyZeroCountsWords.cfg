\* Expected to be violated: see the comment on MostlyZeroCountsWords.
SPECIFICATION Spec
CONSTANTS
  Size = 12
  MaxOffset = 65535
  MinTime = 1199145600
  MaxTime = 1700000000
  Subjects <- MCSubjects
INVARIANT
  MostlyZeroCountsWords
