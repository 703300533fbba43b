\* Expected to be violated: an ifstream whose read fails.
SPECIFICATION Spec
CONSTANTS
  Size = 2
  Images <- MCImages
  Faulty = {"file"}
  OpenedKinds = {"file"}
  Numbers <- MCNumbers
  Initial <- MCInitial
CHECK_DEADLOCK FALSE
PROPERTY
  ImplementsBlockSource
