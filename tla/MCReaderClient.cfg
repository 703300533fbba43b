\* All three readers; the calls on which the ifstream reader says nothing of a
\* failure do not fail, those of the other two may.
SPECIFICATION Spec
CONSTANTS
  Size = 2
  Images <- MCImages
  Faulty = {"ext2", "mmap"}
  OpenedKinds = {"ext2", "file", "mmap"}
  Numbers <- MCNumbers
  Initial <- MCInitial
CHECK_DEADLOCK FALSE
INVARIANT
  TypeOK
PROPERTY
  ImplementsBlockSource
