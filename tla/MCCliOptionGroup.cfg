\* A program with a group of options, and an empty argument.
CONSTANTS
  INT_MAX = 1000
  expected_max_vector_size = 160
  to_lower <- MCLower
  remove_underscore <- MCPlain
  Interfaces <- MCOptionGroup
  Scripts <- MCOptionGroupScripts
SPECIFICATION Spec
INVARIANT EveryArgumentMoves
CHECK_DEADLOCK FALSE
