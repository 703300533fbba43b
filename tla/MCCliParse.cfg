CONSTANTS
  INT_MAX = 1000
  expected_max_vector_size = 160
  to_lower <- MCLower
  remove_underscore <- MCPlain
  Interfaces <- MCInterfaces
  Scripts <- MCScripts
SPECIFICATION Spec
INVARIANTS TypeOK OutcomeOfInput RequirementsMet StoredIsShown HelpBeforeComplaints FinalCallbacksLast
  FinalCallbacksAsOftenAsUsed EveryArgumentMoves
CHECK_DEADLOCK FALSE
