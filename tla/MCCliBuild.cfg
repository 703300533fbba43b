CONSTANTS
  INT_MAX = 1000
  expected_max_vector_size = 160
  to_lower <- MCLower
  remove_underscore <- MCPlain
  AppIds <- MCAppIds
  OptionIds <- MCOptionIds
  Root = "1"
  Programs <- MCPrograms
  OptionNames <- MCOptionNames
  FlagNames <- MCFlagNames
  CommandNames <- MCCommandNames
  SizeArguments = {0, 2, 160}
  RangeArguments <- MCRangeArguments
  MaxCalls = 3
SPECIFICATION Spec
INVARIANTS TypeOK HelpFlagsOwned ExclusionsSymmetric EveryOptionCanBeGiven
PROPERTIES NoNewClash NoNewCommandClash FailuresRollBack LinksGoWithTheOption
CHECK_DEADLOCK FALSE
