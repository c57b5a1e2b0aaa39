\* All query strings with up to two fields and two values, and all ranges.
SPECIFICATION Spec
CONSTANTS
  QueryStrings <- MCQueryStrings
  Atoi <- MCAtoi
  Days <- MCDays
  Sorts <- MCSorts
INVARIANTS
  FilterIsTheRequest
  CountMatchesList
  StatementsExecutable
  RangeIsValidated
