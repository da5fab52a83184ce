SPECIFICATION Spec
CONSTANTS
  Half <- MCHalf
  Second <- MCSecond
  Minute <- MCMinute
  Hour <- MCHour
  Unset = unset
  Empty = empty
  Blank = blank
  Word = word
  Inputs <- MCInputs
INVARIANTS StartupTypeOK PrecedenceKept IntervalsPositive ServesWithinAssumptions
CHECK_DEADLOCK FALSE
