SPECIFICATION Spec
CONSTANTS
  Half <- MCHalf
  Second <- MCSecond
  Minute <- MCMinute
  Hour <- MCHour
  Unset = unset
  Empty = empty
  Blank = blank
  Word = word
  Inputs <- MCInputs
INVARIANT DefaultsDocumented
CHECK_DEADLOCK FALSE
