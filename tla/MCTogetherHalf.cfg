SPECIFICATION TogetherSpec
CONSTANTS
  f1 = f1
  f2 = f2
  none = none
  Frames = {f1, f2}
  NoFrame = none
  Rows <- MCRows
  Gestures <- PageChanges
  MaxGestures <- OneEach
  MaxFaults = 1
  Announcers = {f2}
INVARIANT
  AllOrNothingEitherWay
CHECK_DEADLOCK FALSE
