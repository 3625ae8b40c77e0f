\* The smallest partition: three blocks of the larger of two classes.
SPECIFICATION SegSpec
CONSTANTS
  PartWords = 12
  ClassCount = 2
  Requests = {1, 2}
INVARIANTS HeadsInBounds
CHECK_DEADLOCK FALSE
