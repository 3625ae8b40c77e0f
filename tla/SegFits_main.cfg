\* Three blocks of the largest class and two words that fit in none.
\* A call that leaves the array of lists ends the program.
SPECIFICATION FairSegSpec
CONSTANTS
  PartWords = 19
  ClassCount = 4
  Requests = {1,2,3,4,5}
INVARIANTS SegTypeOK Tiled FreeListed AssertsHold FullBlockBack
PROPERTIES AllocatorImplemented CallsReturn
CHECK_DEADLOCK FALSE
