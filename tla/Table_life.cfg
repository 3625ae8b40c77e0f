\* Two tables, each created, used, destroyed and killed again and again.
SPECIFICATION TableSpec
CONSTANTS
  ta = ta
  tb = tb
  Tables = {ta, tb}
  NameOf <- TwoNames
  Threads = 2
  Sizes <- ThreeSizes
  BucketBytes = 2
  SizeSpan = 16
  PageBytes = 4
  Hashes = {0, 1, 2, 5, 7, 10, 15}
  TagSpan = 2
  BucketSpan = 8
  RssSpan = 1
  Generations = {1, 2}
  LeakCap = 2
INVARIANTS TableTypeOK NothingHeld FilesApart
PROPERTIES TableImplemented
