\* Two threads on main buckets of their own, competing for two spares.
SPECIFICATION Spec
CONSTANTS
  t1 = t1
  t2 = t2
  Threads = {t1, t2}
  Homes <- OwnHomes
  TagSpan = 4
  BucketSpan = 4
  RssSpan = 2
  MainSize = 2
  SpareSize = 2
  BUCKET_ENTRY_SIZE = 1
  Hashes = {0, 1}
  Offsets = {1}
  LinkSpan = 8
INVARIANTS NoSpareLost
PROPERTIES IndexImplemented
