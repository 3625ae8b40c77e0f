\* A writer and a reader of one bucket: the key a get returns.
SPECIFICATION LogSpec
CONSTANTS
  t1 = t1
  t2 = t2
  ka = ka
  kb = kb
  kc = kc
  kd = kd
  v = v
  w = w
  Threads = {t1, t2}
  Homes <- NoHomes
  TagSpan = 4
  BucketSpan = 2
  RssSpan = 2
  MainSize = 1
  SpareSize = 1
  BUCKET_ENTRY_SIZE = 1
  Hashes = {1, 2}
  Offsets = {1, 2}
  LinkSpan = 8
  Keys = {ka, kb}
  Vals = {v}
  NoKey = NoKey
  NoVal = NoVal
  Junk = Junk
  HashOf <- PairHash
  WriteKeys <- QueueWrites
  ReadKeys <- PairReads
  Heap <- PairHeap
  Scars = {"none"}
  VersionSpan = 16
  VersionCap = 8
INVARIANTS GetMatches
CHECK_DEADLOCK FALSE
