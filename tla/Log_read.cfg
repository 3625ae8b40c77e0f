\* A writer and a reader of two keys in one bucket.  A reader's fault ends the
\* process, and the bound on the version stops the writer.
SPECIFICATION LogSpec
CONSTANTS
  t1 = t1
  t2 = t2
  ka = ka
  kb = kb
  kc = kc
  kd = kd
  Threads = {t1, t2}
  Homes <- NoHomes
  TagSpan = 4
  BucketSpan = 2
  RssSpan = 2
  MainSize = 1
  SpareSize = 1
  BUCKET_ENTRY_SIZE = 1
  Hashes = {1, 2}
  Offsets = {1, 2}
  LinkSpan = 8
  Keys = {ka, kb}
  v = v
  w = w
  Vals = {v, w}
  NoKey = NoKey
  NoVal = NoVal
  Junk = Junk
  HashOf <- PairHash
  WriteKeys <- QueueWrites
  ReadKeys <- PairReads
  Heap <- PairHeap
  Scars = {"size", "val"}
  VersionSpan = 16
  VersionCap = 6
INVARIANTS LogTypeOK OddWhileUpdating EntriesSound PutIsIndexed
PROPERTIES EvenWindowGets
CHECK_DEADLOCK FALSE
SYMMETRY Values
