\* Two writers on main buckets of their own.  Each has more keys than its bucket
\* has slots, so both claim and link spares; one of them reads as well.
SPECIFICATION FairLogSpec
CONSTANTS
  t1 = t1
  t2 = t2
  ka = ka
  kb = kb
  kc = kc
  kd = kd
  Threads = {t1, t2}
  Homes <- NoHomes
  TagSpan = 4
  BucketSpan = 2
  RssSpan = 2
  MainSize = 2
  SpareSize = 2
  BUCKET_ENTRY_SIZE = 1
  Hashes = {1, 2, 13, 14}
  Offsets = {1, 2, 3, 4}
  LinkSpan = 8
  Keys = {ka, kb, kc, kd}
  v = v
  w = w
  Vals = {v}
  NoKey = NoKey
  NoVal = NoVal
  Junk = Junk
  HashOf <- OwnHash
  WriteKeys <- QueueWrites
  ReadKeys <- OwnReads
  Heap <- OwnHeap
  Scars = {"size"}
  VersionSpan = 16
  VersionCap = 3
INVARIANTS BlocksAccounted
PROPERTIES KvImplemented OpsReturn
