\* Two keys of one tag in one bucket.
SPECIFICATION FairLogSpec
CONSTANTS
  t1 = t1
  t2 = t2
  ka = ka
  kb = kb
  kc = kc
  kd = kd
  v = v
  w = w
  Threads = {t1}
  Homes <- NoHomes
  TagSpan = 4
  BucketSpan = 2
  RssSpan = 2
  MainSize = 1
  SpareSize = 1
  BUCKET_ENTRY_SIZE = 2
  Hashes = {1}
  Offsets = {1, 2}
  LinkSpan = 8
  Keys = {ka, kb}
  Vals = {v}
  NoKey = NoKey
  NoVal = NoVal
  Junk = Junk
  HashOf <- TwinHash
  WriteKeys <- QueueWrites
  ReadKeys <- TwinOps
  Heap <- TwinHeap
  Scars = {"none"}
  VersionSpan = 2
  VersionCap = 2
PROPERTIES OpsReturn
