\* Two writers whose keys meet in one main bucket.
SPECIFICATION LogSpec
CONSTANTS
  t1 = t1
  t2 = t2
  ka = ka
  kb = kb
  kc = kc
  kd = kd
  v = v
  w = w
  Threads = {t1, t2}
  Homes <- NoHomes
  TagSpan = 4
  BucketSpan = 2
  RssSpan = 2
  MainSize = 1
  SpareSize = 1
  BUCKET_ENTRY_SIZE = 2
  Hashes = {1, 10}
  Offsets = {1, 2}
  LinkSpan = 8
  Keys = {ka, kb}
  Vals = {v}
  NoKey = NoKey
  NoVal = NoVal
  Junk = Junk
  HashOf <- MeetHash
  WriteKeys <- QueueWrites
  ReadKeys <- NoHomes
  Heap <- MeetHeap
  Scars = {"none"}
  VersionSpan = 8
  VersionCap = 8
INVARIANTS OddWhileUpdating
