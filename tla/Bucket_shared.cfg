\* Two threads racing on one main bucket, which no lock keeps apart.
SPECIFICATION FairSpec
CONSTANTS
  t1 = t1
  t2 = t2
  Threads = {t1, t2}
  Homes <- SharedHomes
  TagSpan = 4
  BucketSpan = 4
  RssSpan = 2
  MainSize = 1
  SpareSize = 3
  BUCKET_ENTRY_SIZE = 1
  Hashes = {0}
  Offsets = {1}
  LinkSpan = 8
INVARIANTS TypeOK ChainsDisjoint FullMeansExhausted
PROPERTIES CallReturns
