SPECIFICATION ReadersSpec
CONSTANTS
  m1 = m1
  m2 = m2
  r1 = r1
  r2 = r2
  s1 = s1
  v1 = v1
  Requests = {r1, r2}
  Sealers = {s1}
  Readers = {v1}
  Parts = {"verify"}
  Ids <- TwoIds
  NoId = NoId
  Keep = Keep
  Seed <- SeedTwo
  Workload <- ReaderWorkload
  MaxAttempts = 2
  MinEntries = 1
  MaxEntries = 2
  Bounds = {0, 3}
  EventLimit = 1
INVARIANTS
  AlarmsMeanTampering
