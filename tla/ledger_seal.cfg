SPECIFICATION Spec
CONSTANTS
  m1 = m1
  m2 = m2
  m3 = m3
  r1 = r1
  r2 = r2
  r3 = r3
  r4 = r4
  s1 = s1
  s2 = s2
  Requests = {r1, r2, r3}
  Sealers = {s1, s2}
  Ids <- TwoIds
  NoId = NoId
  Keep = Keep
  Seed <- SeedTwo
  Workload <- SealWorkload
  MaxAttempts = 2
  MinEntries = 2
  MaxEntries = 2
INVARIANTS
  BlocksTileHistory
  SealNeverRefused
PROPERTIES
  ImplementsSealedLog
