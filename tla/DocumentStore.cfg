\* One document, two contents that share a chunk, two attempts of its job in flight.
SPECIFICATION Spec
CONSTANTS
  hA = hA
  hB = hB
  t1 = t1
  t2 = t2
  t3 = t3
  NoHash = NoHash
  NoVersion = NoVersion
  Docs = {d1}
  Hashes = {hA, hB}
  Texts = {t1, t2, t3}
  TextOf <- SharedText
  Models = {m1}
  Workers = {w1, w2}
  Retention = 0
  BatchSize = 1
  MaxTime = 1
  MaxJobs = 1
SYMMETRY Symmetry
INVARIANTS LiveIsWhole IngestedNotSwept
PROPERTIES VersionsImmutable IndexSpec
CHECK_DEADLOCK FALSE
