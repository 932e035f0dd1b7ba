\* Four sources: resumed crawls of a changing site, every fault at once, no aborts.
SPECIFICATION Spec
CONSTANTS
  s = s
  a = a
  b = b
  p = p
  q = q
  c1 = c1
  c2 = c2
  Gone = Gone
  Urls = {s, a, b, p, q}
  Contents = {c1, c2}
  Sources <- FourSources
INVARIANTS HashMeansIngested OnePutPerCanonical
PROPERTIES PresentNotSwept SweepsAfterFullPass FullSyncCovers ContractSpec
CHECK_DEADLOCK FALSE
