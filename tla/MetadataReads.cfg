CONSTANTS
  w1 = w1  w2 = w2
  dev = dev  bucket = bucket
  i1 = i1  i2 = i2
  shared = shared
  Writers = {w1, w2}
  Readers = {r1}
  Names = {dev, bucket}
  Paths = {p}
  Labels = {l}
  Contents = {c1, c2, bad}
  Valid = {c1, c2}
  Ids = {i1, i2}
  Dirs = {shared}
  SlugOf <- MCSlugOf
  NoSource = NoSource  NoBucket = NoBucket  NoPath = NoPath  NoFile = NoFile
  InitConns = {dev}
  MaxRequests = 3
  MaxFaults = 1
  MaxReads = 1
SPECIFICATION SpecReads
SYMMETRY MCSymmetry
INVARIANTS
  NoNetworkForBuckets
  ReadsOwnBytes
CHECK_DEADLOCK FALSE
